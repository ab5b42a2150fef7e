------------------------- MODULE Capi2032ListProofs -------------------------
(***************************************************************************)
(* The list of awaited answers is sound whatever the threads do.           *)
(*                                                                         *)
(* addToHash and removeFromHash work from a start they read before they    *)
(* hold the lock, so the list may lose entries: an entry that replaces the *)
(* start hides the ones behind the old start until, perhaps, the receiver  *)
(* brings them back by unlinking that old start.  The invariant therefore  *)
(* names a set of nodes that holds whatever can be reached now or after    *)
(* that: no link leaves it, no two links in it meet, all its nodes are     *)
(* allocated, and the call of each still waits for its answer.             *)
(***************************************************************************)
EXTENDS Capi2032Proofs

(* A set of nodes that no link leaves and in which no two links meet, and  *)
(* a pointer to a node of it that no link leads to.                        *)
Sound(C, link) ==
    /\ \A a \in C : link[a] \in C \cup {NULL}
    /\ \A a, b \in C : link[a] = link[b] /\ link[a] # NULL => a = b

Heads(C, link, p) == p = NULL \/ (p \in C /\ \A a \in C : link[a] # p)

(* The first node with the id on the way from p is x: the nodes B before   *)
(* it have other ids.                                                      *)
Leads(link, ids, p, id, x) ==
    \E B \in SUBSET Nodes :
        /\ p \in B \cup {x} /\ x \notin B
        /\ \A n \in B : link[n] \in B \cup {x} /\ ids[n] # id

(* The call a node is named after waits for its answer. *)
Awaits(c, n) ==
    c[n[1]].n = n[2] /\ c[n[1]].pc \in {"send", "wait"} /\ c[n[1]].answer = Waiting

(* The connection was not lost so far. *)
Up == socke \in {"none", "open"}

(* The receiver, once it has looked a node of the set up, will unlink that *)
(* very node before it stores the answer.                                  *)
LiveSet(C) ==
    /\ C \subseteq allocated /\ Sound(C, next) /\ Heads(C, next, hash_start)
    /\ receiver.pc = "unlink" => Heads(C, next, receiver.queue)
    /\ receiver.data \in C =>
          \/ /\ receiver.pc = "read_start"
             /\ Leads(next, msgId, hash_start, receiver.msg.message_id, receiver.data)
          \/ /\ receiver.pc = "unlink"
             /\ Leads(next, msgId, receiver.queue, receiver.msg.message_id, receiver.data)
    /\ Up => \A n \in C : Awaits(call, n)

(* A call that has not entered its node has no answer, and the connection  *)
(* is up only until the library is unloaded.                               *)
EarlyInv ==
    /\ Up => dll \in {"unloaded", "loaded"}
    /\ dll = "unloaded" => socke = "none"
    /\ \A t \in Threads : call[t].pc \in {"increment", "read_start", "add"} =>
          call[t].answer = Waiting

ListInv == EarlyInv /\ \E C \in SUBSET Nodes : LiveSet(C)

-----------------------------------------------------------------------------
(* A new node at the end of a chain, or on its own. *)
LEMMA SoundAdd ==
    ASSUME NEW link \in Links, NEW link2, NEW C \in SUBSET Nodes, Sound(C, link),
           NEW new \in Nodes \ C, link[new] = NULL, \A n \in Nodes : link[n] # new,
           \/ link2 = link
           \/ \E last \in Nodes \ {new} : link[last] = NULL /\ link2 = [link EXCEPT ![last] = new]
    PROVE  /\ Sound(C \cup {new}, link2)
           /\ \A p : Heads(C, link, p) => Heads(C \cup {new}, link2, p)
           /\ link2 = link => Heads(C \cup {new}, link2, new)
<1>n. NULL \notin Nodes
  BY Capi2032Assumption DEF Nodes
<1>1. /\ \A a \in Nodes : link2[a] = link[a] \/ (link2[a] = new /\ link[a] = NULL)
      /\ link2[new] = NULL
      /\ \A a, b \in Nodes : link2[a] = new /\ link2[b] = new => a = b
  BY <1>n DEF Links
<1>2. Sound(C \cup {new}, link2)
  BY <1>n, <1>1 DEF Sound
<1>3. ASSUME NEW p, Heads(C, link, p) PROVE Heads(C \cup {new}, link2, p)
  BY <1>n, <1>1, <1>3 DEF Heads
<1>4. link2 = link => Heads(C \cup {new}, link2, new)
  BY <1>n, <1>1 DEF Heads
<1>5. QED
  BY <1>2, <1>3, <1>4

(* ... leaves what is found first as it was. *)
LEMMA LeadsAdd ==
    ASSUME NEW link \in Links, NEW link2, NEW ids, NEW ids2,
           NEW p, NEW id, NEW x \in Nodes, Leads(link, ids, p, id, x),
           \A n \in Nodes : link[n] # NULL => link2[n] = link[n] /\ ids2[n] = ids[n]
    PROVE  Leads(link2, ids2, p, id, x)
<1>n. NULL \notin Nodes
  BY Capi2032Assumption DEF Nodes
<1>1. PICK B \in SUBSET Nodes :
        /\ p \in B \cup {x} /\ x \notin B
        /\ \A n \in B : link[n] \in B \cup {x} /\ ids[n] # id
  BY DEF Leads
<1>2. \A n \in B : link2[n] \in B \cup {x} /\ ids2[n] # id
  BY <1>n, <1>1
<1>3. QED
  BY <1>1, <1>2 DEF Leads

(* The node at the head of the set is taken out: the next one heads it. *)
LEMMA SoundBehead ==
    ASSUME NEW link \in Links, NEW C \in SUBSET Nodes, Sound(C, link),
           NEW x \in C, Heads(C, link, x), link[x] # x
    PROVE  /\ Sound(C \ {x}, link)
           /\ Heads(C \ {x}, link, link[x])
<1>n. NULL \notin Nodes
  BY Capi2032Assumption DEF Nodes
<1>1. \A a \in C : link[a] # x
  BY <1>n DEF Heads
<1>2. QED
  BY <1>1 DEF Sound, Heads

(* A node within it is taken out: its predecessor leads past it. *)
LEMMA SoundUnlink ==
    ASSUME NEW link \in Links, NEW link2, NEW C \in SUBSET Nodes, Sound(C, link),
           NEW a \in C, NEW x \in C, link[a] = x, link[x] # x, a # x,
           link2 = [link EXCEPT ![a] = link[x]]
    PROVE  /\ Sound(C \ {x}, link2)
           /\ \A p : Heads(C, link, p) => Heads(C \ {x}, link2, p)
<1>n. NULL \notin Nodes
  BY Capi2032Assumption DEF Nodes
<1>1. \A b \in C : link2[b] = IF b = a THEN link[x] ELSE link[b]
  BY DEF Links
<1>2. \A b \in C \ {a} : link[b] # x
  BY <1>n DEF Sound
<1>3. Sound(C \ {x}, link2)
  <2>1. \A b \in C \ {x} : link2[b] \in (C \ {x}) \cup {NULL}
    BY <1>1, <1>2 DEF Sound
  <2>2. ASSUME NEW b \in C \ {x}, NEW c \in C \ {x}, link2[b] = link2[c], link2[b] # NULL
        PROVE  b = c
    BY <1>1, <2>2 DEF Sound
  <2>3. QED
    BY <2>1, <2>2 DEF Sound
<1>4. ASSUME NEW p, Heads(C, link, p) PROVE Heads(C \ {x}, link2, p)
  BY <1>n, <1>1, <1>4 DEF Heads
<1>5. QED
  BY <1>3, <1>4

-----------------------------------------------------------------------------
(* What the walk finds first is what is first on the way. *)
LEMMA LeadsFirst ==
    ASSUME Chained, NEW p \in Nodes, NEW id, NEW x \in Nodes,
           Leads(next, msgId, p, id, x), msgId[x] = id
    PROVE  \E i \in Matches(p, id) :
               /\ \A j \in Matches(p, id) : i <= j
               /\ ListFrom(p)[i] = x
<1>n. NULL \notin Nodes
  BY Capi2032Assumption DEF Nodes
<1> DEFINE list == ListFrom(p)
<1>1. /\ Len(list) \in Nat /\ Len(list) >= 1 /\ list[1] = p
      /\ \A i \in 1 .. Len(list) - 1 : list[i + 1] = next[list[i]]
      /\ next[list[Len(list)]] = NULL
  BY ListShape
<1>2. PICK B \in SUBSET Nodes :
        /\ p \in B \cup {x} /\ x \notin B
        /\ \A n \in B : next[n] \in B \cup {x} /\ msgId[n] # id
  BY DEF Leads
<1>m. Matches(p, id) = {i \in 1 .. Len(list) : msgId[list[i]] = id}
  BY DEF Matches
<1> HIDE DEF list
<1> DEFINE Out == {i \in 1 .. Len(list) : list[i] \notin B}
<1>3. Len(list) \in Out
  BY <1>n, <1>1, <1>2
<1>4. PICK i \in Out : \A j \in Out : i <= j
  <2>1. Out \subseteq Nat /\ Out # {}
    BY <1>3
  <2> HIDE DEF Out
  <2>2. QED
    BY <2>1, LeastNat
<1>5. i \in 1 .. Len(list) /\ list[i] \notin B
  OBVIOUS
<1>6. \A j \in 1 .. Len(list) : j < i => list[j] \in B
  <2>1. ASSUME NEW j \in 1 .. Len(list), j < i PROVE list[j] \in B
    <3>1. ~ (i <= j)
      BY <1>1, <1>5, <2>1
    <3>2. j \notin Out
      BY <1>4, <3>1
    <3>3. QED
      BY <3>2
  <2>2. QED
    BY <2>1
<1> HIDE DEF Out
<1>7. list[i] = x
  <2>1. CASE i = 1
    BY <1>1, <1>2, <1>5, <2>1
  <2>2. CASE i # 1
    <3>1. i - 1 \in 1 .. Len(list) - 1 /\ i - 1 \in 1 .. Len(list) /\ (i - 1) + 1 = i /\ i - 1 < i
      BY <1>1, <1>5, <2>2
    <3>2. list[i - 1] \in B /\ list[(i - 1) + 1] = next[list[i - 1]]
      BY <1>1, <1>6, <3>1
    <3>3. list[i] \in B \cup {x}
      BY <1>2, <3>1, <3>2
    <3>4. QED
      BY <1>5, <3>3
  <2>3. QED
    BY <2>1, <2>2
<1>8. i \in Matches(p, id)
  BY <1>m, <1>5, <1>7
<1>9. ASSUME NEW j \in Matches(p, id) PROVE i <= j
  <2>1. j \in 1 .. Len(list) /\ msgId[list[j]] = id
    BY <1>m
  <2>2. ~ (j < i)
    BY <1>2, <1>6, <2>1
  <2>3. QED
    BY <1>1, <1>5, <2>1, <2>2
<1>10. QED
  BY <1>7, <1>8, <1>9 DEF list

(* What getDataPtrFromMsgId returns is first on the way. *)
LEMMA LookupLeads ==
    ASSUME HashInv, NEW id, getDataPtrFromMsgId(id) # NULL
    PROVE  Leads(next, msgId, hash_start, id, getDataPtrFromMsgId(id))
<1>n. NULL \notin Nodes
  BY Capi2032Assumption DEF Nodes
<1> DEFINE M == Matches(hash_start, id)
           i == CHOOSE k \in M : \A j \in M : k <= j
           list == ListFrom(hash_start)
           x == list[i]
<1>1. getDataPtrFromMsgId(id) = x /\ M # {}
  BY DEF getDataPtrFromMsgId
<1>2. i \in M /\ \A j \in M : i <= j
  <2>1. M \subseteq Nat
    BY DEF Matches
  <2>2. \E k \in M : \A j \in M : k <= j
    BY <1>1, <2>1, LeastNat
  <2> HIDE DEF M
  <2>3. QED
    BY <2>2
<1> HIDE DEF i
<1>3. Chained /\ hash_start \in Nodes \cup {NULL}
  BY DEF HashInv, Added
<1>4. list \in Seq(Nodes) /\ i \in 1 .. Len(list) /\ msgId[x] = id
  BY <1>2, <1>3, ListFacts DEF Matches
<1>5. hash_start \in Nodes
  <2>1. hash_start = NULL => list = <<>>
    BY <1>3, ListFacts
  <2>2. QED
    BY <1>3, <1>4, <2>1
<1>6. /\ Len(list) \in Nat /\ list[1] = hash_start
      /\ \A j \in 1 .. Len(list) - 1 : list[j + 1] = next[list[j]]
  BY <1>3, <1>5, ListShape
<1>m. M = {j \in 1 .. Len(list) : msgId[list[j]] = id}
  BY DEF Matches
<1> HIDE DEF list, x, M
<1> DEFINE B == {list[j] : j \in 1 .. i - 1}
<1>7. \A j \in 1 .. i - 1 : /\ j \in 1 .. Len(list) - 1 /\ j \in 1 .. Len(list) /\ ~ (i <= j)
                            /\ j + 1 \in 1 .. i - 1 \/ j + 1 = i
  BY <1>4, <1>6
<1>8. \A j \in 1 .. i - 1 : /\ list[j] \in Nodes /\ msgId[list[j]] # id
                            /\ list[j + 1] = next[list[j]]
  BY <1>2, <1>4, <1>6, <1>7, <1>m
<1>9. \A j \in 1 .. i - 1 : next[list[j]] \in B \cup {x}
  BY <1>7, <1>8 DEF x
<1>10. B \in SUBSET Nodes /\ x \notin B /\ \A n \in B : next[n] \in B \cup {x} /\ msgId[n] # id
  <2>1. \A n \in B : \E j \in 1 .. i - 1 : n = list[j]
    OBVIOUS
  <2> HIDE DEF B
  <2>2. ASSUME NEW n \in B
        PROVE  n \in Nodes /\ next[n] \in B \cup {x} /\ msgId[n] # id
    <3>1. PICK j \in 1 .. i - 1 : n = list[j]
      BY <2>1
    <3>2. QED
      BY <1>8, <1>9, <3>1
  <2>3. x \notin B
    BY <1>4, <2>2
  <2>4. QED
    BY <2>2, <2>3
<1>11. hash_start \in B \cup {x}
  <2>1. i = 1 \/ 1 \in 1 .. i - 1
    BY <1>4, <1>6
  <2>2. QED
    BY <1>6, <2>1 DEF x
<1> HIDE DEF B
<1>12. QED
  BY <1>1, <1>10, <1>11 DEF Leads

-----------------------------------------------------------------------------
(* The connection does not come back, and is closed before the entries are *)
(* marked.                                                                 *)
LEMMA UpStep ==
    ASSUME ClientInv, EarlyInv, [Next]_vars
    PROVE  /\ Up' => Up /\ dll' \in {"unloaded", "loaded"}
           /\ dll' = "unloaded" => socke' = "none"
           /\ ~ (Up /\ MarkEntries)
<1>1. ASSUME NEW t \in Threads, Call(t) \/ CallerStep(t) PROVE UNCHANGED <<dll, socke>>
  BY <1>1 DEF Call, CallerStep, IncrementMsgId, ReadStart, AddEntry, sendRequest,
         sendRequest_fails, Returns, CAPI_REGISTER, CAPI_RELEASE, CAPI_GET_MESSAGE,
         GetMessage_fails,
         GetMessage_malformed, GetMessage_copies, GetMessage_keeps, Ends, PlainCallReturns,
         CAPI_PUT_MESSAGE, CAPI_WAIT_FOR_SIGNAL, CAPI_GET_MANUFACTURER,
         CAPI_GET_VERSION, CAPI_GET_SERIAL_NUMBER, CAPI_GET_PROFILE, CAPI_INSTALLED
<1>2. CASE ReceiverStep \/ ServerAnswers \/ UNCHANGED vars
  BY <1>2 DEF ReceiverStep, recv, recv_fails, Lookup, ReadStartToRemove, Unlink, Store,
              ServerAnswers, vars, EarlyInv, Up, MarkEntries
<1>3. CASE \/ DLL_PROCESS_DETACH \/ FreeApps \/ MarkEntries \/ ConnectionBreaks
  BY <1>3 DEF DLL_PROCESS_DETACH, FreeApps, MarkEntries, ConnectionBreaks, EarlyInv, Up
<1>4. CASE DLL_PROCESS_ATTACH
  BY <1>4 DEF DLL_PROCESS_ATTACH, MarkEntries, EarlyInv, Up, ClientInv, FlagTypes
<1>5. QED
  BY <1>1, <1>2, <1>3, <1>4 DEF Next, EarlyInv, Up, MarkEntries

(* The records of the calls, as a type. *)
CallRecords ==
    [pc : CallStates, n : 0 .. MaxCalls, type : CapiTypes \cup {"none"},
     app_id : AppIds \cup {0}, id : Nat, queue : Nodes \cup {NULL},
     answer : GoodAnswers \cup {Waiting, ILLEGAL_ANSWER},
     result : CapiErrors \cup {"none"}]

(* How a step may change the answer of one call: it begins without one;    *)
(* it goes on with what it has; or, having entered its node, it gets one   *)
(* from the receiver, from a send that failed or from the unloading.       *)
Keeps(c, d) ==
    \/ d.answer = Waiting /\ c.pc = "idle"
    \/ /\ d.answer = c.answer /\ d.n = c.n
       /\ d.pc \in {"increment", "read_start", "add"} => c.pc \in {"increment", "read_start"}
       /\ d.pc = "send" => c.pc = "add"
       /\ c.pc \in {"send", "wait"} => d.pc \in {"send", "wait"} \/ c.answer # Waiting
    \/ d.n = c.n /\ d = c

Gets(t) ==
    \/ Store /\ FrameLive(receiver.data) /\ receiver.data[1] = t
    \/ sendRequest_fails(t)
    \/ MarkEntries

(* Every step changes the answer of a call in one of these ways. *)
LEMMA CallsKeep ==
    ASSUME ClientInv, [Next]_vars, NEW t \in Threads
    PROVE  Keeps(call[t], call'[t]) \/ Gets(t)
<1>i. /\ call = [u \in Threads |-> call[u]]
      /\ \A u \in Threads : call[u] \in CallRecords
  BY DEF ClientInv, CallInv, CallOK, CallRecords
<1>0. CASE call' = call
  BY <1>0 DEF Keeps
<1>1. ASSUME NEW u \in Threads, Call(u) PROVE Keeps(call[t], call'[t])
  BY <1>1, <1>i DEF Call, Keeps, CallRecords
<1>2. ASSUME NEW u \in Threads, NEW from, NEW to, Moves(u, from, to),
             from \in {"increment", "add", "send"},
             from = "increment" => to = "read_start", from = "add" => to = "send",
             from = "send" => to = "wait"
      PROVE  Keeps(call[t], call'[t])
  <2>1. CASE u = t
    <3>1. call'[t].answer = call[t].answer /\ call'[t].n = call[t].n /\ call'[t].pc = to
      BY <1>2, <1>i, <2>1 DEF Moves, CallRecords
    <3>2. call[t].pc = from
      BY <1>2, <2>1 DEF Moves
    <3>3. QED
      BY <1>2, <3>1, <3>2 DEF Keeps
  <2>2. CASE u # t
    BY <1>2, <1>i, <2>2 DEF Moves, Keeps
  <2>3. QED
    BY <2>1, <2>2
<1>3. ASSUME NEW u \in Threads, ReadStart(u) PROVE Keeps(call[t], call'[t])
  BY <1>3, <1>i DEF ReadStart, Keeps, CallRecords
<1>f. ASSUME NEW u \in Threads, sendRequest_fails(u) PROVE Keeps(call[t], call'[t]) \/ Gets(t)
  BY <1>f, <1>i DEF sendRequest_fails, Keeps, Gets, CallRecords
<1>e. ASSUME NEW u \in Threads, NEW result, Ends(u, result), call[u].pc \in {"wait", "keep"},
             call[u].pc = "wait" => call[u].answer # Waiting
      PROVE  Keeps(call[t], call'[t])
  BY <1>e, <1>i DEF Ends, Keeps, CallRecords
<1>4. ASSUME NEW u \in Threads, NEW type, NEW result, Returns(u, type, result)
      PROVE  Keeps(call[t], call'[t])
  BY <1>4, <1>e DEF Returns, Answered
<1>g. ASSUME NEW u \in Threads, CAPI_GET_MESSAGE(u) PROVE Keeps(call[t], call'[t])
  <2>1. CASE GetMessage_fails(u) \/ GetMessage_malformed(u) \/ GetMessage_keeps(u)
    BY <1>e, <2>1 DEF GetMessage_fails, GetMessage_malformed, GetMessage_keeps, Answered
  <2>2. CASE GetMessage_copies(u)
    <3>1. PICK queue : call' = [call EXCEPT ![u].pc = "keep", ![u].queue = queue]
      BY <2>2 DEF GetMessage_copies
    <3>2. call[u].pc = "wait" /\ call[u].answer # Waiting
      BY <2>2 DEF GetMessage_copies, Answered
    <3>3. QED
      BY <1>i, <3>1, <3>2 DEF Keeps, CallRecords
  <2>3. QED
    BY <1>g, <2>1, <2>2 DEF CAPI_GET_MESSAGE
<1>5. CASE Store
  <2>1. CASE call' # call /\ receiver.data[1] # t
    <3>1. PICK c : call' = [call EXCEPT ![receiver.data[1]] = c]
      BY <1>5, <2>1 DEF Store
    <3>2. call'[t] = call[t]
      BY <1>i, <2>1, <3>1
    <3>3. QED
      BY <3>2 DEF Keeps
  <2>2. CASE call' # call /\ receiver.data[1] = t
    BY <1>5, <2>2 DEF Store, Gets
  <2>3. QED
    BY <1>0, <2>1, <2>2
<1>6. CASE MarkEntries
  BY <1>6 DEF Gets
<1>7. ASSUME NEW u \in Threads, IncrementMsgId(u) \/ AddEntry(u) \/ sendRequest(u)
      PROVE  Keeps(call[t], call'[t])
  <2>1. \/ Moves(u, "increment", "read_start") \/ Moves(u, "add", "send")
        \/ Moves(u, "send", "wait")
    BY <1>7 DEF IncrementMsgId, AddEntry, sendRequest
  <2>2. CASE Moves(u, "increment", "read_start")
    BY <1>2, <2>2
  <2>3. CASE Moves(u, "add", "send")
    BY <1>2, <2>3
  <2>4. CASE Moves(u, "send", "wait")
    BY <1>2, <2>4
  <2>5. QED
    BY <2>1, <2>2, <2>3, <2>4
<1>8. ASSUME NEW u \in Threads, CallerStep(u) PROVE Keeps(call[t], call'[t]) \/ Gets(t)
  BY <1>8, <1>3, <1>4, <1>7, <1>f, <1>g
     DEF CallerStep, CAPI_REGISTER, CAPI_RELEASE, PlainCallReturns,
         CAPI_PUT_MESSAGE, CAPI_WAIT_FOR_SIGNAL, CAPI_GET_MANUFACTURER, CAPI_GET_VERSION,
         CAPI_GET_SERIAL_NUMBER, CAPI_GET_PROFILE, CAPI_INSTALLED
<1>9. CASE ReceiverStep
  BY <1>9, <1>0, <1>5 DEF ReceiverStep, recv, recv_fails, Lookup, ReadStartToRemove, Unlink
<1>10. CASE \/ DLL_PROCESS_ATTACH \/ DLL_PROCESS_DETACH \/ FreeApps
            \/ ServerAnswers \/ ConnectionBreaks \/ UNCHANGED vars
  BY <1>10, <1>0 DEF DLL_PROCESS_ATTACH, DLL_PROCESS_DETACH, FreeApps, ServerAnswers,
                     ConnectionBreaks, vars
<1>11. QED
  BY <1>1, <1>6, <1>8, <1>9, <1>10 DEF Next

(* The entries the unloading marks were entered. *)
LEMMA InListAdded ==
    ASSUME HashInv
    PROVE  InList(hash_start) \subseteq Added
<1>1. Chained /\ Added \subseteq Nodes /\ \A n \in Added : next[n] = NULL \/ next[n] \in Added
  BY DEF HashInv, Added
<1>2. CASE hash_start \in Added
  BY <1>1, <1>2, ListStays DEF InList
<1>3. CASE hash_start = NULL
  <2>1. ListFrom(hash_start) = <<>>
    BY <1>1, <1>3, ListFacts
  <2>2. Len(ListFrom(hash_start)) = 0
    BY <2>1
  <2>3. QED
    BY <2>2 DEF InList
<1>4. QED
  BY <1>2, <1>3 DEF HashInv

(* A call that has not entered its node gets no answer. *)
LEMMA EarlyStep ==
    ASSUME ClientInv, EarlyInv, [Next]_vars
    PROVE  EarlyInv'
<1>1. ASSUME NEW t \in Threads, call'[t].pc \in {"increment", "read_start", "add"}
      PROVE  call'[t].answer = Waiting
  <2>1. CASE Keeps(call[t], call'[t])
    BY <1>1, <2>1 DEF Keeps, EarlyInv
  <2>2. ASSUME sendRequest_fails(t) PROVE FALSE
    BY <1>1, <2>2 DEF sendRequest_fails, ClientInv, CallInv, CallOK
  <2>3. ASSUME Store, FrameLive(receiver.data), receiver.data[1] = t PROVE FALSE
    <3>1. receiver.data = Node(t) /\ receiver.data \in Nodes
      BY <2>3, StoreRight DEF ClientInv, Store
    <3>2. msgId[Node(t)] # 0
      BY <2>3, <3>1 DEF ClientInv, ReceiverInv, GoodAnswers, Store, FrameLive
    <3>3. call[t].n \in 1 .. MaxCalls
      BY <3>1 DEF Node, Nodes
    <3>4. call[t].pc \in {"send", "wait", "keep", "idle"}
      BY <3>2, <3>3 DEF ClientInv, AddedFirst, Node
    <3>5. call' = [call EXCEPT ![t] = Given(call[t], receiver.msg)]
      BY <2>3 DEF Store
    <3>6. call'[t].pc = call[t].pc
      BY <3>5 DEF ClientInv, CallInv, CallOK, Given
    <3>7. QED
      BY <1>1, <3>4, <3>6
  <2>4. CASE MarkEntries
    <3>1. \/ call'[t] = call[t]
          \/ Node(t) \in Added /\ call'[t] = Given(call[t], ILLEGAL_ANSWER)
      BY <2>4, InListAdded DEF MarkEntries, ClientInv
    <3>2. call'[t].pc = call[t].pc
      BY <3>1 DEF ClientInv, CallInv, CallOK, Given
    <3>3. Node(t) \in Added => call[t].pc \in {"send", "wait", "keep", "idle"}
      BY DEF ClientInv, AddedFirst, Node, Added, Nodes
    <3>4. QED
      BY <1>1, <3>1, <3>2, <3>3 DEF EarlyInv
  <2>5. QED
    BY <2>1, <2>2, <2>3, <2>4, CallsKeep DEF Gets
<1>2. QED
  BY <1>1, UpStep DEF EarlyInv

(* A call that waits goes on to wait, unless the receiver stores the       *)
(* answer for its node.                                                    *)
LEMMA AwaitStep ==
    ASSUME ClientInv, EarlyInv, [Next]_vars, Up', NEW n \in Nodes, Awaits(call, n),
           ~ (Store /\ receiver.data = n)
    PROVE  Awaits(call', n)
<1>1. PICK t \in Threads, k \in 1 .. MaxCalls : n = <<t, k>>
  BY DEF Nodes
<1>2. call[t].n = k /\ call[t].pc \in {"send", "wait"} /\ call[t].answer = Waiting
  BY <1>1 DEF Awaits
<1>3. ~ sendRequest_fails(t) /\ ~ MarkEntries
  BY UpStep DEF sendRequest_fails, Up
<1>4. ~ (Store /\ FrameLive(receiver.data) /\ receiver.data[1] = t)
  <2> SUFFICES ASSUME Store, FrameLive(receiver.data), receiver.data[1] = t PROVE FALSE
    OBVIOUS
  <2>1. receiver.data = Node(t)
    BY StoreRight DEF ClientInv, Store
  <2>2. receiver.data = n
    BY <1>1, <1>2, <2>1 DEF Node
  <2>3. QED
    BY <2>2
<1>5. Keeps(call[t], call'[t])
  BY <1>3, <1>4, CallsKeep DEF Gets
<1>6. call'[t].n = k /\ call'[t].pc \in {"send", "wait"} /\ call'[t].answer = Waiting
  BY <1>2, <1>5 DEF Keeps
<1>7. QED
  BY <1>1, <1>6 DEF Awaits

-----------------------------------------------------------------------------
(* A step that leaves the list and the receiver alone keeps the set. *)
LEMMA LiveSame ==
    ASSUME ClientInv, EarlyInv, [Next]_vars, NEW C \in SUBSET Nodes, LiveSet(C),
           UNCHANGED <<next, msgId, allocated, hash_start, receiver>>
    PROVE  LiveSet(C)'
<1>1. ~ Store
  <2> SUFFICES ASSUME Store PROVE FALSE
    OBVIOUS
  <2>1. receiver.pc = "store" /\ receiver' = [receiver EXCEPT !.pc = "recv", !.msg = Waiting,
                                    !.data = NULL, !.queue = NULL]
    BY DEF Store
  <2>2. receiver'.pc = "recv"
    BY <2>1 DEF ClientInv, ReceiverInv
  <2>3. QED
    BY <2>1, <2>2
<1>2. Up' => \A n \in C : Awaits(call', n)
  BY <1>1, AwaitStep, UpStep DEF LiveSet
<1>3. QED
  BY <1>2 DEF LiveSet

(* The call of an entered node starts to wait. *)
LEMMA NewAwaits ==
    ASSUME ClientInv, EarlyInv, NEW t \in Threads, Moves(t, "add", "send")
    PROVE  Awaits(call', Node(t))
<1>1. call[t].answer = Waiting /\ call[t].pc = "add"
  BY DEF Moves, EarlyInv
<1>2. call'[t].n = call[t].n /\ call'[t].pc = "send" /\ call'[t].answer = call[t].answer
  BY DEF Moves, ClientInv, CallInv, CallOK
<1>3. QED
  BY <1>1, <1>2 DEF Awaits, Node

(* addToHash: the new node joins the set; if it becomes the start while    *)
(* the receiver has not read that, it is the set.                          *)
LEMMA LiveEnters ==
    ASSUME ClientInv, EarlyInv, [Next]_vars, NEW C \in SUBSET Nodes, LiveSet(C),
           NEW t \in Threads, Moves(t, "add", "send"), Enters(t), UNCHANGED receiver
    PROVE  \E D \in SUBSET Nodes : LiveSet(D)'
<1>0. PICK new : new = Node(t)
  OBVIOUS
<1>n. new \in Nodes /\ new \notin Added /\ NULL \notin Nodes
  BY <1>0, NewNode, Capi2032Assumption DEF Moves, Nodes
<1>i. HashInv /\ ReceiverInv
  BY DEF ClientInv
<1>c. C \subseteq allocated /\ C \subseteq Added /\ new \notin C
  BY <1>n, <1>i DEF LiveSet, HashInv
<1>a. /\ Awaits(call', new)
      /\ Up' => \A n \in C : Awaits(call', n)
  <2>1. Awaits(call', new)
    BY <1>0, NewAwaits
  <2>2. ~ Store
    BY DEF Store, ReceiverInv, ClientInv
  <2>3. QED
    BY <2>1, <2>2, AwaitStep, UpStep DEF LiveSet
<1>1. /\ msgId' = [msgId EXCEPT ![new] = call[t].id] /\ allocated' = allocated \cup {new}
      /\ \/ next' = next /\ hash_start' \in {hash_start, new}
         \/ /\ \E last \in Added : next[last] = NULL /\ next' = [next EXCEPT ![last] = new]
            /\ hash_start' = hash_start
  BY <1>0 DEF Enters
<1>2. next \in Links /\ next[new] = NULL /\ \A n \in Nodes : next[n] # new
  BY <1>i, <1>n DEF HashInv, Chained
<1>3. \/ next' = next
      \/ \E last \in Nodes \ {new} : next[last] = NULL /\ next' = [next EXCEPT ![last] = new]
  BY <1>1, <1>n DEF Added
<1>4. /\ Sound(C \cup {new}, next')
      /\ \A p : Heads(C, next, p) => Heads(C \cup {new}, next', p)
      /\ next' = next => Heads(C \cup {new}, next', new)
  BY <1>2, <1>3, <1>c, <1>n, SoundAdd DEF LiveSet
<1>5. \A n \in Nodes : next[n] # NULL => next'[n] = next[n] /\ msgId'[n] = msgId[n]
  <2>1. \A n \in Nodes : next[n] # NULL => next'[n] = next[n]
    BY <1>2, <1>3 DEF Links
  <2>2. \A n \in Nodes \ {new} : msgId'[n] = msgId[n]
    BY <1>1, <1>i DEF HashInv
  <2>3. QED
    BY <1>2, <2>1, <2>2
<1>6. ASSUME NEW p, NEW id, NEW x \in Nodes, Leads(next, msgId, p, id, x)
      PROVE  Leads(next', msgId', p, id, x)
  BY <1>2, <1>5, <1>6, LeadsAdd
<1>d. receiver.data # new
  BY <1>i, <1>n DEF ReceiverInv, Added, GoodAnswers
<1>7. CASE receiver.pc = "read_start" /\ hash_start' # hash_start
  <2> DEFINE D == {new}
  <2>1. hash_start' = new /\ next' = next
    BY <1>1, <1>7
  <2>2. Sound(D, next') /\ Heads(D, next', new)
    BY <1>2, <1>n, <2>1 DEF Sound, Heads
  <2>3. D \subseteq allocated' /\ (Up' => \A n \in D : Awaits(call', n)) /\ receiver.data \notin D
    BY <1>1, <1>a, <1>d
  <2>4. LiveSet(D)'
    BY <1>7, <2>1, <2>2, <2>3 DEF LiveSet
  <2>5. QED
    BY <1>n, <2>4
<1>8. CASE ~ (receiver.pc = "read_start" /\ hash_start' # hash_start)
  <2> DEFINE D == C \cup {new}
  <2>1. D \subseteq allocated' /\ (Up' => \A n \in D : Awaits(call', n))
    BY <1>1, <1>a, <1>c
  <2>2. Heads(D, next', hash_start')
    BY <1>1, <1>4 DEF LiveSet
  <2>3. receiver.pc = "unlink" => Heads(D, next', receiver.queue)
    BY <1>4 DEF LiveSet
  <2>4. receiver.data \in D =>
          \/ /\ receiver.pc = "read_start"
             /\ Leads(next', msgId', hash_start', receiver.msg.message_id, receiver.data)
          \/ /\ receiver.pc = "unlink"
             /\ Leads(next', msgId', receiver.queue, receiver.msg.message_id, receiver.data)
    <3> SUFFICES ASSUME receiver.data \in D
                 PROVE  \/ /\ receiver.pc = "read_start"
                           /\ Leads(next', msgId', hash_start', receiver.msg.message_id, receiver.data)
                        \/ /\ receiver.pc = "unlink"
                           /\ Leads(next', msgId', receiver.queue, receiver.msg.message_id, receiver.data)
      OBVIOUS
    <3>1. receiver.data \in C /\ receiver.data \in Nodes
      BY <1>d
    <3>2. \/ /\ receiver.pc = "read_start"
             /\ Leads(next, msgId, hash_start, receiver.msg.message_id, receiver.data)
          \/ /\ receiver.pc = "unlink"
             /\ Leads(next, msgId, receiver.queue, receiver.msg.message_id, receiver.data)
      BY <3>1 DEF LiveSet
    <3>3. QED
      BY <1>6, <1>8, <3>1, <3>2
  <2>5. LiveSet(D)'
    <3> HIDE DEF D
    <3>1. Sound(D, next')
      BY <1>4 DEF D
    <3>2. QED
      BY <2>1, <2>2, <2>3, <2>4, <3>1 DEF LiveSet
  <2>6. D \in SUBSET Nodes
    BY <1>n
  <2>7. QED
    BY <2>5, <2>6
<1>9. QED
  BY <1>7, <1>8

(* addToHash without memory may lose the start of the list. *)
LEMMA LiveFails ==
    ASSUME ClientInv, EarlyInv, [Next]_vars, NEW C \in SUBSET Nodes, LiveSet(C),
           UNCHANGED <<next, msgId, allocated, receiver>>, hash_start' \in {hash_start, NULL}
    PROVE  \E D \in SUBSET Nodes : LiveSet(D)'
<1>1. CASE hash_start' = hash_start
  BY <1>1, LiveSame
<1>2. CASE hash_start' = NULL /\ receiver.pc = "unlink"
  <2>1. ~ Store
    BY <1>2 DEF Store
  <2>2. Up' => \A n \in C : Awaits(call', n)
    BY <2>1, AwaitStep, UpStep DEF LiveSet
  <2>3. LiveSet(C)'
    BY <1>2, <2>2 DEF LiveSet, Heads
  <2>4. QED
    BY <2>3
<1>3. CASE hash_start' = NULL /\ receiver.pc # "unlink"
  <2>1. LiveSet({})'
    BY <1>3 DEF LiveSet, Sound, Heads
  <2>2. QED
    BY <2>1
<1>4. QED
  BY <1>1, <1>2, <1>3

(* A node does not link to itself. *)
LEMMA NoSelfLink ==
    ASSUME Chained, NEW n \in Nodes
    PROVE  next[n] # n
<1>1. PICK rank \in Ranks : Falls(next, rank)
  BY DEF Chained
<1>2. n # NULL
  BY Capi2032Assumption DEF Nodes
<1>3. rank[n] \in Nat
  BY DEF Ranks
<1>4. next[n] = n => rank[n] < rank[n]
  BY <1>1, <1>2 DEF Falls
<1>5. QED
  BY <1>3, <1>4

(* removeFromHash takes one node out of the set, the one that was looked   *)
(* up if that is still there.                                              *)
LEMMA LiveUnlink ==
    ASSUME ClientInv, EarlyInv, [Next]_vars, NEW C \in SUBSET Nodes, LiveSet(C), Unlink
    PROVE  \E D \in SUBSET Nodes : LiveSet(D)'
<1>0. PICK start, id, data : /\ start = receiver.queue /\ id = receiver.msg.message_id
                             /\ data = receiver.data
  OBVIOUS
<1>i. /\ HashInv /\ ReceiverInv /\ Chained /\ next \in Links /\ NULL \notin Nodes
      /\ receiver.pc = "unlink"
  BY Capi2032Assumption DEF ClientInv, HashInv, Chained, Nodes, Unlink
<1>r. receiver'.pc = "store" /\ receiver'.data = data
  BY <1>0, <1>i DEF Unlink, ReceiverInv
<1>c. /\ C \subseteq allocated /\ Sound(C, next) /\ Heads(C, next, hash_start)
      /\ Heads(C, next, start)
      /\ data \in C => Leads(next, msgId, start, id, data)
  BY <1>0, <1>i DEF LiveSet
<1>a. Up' => \A n \in C : Awaits(call', n)
  <2>1. ~ Store
    BY <1>i DEF Store
  <2>2. QED
    BY <2>1, AwaitStep, UpStep DEF LiveSet
<1>d. data \in C => data \in Nodes /\ msgId[data] = id
  BY <1>0, <1>i DEF ReceiverInv
<1>e. start = NULL => Matches(start, id) = {}
  <2>1. ListFrom(NULL) = <<>>
    BY <1>i, ListFacts
  <2>2. Len(ListFrom(NULL)) = 0
    BY <2>1
  <2>3. QED
    BY <2>2 DEF Matches
<1>f. start = NULL => data \notin C
  BY <1>c, <1>i DEF Leads
<1>1. CASE Matches(start, id) = {} /\ UNCHANGED hashVars
  <2>1. data \notin C
    BY <1>1, <1>c, <1>d, <1>f, <1>i, LeadsFirst DEF Heads
  <2>2. LiveSet(C)'
    BY <1>1, <1>c, <1>a, <1>r, <2>1 DEF LiveSet, hashVars
  <2>3. QED
    BY <2>2
<1>2. ASSUME NEW i \in Matches(start, id), \A j \in Matches(start, id) : i <= j,
             allocated' = allocated \ {ListFrom(start)[i]}, msgId' = msgId,
             IF i > 1
             THEN /\ next' = [next EXCEPT ![ListFrom(start)[i - 1]] = next[ListFrom(start)[i]]]
                  /\ UNCHANGED hash_start
             ELSE hash_start' = next[ListFrom(start)[i]] /\ UNCHANGED next
      PROVE  \E D \in SUBSET Nodes : LiveSet(D)'
  <2>0. PICK list : list = ListFrom(start)
    OBVIOUS
  <2>1. start \in C
    BY <1>2, <1>c, <1>e DEF Heads
  <2>2. /\ Len(list) \in Nat /\ list[1] = start
        /\ \A j \in 1 .. Len(list) - 1 : list[j + 1] = next[list[j]]
    BY <1>i, <2>0, <2>1, ListShape
  <2>3. \A j \in 1 .. Len(list) : list[j] \in C
    <3>1. \A n \in C : next[n] = NULL \/ next[n] \in C
      BY <1>c DEF Sound
    <3>2. QED
      BY <1>i, <2>0, <2>1, <3>1, ListStays
  <2>4. i \in 1 .. Len(list)
    BY <2>0 DEF Matches
  <2>5. PICK x \in C : x = list[i]
    BY <2>3, <2>4
  <2>6. data \notin C \ {x}
    <3> SUFFICES ASSUME data \in C PROVE data = x
      OBVIOUS
    <3>1. PICK k \in Matches(start, id) :
            (\A j \in Matches(start, id) : k <= j) /\ ListFrom(start)[k] = data
      BY <1>c, <1>d, <1>i, <2>1, LeadsFirst
    <3>2. k <= i /\ i <= k /\ k \in Nat /\ i \in Nat
      BY <1>2, <3>1 DEF Matches
    <3>3. k = i
      BY <3>2
    <3>4. QED
      BY <2>0, <2>5, <3>1, <3>3
  <2>7. next[x] # x
    BY <1>i, NoSelfLink
  <2>8. C \ {x} \subseteq allocated' /\ (Up' => \A n \in C \ {x} : Awaits(call', n))
    BY <1>2, <1>a, <1>c, <2>0, <2>5
  <2>9. Sound(C \ {x}, next') /\ Heads(C \ {x}, next', hash_start')
    <3>1. CASE i > 1
      <4>1. i - 1 \in 1 .. Len(list) - 1 /\ i - 1 \in 1 .. Len(list) /\ (i - 1) + 1 = i
        BY <2>2, <2>4, <3>1
      <4>2. PICK a \in C : a = list[i - 1]
        BY <2>3, <4>1
      <4>3. list[(i - 1) + 1] = next[list[i - 1]]
        BY <2>2, <4>1
      <4>4. next[a] = x
        BY <2>5, <4>1, <4>2, <4>3
      <4>5. a # x
        BY <2>7, <4>4
      <4>6. next' = [next EXCEPT ![a] = next[x]] /\ hash_start' = hash_start
        BY <1>2, <2>0, <2>5, <3>1, <4>2
      <4>7. QED
        BY <1>c, <1>i, <2>7, <4>4, <4>5, <4>6, SoundUnlink
    <3>2. CASE ~ (i > 1)
      <4>1. i = 1
        BY <2>2, <2>4, <3>2
      <4>2. x = start
        BY <2>2, <2>5, <4>1
      <4>3. next' = next /\ hash_start' = next[x]
        BY <1>2, <2>0, <2>5, <3>2
      <4>4. QED
        BY <1>c, <1>i, <2>7, <4>2, <4>3, SoundBehead
    <3>3. QED
      BY <3>1, <3>2
  <2>10. LiveSet(C \ {x})'
    BY <1>r, <2>6, <2>8, <2>9 DEF LiveSet
  <2>11. QED
    BY <2>10
<1>3. QED
  BY <1>0, <1>1, <1>2 DEF Unlink, removeFromHash

(* Every step keeps such a set. *)
LEMMA ListInvStep ==
    ASSUME ClientInv, ListInv, [Next]_vars
    PROVE  ListInv'
<1>e. EarlyInv /\ EarlyInv'
  BY EarlyStep DEF ListInv
<1>i. HashInv /\ ReceiverInv /\ NULL \notin Nodes
  BY Capi2032Assumption DEF ClientInv, Nodes
<1>0. PICK C \in SUBSET Nodes : LiveSet(C)
  BY DEF ListInv
<1>n. NULL \notin C
  BY <1>i
<1>q. SUFFICES \E D \in SUBSET Nodes : LiveSet(D)'
  BY <1>e DEF ListInv
<1>1. CASE UNCHANGED <<next, msgId, allocated, hash_start, receiver>>
  BY <1>0, <1>1, <1>e, LiveSame
<1>2. ASSUME NEW t \in Threads, AddEntry(t) PROVE \E D \in SUBSET Nodes : LiveSet(D)'
  <2>1. UNCHANGED receiver /\ Moves(t, "add", "send")
    BY <1>2 DEF AddEntry
  <2>2. CASE addToHash_fails(t)
    BY <1>0, <1>e, <2>1, <2>2, LiveFails DEF addToHash_fails
  <2>3. CASE addToHash(t)
    <3>1. Enters(t)
      BY <1>2, <2>3, EntersExactly
    <3>2. QED
      BY <1>0, <1>e, <2>1, <3>1, LiveEnters
  <2>4. QED
    BY <1>2, <2>2, <2>3 DEF AddEntry
<1>a. ~ Store => (Up' => \A n \in C : Awaits(call', n))
  BY <1>0, <1>e, AwaitStep, UpStep DEF LiveSet
<1>3. CASE recv \/ recv_fails \/ DLL_PROCESS_ATTACH
  <2>1. UNCHANGED hashVars /\ ~ Store
    BY <1>3, <1>i DEF recv, recv_fails, DLL_PROCESS_ATTACH, Store, ClientInv, Unloaded
  <2>2. receiver'.pc # "unlink" /\ receiver'.data = NULL
    BY <1>3, <1>i DEF recv, recv_fails, DLL_PROCESS_ATTACH, ReceiverInv, ClientInv, Unloaded
  <2>3. LiveSet(C)'
    BY <1>0, <1>a, <1>n, <2>1, <2>2 DEF LiveSet, hashVars
  <2>4. QED
    BY <2>3
<1>4. CASE Lookup
  <2>0. PICK x : x = getDataPtrFromMsgId(receiver.msg.message_id)
    OBVIOUS
  <2>1. /\ UNCHANGED hashVars /\ ~ Store
        /\ receiver'.pc = "read_start" /\ receiver'.data = x /\ receiver'.msg = receiver.msg
    BY <1>4, <1>i, <2>0 DEF Lookup, Store, ReceiverInv
  <2>2. x # NULL => Leads(next, msgId, hash_start, receiver.msg.message_id, x)
    BY <1>i, <2>0, LookupLeads
  <2>3. LiveSet(C)'
    BY <1>0, <1>a, <1>n, <2>1, <2>2 DEF LiveSet, hashVars
  <2>4. QED
    BY <2>3
<1>5. CASE ReadStartToRemove
  <2>1. /\ UNCHANGED hashVars /\ ~ Store /\ receiver.pc = "read_start"
        /\ receiver'.pc = "unlink" /\ receiver'.queue = hash_start
        /\ receiver'.msg = receiver.msg /\ receiver'.data = receiver.data
    BY <1>5, <1>i DEF ReadStartToRemove, Store, ReceiverInv
  <2>2. LiveSet(C)'
    BY <1>0, <1>a, <2>1 DEF LiveSet, hashVars
  <2>3. QED
    BY <2>2
<1>6. CASE Unlink
  BY <1>0, <1>6, <1>e, LiveUnlink
<1>7. CASE Store
  <2>1. /\ UNCHANGED hashVars /\ receiver.pc = "store"
        /\ receiver'.pc = "recv" /\ receiver'.data = NULL
    BY <1>7, <1>i DEF Store, ReceiverInv
  <2>2. receiver.data \notin C
    BY <1>0, <2>1 DEF LiveSet
  <2>3. Up' => \A n \in C : Awaits(call', n)
    BY <1>0, <1>e, <2>2, AwaitStep, UpStep DEF LiveSet
  <2>4. LiveSet(C)'
    BY <1>0, <1>n, <2>1, <2>3 DEF LiveSet, hashVars
  <2>5. QED
    BY <2>4
<1>8. CASE MarkEntries
  <2>1. hash_start' = NULL /\ receiver' = receiver /\ receiver.pc \in {"recv", "quit"}
    BY <1>8 DEF MarkEntries
  <2>2. LiveSet({})'
    BY <2>1 DEF LiveSet, Sound, Heads
  <2>3. QED
    BY <2>2
<1>9. ASSUME NEW t \in Threads, Call(t) \/ CallerStep(t), ~ AddEntry(t)
      PROVE  UNCHANGED <<next, msgId, allocated, hash_start, receiver>>
  BY <1>9 DEF hashVars, Call, CallerStep, IncrementMsgId, ReadStart, sendRequest,
         sendRequest_fails, Returns, CAPI_REGISTER, CAPI_RELEASE, CAPI_GET_MESSAGE,
         GetMessage_fails,
         GetMessage_malformed, GetMessage_copies, GetMessage_keeps, Ends, PlainCallReturns,
         CAPI_PUT_MESSAGE, CAPI_WAIT_FOR_SIGNAL, CAPI_GET_MANUFACTURER,
         CAPI_GET_VERSION, CAPI_GET_SERIAL_NUMBER, CAPI_GET_PROFILE, CAPI_INSTALLED
<1>10. CASE \/ DLL_PROCESS_DETACH \/ FreeApps \/ ServerAnswers \/ ConnectionBreaks
            \/ UNCHANGED vars
  BY <1>10, <1>1 DEF DLL_PROCESS_DETACH, FreeApps, ServerAnswers, ConnectionBreaks, vars,
                     hashVars
<1>11. QED
  BY <1>1, <1>2, <1>3, <1>4, <1>5, <1>6, <1>7, <1>8, <1>9, <1>10 DEF Next, ReceiverStep

(* No step of any thread, however stale the start it read, leaves a freed  *)
(* node in the list that hash_start leads to, nor, while the connection    *)
(* is open, the node of a call that has returned: dispatchMessage never    *)
(* follows a dangling link, and MarkEntries never writes to the frame of a *)
(* call whose request was sent.                                            *)
THEOREM HashCorrect == Spec => []HashSound
<1>1. Init => ListInv
  <2>1. ASSUME Init PROVE LiveSet({})
    BY <2>1 DEF Init, LiveSet, Sound, Heads
  <2>2. ASSUME Init PROVE EarlyInv
    BY <2>2 DEF Init, EarlyInv, Up
  <2>3. QED
    BY <2>1, <2>2 DEF ListInv
<1>2. ClientInv /\ ListInv /\ [Next]_vars => ListInv'
  BY ListInvStep
<1>3. ASSUME ClientInv, ListInv PROVE HashSound
  <2>n. NULL \notin Nodes /\ Chained
    BY <1>3, Capi2032Assumption DEF Nodes, ClientInv, HashInv
  <2>1. PICK C \in SUBSET Nodes : LiveSet(C)
    BY <1>3 DEF ListInv
  <2>2. \A n \in C : next[n] = NULL \/ next[n] \in C
    BY <2>1 DEF LiveSet, Sound
  <2>3. InList(hash_start) \subseteq C
    <3>1. CASE hash_start = NULL
      <4>1. ListFrom(hash_start) = <<>>
        BY <2>n, <3>1, ListFacts
      <4>2. Len(ListFrom(hash_start)) = 0
        BY <4>1
      <4>3. QED
        BY <4>2 DEF InList
    <3>2. CASE hash_start \in C
      BY <2>n, <2>2, <3>2, ListStays DEF InList
    <3>3. QED
      BY <2>1, <3>1, <3>2 DEF LiveSet, Heads
  <2>4. ASSUME NEW n \in C, socke = "open" PROVE FrameLive(n)
    <3>1. Awaits(call, n)
      BY <2>1, <2>4 DEF LiveSet, Up
    <3>2. n # NULL
      BY <2>n
    <3>3. QED
      BY <3>1, <3>2 DEF Awaits, FrameLive
  <2>5. C \subseteq allocated
    BY <2>1 DEF LiveSet
  <2>6. QED
    BY <2>3, <2>4, <2>5 DEF HashSound
<1>4. QED
  BY <1>1, <1>2, <1>3, ClientCorrect, PTL DEF Spec
=============================================================================
