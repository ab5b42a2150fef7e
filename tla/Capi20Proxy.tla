----------------------------- MODULE Capi20Proxy ----------------------------
(***************************************************************************)
(* capi20proxy.o, the kernel module of the Linux client                    *)
(* (linux-client/module/capi20proxy.c).  Towards kernelcapi it is a driver *)
(* of virtual controllers; towards a daemon it is the device               *)
(* /dev/capiproxy, each open file being one controller.  What kernelcapi   *)
(* sends to a controller is queued until the daemon reads it.              *)
(*                                                                         *)
(* kernelcapi calls the driver from any number of threads while the daemon *)
(* is in a system call.  A call is cut where the code reads shared state   *)
(* that another actor may change before it is used: between the checks of  *)
(* send_message and its locked part, between the test, the dequeueing and  *)
(* the count of a read, and at every turn of flush_queue, which empties    *)
(* the queue without the lock and then sets the counter to 0.              *)
(***************************************************************************)
EXTENDS Integers, Sequences, FiniteSets

CONSTANTS
    CAPIPROXY_MAXCONTR, \* number of cards
    CAPI_MAXAPPL,       \* largest application number
    MAX_SK_PENDING,     \* limit of queued buffers
    Files,              \* opens of the device, each once
    Blocking,           \* those without O_NONBLOCK
    Threads,            \* threads in which kernelcapi calls the driver
    NoCard,             \* private_data of a file that is not open
    Payloads,           \* what the messages of kernelcapi may be
    Admin,              \* "remove", "reset": what the administrator does
    AllocFails,         \* whether alloc_skb may fail
    MaxCalls            \* bound: calls of kernelcapi

ASSUME Capi20ProxyAssumption ==
    /\ CAPIPROXY_MAXCONTR \in Nat \ {0} /\ CAPI_MAXAPPL \in Nat \ {0}
    /\ MAX_SK_PENDING \in Nat
    /\ Blocking \subseteq Files
    /\ IsFiniteSet(Files) /\ IsFiniteSet(Threads)
    /\ NoCard \notin Nat
    /\ Payloads \subseteq {"MESSAGE", "RUNT"}
    /\ Admin \subseteq {"remove", "reset"}
    /\ AllocFails \in BOOLEAN
    /\ MaxCalls \in Nat

Cards == 0 .. CAPIPROXY_MAXCONTR - 1
Appls == 1 .. CAPI_MAXAPPL

VARIABLES
    (* the cards *)
    status,         \* CARD_*
    applications,   \* APPL_* of each application
    queue,          \* outgoing_queue
    sk_pending,     \* its counter
    (* calls in progress *)
    call,           \* of kernelcapi's threads
    file,           \* of the processes that have the device open
    bh,             \* handle_send_msg is queued on tq_immediate
    loaded,         \* the module is in the kernel
    oops,           \* the kernel followed a NULL pointer
    (* kernelcapi *)
    kctr,           \* what it knows of each controller
    kappl,          \* applications it has registered with each controller
    ack,            \* the last callback about each of them
    calls           \* number of calls it has made

cardVars  == <<status, applications, queue, sk_pending>>
kcapiVars == <<kctr, kappl, ack>>
vars == <<cardVars, call, file, bh, loaded, oops, kcapiVars, calls>>

CardStates == {"FREE", "RUNNING", "REMOVING", "NOT_READY"}
ApplStates == {"FREE", "CONFIRMED", "WAITING", "REVOKED"}

(* A queued buffer: a control message of type TYPE_PROXY or a message of   *)
(* an application; a RUNT is shorter than the six bytes read() asks for.   *)
Msgs == [kind : {"REGISTER_APP", "RELEASE_APP", "SHUTDOWN", "MESSAGE", "RUNT"},
         appl : 0 .. CAPI_MAXAPPL]

None == [kind |-> "SHUTDOWN", appl |-> 0]

(* "check" and "put" are in send_message, "mark" after it; "test", "drop"  *)
(* and "zero" are in flush_queue, "flushed" after it.                      *)
CallPcs == {"idle", "check", "put", "mark", "test", "drop", "zero", "flushed"}

(* "init" is in open; "begin" to "count" in read; "test" to "flushed" in   *)
(* release.                                                                *)
FilePcs == {"closed", "init", "idle", "begin", "sleep", "asleep", "woken",
            "dequeue", "back", "short", "count", "test", "drop", "zero",
            "flushed", "gone"}

Idle == [pc |-> "idle", op |-> "send", card |-> 0, msg |-> None]

Closed == [pc |-> "closed", card |-> NoCard, msg |-> None]

TypeOK ==
    /\ status \in [Cards -> CardStates]
    /\ applications \in [Cards -> [Appls -> ApplStates]]
    /\ queue \in [Cards -> Seq(Msgs)]
    /\ sk_pending \in [Cards -> Int]
    /\ call \in [Threads -> [pc : CallPcs,
                             op : {"send", "register", "release", "remove", "reset"},
                             card : Cards, msg : Msgs]]
    /\ file \in [Files -> [pc : FilePcs, card : Cards \cup {NoCard}, msg : Msgs]]
    /\ \A f \in Files : (file[f].card = NoCard) <=> (file[f].pc \in {"closed", "gone"})
    /\ bh \in BOOLEAN /\ loaded \in BOOLEAN /\ oops \in BOOLEAN
    /\ kctr \in [Cards -> {"none", "attached", "ready", "suspended"}]
    /\ kappl \in [Cards -> SUBSET Appls]
    /\ ack \in [Cards -> [Appls -> {"none", "registered", "released"}]]
    /\ calls \in Nat

-----------------------------------------------------------------------------
(* capiproxy_init and capiproxy_init_cards. *)
Init ==
    /\ status = [k \in Cards |-> "FREE"]
    /\ applications = [k \in Cards |-> [a \in Appls |-> "FREE"]]
    /\ queue = [k \in Cards |-> <<>>]
    /\ sk_pending = [k \in Cards |-> 0]
    /\ call = [t \in Threads |-> Idle]
    /\ file = [f \in Files |-> Closed]
    /\ bh = FALSE /\ loaded = TRUE /\ oops = FALSE
    /\ kctr = [k \in Cards |-> "none"]
    /\ kappl = [k \in Cards |-> {}]
    /\ ack = [k \in Cards |-> [a \in Appls |-> "none"]]
    /\ calls = 0

-----------------------------------------------------------------------------
(* The callbacks of struct capi_ctr. *)

appl_released(k, a) == ack' = [ack EXCEPT ![k][a] = "released"]

appl_registered(k, a) == ack' = [ack EXCEPT ![k][a] = "registered"]

(* kernelcapi sends a controller no further messages. *)
suspend_output(k) ==
    kctr' = [kctr EXCEPT ![k] = IF @ = "ready" THEN "suspended" ELSE @]

(* kernelcapi's calls: an application is registered with a controller and  *)
(* released from it by one thread at a time; its messages come from any.   *)
Begin(t, pc, op, k, msg) ==
    /\ loaded
    /\ call[t].pc = "idle"
    /\ calls < MaxCalls /\ calls' = calls + 1
    /\ call' = [call EXCEPT ![t] = IF pc = "idle" THEN Idle ELSE
                   [pc |-> pc, op |-> op, card |-> k, msg |-> msg]]

Serial(k, a) ==
    \A t \in Threads : ~ /\ call[t].pc # "idle"
                         /\ call[t].op \in {"register", "release"}
                         /\ call[t].card = k /\ call[t].msg.appl = a

(* alloc_skb for a control message; if it fails nothing is sent. *)
Allocated == {TRUE} \cup (IF AllocFails THEN {FALSE} ELSE {})

-----------------------------------------------------------------------------
(* Driver operations that kernelcapi calls. *)

(* A register on a free card is answered at once, one for a number that is *)
(* not free not at all.                                                    *)
capiproxy_register_appl(t, k, a) ==
    /\ kctr[k] \in {"ready", "suspended"}
    /\ a \notin kappl[k] /\ Serial(k, a)
    /\ \E ok \in Allocated :
          LET msg  == [kind |-> "REGISTER_APP", appl |-> a]
              done == status[k] = "FREE" \/ applications[k][a] # "FREE"
          IN  Begin(t, IF done THEN "idle" ELSE IF ok THEN "check" ELSE "mark",
                    "register", k, msg)
    /\ kappl' = [kappl EXCEPT ![k] = @ \cup {a}]
    /\ ack' = [ack EXCEPT ![k][a] = IF status[k] = "FREE" THEN "released" ELSE "none"]
    /\ UNCHANGED <<cardVars, file, bh, loaded, oops, kctr>>

(* A release of a number that is free only calls back. *)
capiproxy_release_appl(t, k, a) ==
    /\ kctr[k] \in {"ready", "suspended"}
    /\ a \in kappl[k] /\ Serial(k, a)
    /\ kappl' = [kappl EXCEPT ![k] = @ \ {a}]
    /\ IF applications[k][a] = "FREE"
       THEN /\ appl_released(k, a)
            /\ Begin(t, "idle", "release", k, None)
       ELSE /\ \E ok \in Allocated :
                  Begin(t, IF ok THEN "check" ELSE "mark", "release", k,
                        [kind |-> "RELEASE_APP", appl |-> a])
            /\ UNCHANGED ack
    /\ UNCHANGED <<cardVars, file, bh, loaded, oops, kctr>>

(* A message of an application, whatever the state of the application. *)
capiproxy_send_message(t, k, a) ==
    /\ kctr[k] = "ready"
    /\ a \in kappl[k]
    /\ \E kind \in Payloads :
          Begin(t, "check", "send", k, [kind |-> kind, appl |-> a])
    /\ UNCHANGED <<cardVars, file, bh, loaded, oops, kcapiVars>>

(* Without memory for the SHUTDOWN message nothing happens. *)
capiproxy_remove_ctr(t, k) ==
    /\ "remove" \in Admin
    /\ kctr[k] # "none"
    /\ \E ok \in Allocated :
          /\ Begin(t, IF ok THEN "test" ELSE "idle", "remove", k, None)
          /\ IF ok THEN suspend_output(k) ELSE UNCHANGED kctr
    /\ UNCHANGED <<cardVars, file, bh, loaded, oops, kappl, ack>>

capiproxy_reset_ctr(t, k) ==
    /\ "reset" \in Admin
    /\ kctr[k] # "none"
    /\ Begin(t, "test", "reset", k, None)
    /\ UNCHANGED <<cardVars, file, bh, loaded, oops, kcapiVars>>

-----------------------------------------------------------------------------
(* The steps of a call in progress. *)

Goto(t, pc) ==
    call' = [call EXCEPT ![t] = IF pc = "idle" THEN Idle ELSE [@ EXCEPT !.pc = pc]]

(* Where send_message returns to. *)
AfterSend(t) == IF call[t].op \in {"register", "release"} THEN "mark" ELSE "idle"

(* Mutant: the counter is not looked at. *)
Dropped_Unlimited(k) == status[k] = "FREE"

(* The two reasons to drop a message, looked at without the lock. *)
Dropped(k) == status[k] = "FREE" \/ sk_pending[k] > MAX_SK_PENDING

SendCheck(t) ==
    /\ call[t].pc = "check"
    /\ Goto(t, IF Dropped(call[t].card) THEN AfterSend(t) ELSE "put")
    /\ UNCHANGED <<cardVars, file, bh, loaded, oops, kcapiVars, calls>>

(* Under ctrl_lock; then the bottom half is scheduled. *)
SendPut(t) ==
    LET k == call[t].card IN
    /\ call[t].pc = "put"
    /\ queue' = [queue EXCEPT ![k] = Append(@, call[t].msg)]
    /\ sk_pending' = [sk_pending EXCEPT ![k] = @ + 1]
    /\ bh' = TRUE
    /\ Goto(t, AfterSend(t))
    /\ UNCHANGED <<status, applications, file, loaded, oops, kcapiVars, calls>>

(* register_appl and release_appl change the state of the application only *)
(* now, whatever has become of it since the message was queued.            *)
Mark(t) ==
    LET k == call[t].card
        a == call[t].msg.appl
    IN  /\ call[t].pc = "mark"
        /\ \/ /\ call[t].op = "register"
              /\ applications' = [applications EXCEPT ![k][a] = "WAITING"]
              /\ UNCHANGED ack
           \/ /\ call[t].op = "release"
              /\ applications' = [applications EXCEPT ![k][a] = "FREE"]
              /\ appl_released(k, a)
        /\ Goto(t, "idle")
        /\ UNCHANGED <<status, queue, sk_pending, file, bh, loaded, oops, kctr,
                       kappl, calls>>

(* capiproxy_flush_queue: while(qlen) skb_dequeue, without a lock, then the *)
(* counter.  If a reader takes the last buffer between the test and         *)
(* skb_dequeue, kfree_skb gets NULL.                                        *)
FlushTestPc(k) == IF queue[k] = <<>> THEN "zero" ELSE "drop"

FlushDrop(k) ==
    /\ queue' = [queue EXCEPT ![k] = IF @ = <<>> THEN @ ELSE Tail(@)]
    /\ oops' = (queue[k] = <<>>)
    /\ UNCHANGED sk_pending

FlushZero(k) ==
    /\ sk_pending' = [sk_pending EXCEPT ![k] = 0]
    /\ UNCHANGED <<queue, oops>>

CallFlush(t) ==
    LET k == call[t].card IN
    /\ \/ /\ call[t].pc = "test"
          /\ Goto(t, FlushTestPc(k))
          /\ UNCHANGED <<queue, sk_pending, oops>>
       \/ call[t].pc = "drop" /\ FlushDrop(k) /\ Goto(t, "test")
       \/ call[t].pc = "zero" /\ FlushZero(k) /\ Goto(t, "flushed")
    /\ UNCHANGED <<status, applications, file, bh, loaded, kcapiVars, calls>>

(* The rest of remove_ctr, which goes on to send SHUTDOWN, and of reset_ctr. *)
RemoveFlushed(t) ==
    /\ call[t].pc = "flushed" /\ call[t].op = "remove"
    /\ status' = [status EXCEPT ![call[t].card] = "REMOVING"]
    /\ Goto(t, "check")
    /\ UNCHANGED <<applications, queue, sk_pending, file, bh, loaded, oops,
                   kcapiVars, calls>>

ResetFlushed(t) ==
    /\ call[t].pc = "flushed" /\ call[t].op = "reset"
    /\ kctr' = [kctr EXCEPT ![call[t].card] = IF @ = "none" THEN @ ELSE "attached"]
    /\ Goto(t, "idle")
    /\ UNCHANGED <<cardVars, file, bh, loaded, oops, kappl, ack, calls>>

CallStep(t) ==
    \/ SendCheck(t) \/ SendPut(t) \/ Mark(t)
    \/ CallFlush(t) \/ RemoveFlushed(t) \/ ResetFlushed(t)

-----------------------------------------------------------------------------
(* The device. *)

Step(f, pc) == file' = [file EXCEPT ![f].pc = pc]

FreeCards == {k \in Cards : status[k] = "FREE"}

capiproxy_find_free_id(k) == k \in FreeCards /\ \A j \in FreeCards : k <= j

(* The kernel opens devices one at a time; calls of kernelcapi that were   *)
(* in progress when the card was last closed may still go on.              *)
capiproxy_open(f) ==
    /\ file[f].pc = "closed" /\ loaded
    /\ \A g \in Files : file[g].pc # "init"
    /\ \/ /\ FreeCards = {}
          /\ Step(f, "gone")
          /\ UNCHANGED cardVars
       \/ /\ FreeCards # {}
          /\ \E k \in Cards :
                /\ capiproxy_find_free_id(k)
                /\ applications' = [applications EXCEPT ![k] = [a \in Appls |-> "FREE"]]
                /\ queue' = [queue EXCEPT ![k] = <<>>]
                /\ sk_pending' = [sk_pending EXCEPT ![k] = 0]
                /\ status' = [status EXCEPT ![k] = "NOT_READY"]
                /\ file' = [file EXCEPT ![f] = [pc |-> "init", card |-> k, msg |-> None]]
    /\ UNCHANGED <<call, bh, loaded, oops, kcapiVars, calls>>

(* skb_queue_head_init and attach_ctr. *)
OpenAttach(f) ==
    LET k == file[f].card IN
    /\ file[f].pc = "init"
    /\ queue' = [queue EXCEPT ![k] = <<>>]
    /\ kctr' = [kctr EXCEPT ![k] = "attached"]
    /\ kappl' = [kappl EXCEPT ![k] = {}]
    /\ ack' = [ack EXCEPT ![k] = [a \in Appls |-> "none"]]
    /\ Step(f, "idle")
    /\ UNCHANGED <<status, applications, sk_pending, call, bh, loaded, oops, calls>>

(* capiproxy_ioctl: the three commands of the daemon.  None of them looks  *)
(* at the state the card or the application is in.                         *)
IOCTL_SET_DATA(f) ==
    LET k == file[f].card IN
    /\ file[f].pc = "idle"
    /\ kctr' = [kctr EXCEPT ![k] = "ready"]
    /\ status' = [status EXCEPT ![k] = "RUNNING"]
    /\ UNCHANGED <<applications, queue, sk_pending, call, file, bh, loaded, oops,
                   kappl, ack, calls>>

IOCTL_ERROR_REGFAIL(f, a) ==
    LET k == file[f].card IN
    /\ file[f].pc = "idle"
    /\ applications' = [applications EXCEPT ![k][a] = "REVOKED"]
    /\ appl_released(k, a)
    /\ UNCHANGED <<status, queue, sk_pending, call, file, bh, loaded, oops, kctr,
                   kappl, calls>>

IOCTL_APPL_REGISTERED(f, a) ==
    LET k == file[f].card IN
    /\ file[f].pc = "idle"
    /\ applications' = [applications EXCEPT ![k][a] = "CONFIRMED"]
    /\ appl_registered(k, a)
    /\ UNCHANGED <<status, queue, sk_pending, call, file, bh, loaded, oops, kctr,
                   kappl, calls>>

(* Mutant: O_NONBLOCK is not looked at. *)
capiproxy_read_Blocks(f) ==
    /\ file[f].pc \in {"idle", "begin"}
    /\ Step(f, IF sk_pending[file[f].card] # 0 THEN "dequeue" ELSE "sleep")
    /\ UNCHANGED <<cardVars, call, bh, loaded, oops, kcapiVars, calls>>

(* read(): test the counter, take a buffer, count it.  A nonblocking file  *)
(* gets -EAGAIN and is idle again; a short buffer makes it start over.     *)
capiproxy_read(f) ==
    LET k == file[f].card IN
    /\ file[f].pc \in {"idle", "begin"}
    /\ Step(f, IF sk_pending[k] # 0 THEN "dequeue"
               ELSE IF f \in Blocking THEN "sleep" ELSE "idle")
    /\ UNCHANGED <<cardVars, call, bh, loaded, oops, kcapiVars, calls>>

(* interruptible_sleep_on, without another look at the counter. *)
ReadSleep(f) ==
    /\ file[f].pc = "sleep"
    /\ Step(f, "asleep")
    /\ UNCHANGED <<cardVars, call, bh, loaded, oops, kcapiVars, calls>>

ReadWoken(f) ==
    /\ file[f].pc = "woken"
    /\ Step(f, IF sk_pending[file[f].card] # 0 THEN "dequeue" ELSE "asleep")
    /\ UNCHANGED <<cardVars, call, bh, loaded, oops, kcapiVars, calls>>

ReadSignal(f) ==
    /\ file[f].pc = "asleep"
    /\ Step(f, IF sk_pending[file[f].card] # 0 THEN "dequeue" ELSE "idle")
    /\ UNCHANGED <<cardVars, call, bh, loaded, oops, kcapiVars, calls>>

(* skb_dequeue returns NULL if the queue is empty, and skb->len is read.   *)
(* "back" if the caller's buffer is too small or cannot be written.        *)
ReadDequeue(f, outcomes) ==
    LET k == file[f].card IN
    /\ file[f].pc = "dequeue"
    /\ \/ /\ queue[k] = <<>>
          /\ oops' = TRUE
          /\ UNCHANGED <<queue, file>>
       \/ /\ queue[k] # <<>>
          /\ queue' = [queue EXCEPT ![k] = Tail(@)]
          /\ \E pc \in IF Head(queue[k]).kind = "RUNT" THEN {"short"} ELSE outcomes :
                file' = [file EXCEPT ![f].pc = pc, ![f].msg = Head(queue[k])]
          /\ UNCHANGED oops
    /\ UNCHANGED <<status, applications, sk_pending, call, bh, loaded, kcapiVars,
                   calls>>

ReadBack(f) ==
    LET k == file[f].card IN
    /\ file[f].pc = "back"
    /\ queue' = [queue EXCEPT ![k] = <<file[f].msg>> \o @]
    /\ file' = [file EXCEPT ![f].pc = "idle", ![f].msg = None]
    /\ UNCHANGED <<status, applications, sk_pending, call, bh, loaded, oops,
                   kcapiVars, calls>>

(* Mutant: only a buffer that was delivered is counted. *)
ReadCount_Delivered(f) ==
    LET k == file[f].card IN
    /\ file[f].pc \in {"short", "count"}
    /\ sk_pending' = [sk_pending EXCEPT ![k] = IF file[f].pc = "count" THEN @ - 1 ELSE @]
    /\ file' = [file EXCEPT ![f].pc = IF @ = "short" THEN "begin" ELSE "idle",
                            ![f].msg = None]
    /\ UNCHANGED <<status, applications, queue, call, bh, loaded, oops, kcapiVars,
                   calls>>

ReadCount(f) ==
    LET k == file[f].card IN
    /\ file[f].pc \in {"short", "count"}
    /\ sk_pending' = [sk_pending EXCEPT ![k] = @ - 1]
    /\ file' = [file EXCEPT ![f].pc = IF @ = "short" THEN "begin" ELSE "idle",
                            ![f].msg = None]
    /\ UNCHANGED <<status, applications, queue, call, bh, loaded, oops, kcapiVars,
                   calls>>

(* A message of the daemon goes to kernelcapi if the card is running and   *)
(* there is memory for it, whatever the state of the application; the      *)
(* module keeps nothing of it.                                             *)
capiproxy_write(f) == file[f].pc = "idle" /\ status[file[f].card] = "RUNNING"

(* Mutant: the card is given up before its queue is flushed. *)
capiproxy_release_Early(f) ==
    /\ file[f].pc = "idle"
    /\ suspend_output(file[f].card)
    /\ status' = [status EXCEPT ![file[f].card] = "FREE"]
    /\ Step(f, "test")
    /\ UNCHANGED <<applications, queue, sk_pending, call, bh, loaded, oops, kappl,
                   ack, calls>>

capiproxy_release(f) ==
    /\ file[f].pc = "idle"
    /\ suspend_output(file[f].card)
    /\ Step(f, "test")
    /\ UNCHANGED <<cardVars, call, bh, loaded, oops, kappl, ack, calls>>

ReleaseFlush(f) ==
    LET k == file[f].card IN
    /\ \/ /\ file[f].pc = "test"
          /\ Step(f, FlushTestPc(k))
          /\ UNCHANGED <<queue, sk_pending, oops>>
       \/ file[f].pc = "drop" /\ FlushDrop(k) /\ Step(f, "test")
       \/ file[f].pc = "zero" /\ FlushZero(k) /\ Step(f, "flushed")
    /\ UNCHANGED <<status, applications, call, bh, loaded, kcapiVars, calls>>

(* Mutant: the file keeps its card. *)
ReleaseDetach_Kept(f) ==
    LET k == file[f].card IN
    /\ file[f].pc = "flushed"
    /\ kctr' = [kctr EXCEPT ![k] = "none"]
    /\ kappl' = [kappl EXCEPT ![k] = {}]
    /\ status' = [status EXCEPT ![k] = "FREE"]
    /\ Step(f, "gone")
    /\ UNCHANGED <<applications, queue, sk_pending, call, bh, loaded, oops, ack, calls>>

(* detach_ctr; the applications are not unregistered. *)
ReleaseDetach(f) ==
    LET k == file[f].card IN
    /\ file[f].pc = "flushed"
    /\ kctr' = [kctr EXCEPT ![k] = "none"]
    /\ kappl' = [kappl EXCEPT ![k] = {}]
    /\ status' = [status EXCEPT ![k] = "FREE"]
    /\ file' = [file EXCEPT ![f] = [Closed EXCEPT !.pc = "gone"]]
    /\ UNCHANGED <<applications, queue, sk_pending, call, bh, loaded, oops, ack, calls>>

(* The rest of a system call that has begun. *)
FileStep(f) ==
    \/ OpenAttach(f)
    \/ file[f].pc = "begin" /\ capiproxy_read(f)
    \/ ReadSleep(f) \/ ReadWoken(f)
    \/ ReadDequeue(f, {"back", "count"}) \/ ReadBack(f) \/ ReadCount(f)
    \/ ReleaseFlush(f) \/ ReleaseDetach(f)

-----------------------------------------------------------------------------
(* The bottom half: wakes the readers of the cards with pending buffers. *)
handle_send_msg ==
    /\ bh
    /\ bh' = FALSE
    /\ file' = [f \in Files |->
          IF /\ file[f].pc = "asleep"
             /\ status[file[f].card] # "FREE" /\ sk_pending[file[f].card] # 0
          THEN [file[f] EXCEPT !.pc = "woken"] ELSE file[f]]
    /\ UNCHANGED <<cardVars, call, loaded, oops, kcapiVars, calls>>

(* The file operations name their owner, so the module is not unloaded     *)
(* while a file is open and capiproxy_exit finds no controller to remove;  *)
(* calls or a bottom half that are still running lose their code.          *)
capiproxy_exit ==
    /\ loaded
    /\ \A f \in Files : file[f].pc \in {"closed", "gone"}
    /\ loaded' = FALSE
    /\ oops' = (bh \/ \E t \in Threads : call[t].pc # "idle")
    /\ UNCHANGED <<cardVars, call, file, bh, kcapiVars, calls>>

KcapiCalls(t) ==
    \E k \in Cards :
        \/ \E a \in Appls : \/ capiproxy_register_appl(t, k, a)
                            \/ capiproxy_release_appl(t, k, a)
                            \/ capiproxy_send_message(t, k, a)
        \/ capiproxy_remove_ctr(t, k)
        \/ capiproxy_reset_ctr(t, k)

(* What a process may do with the device: anything, at any time. *)
FileCalls(f) ==
    \/ capiproxy_open(f) \/ capiproxy_release(f)
    \/ IOCTL_SET_DATA(f)
    \/ \E a \in Appls : IOCTL_ERROR_REGFAIL(f, a) \/ IOCTL_APPL_REGISTERED(f, a)
    \/ file[f].pc = "idle" /\ capiproxy_read(f)
    \/ ReadSignal(f)

Next ==
    /\ ~ oops
    /\ \/ \E t \in Threads : KcapiCalls(t) \/ CallStep(t)
       \/ \E f \in Files : FileCalls(f) \/ FileStep(f)
       \/ handle_send_msg
       \/ capiproxy_exit

Spec == Init /\ [][Next]_vars

-----------------------------------------------------------------------------
(* Properties. *)

(* Two open files never share a card, and the card of an open file is never *)
(* marked free, whatever remove_ctr does to its status at the same time:    *)
(* open() cannot hand out a controller that a daemon uses.                  *)
CardsOwned ==
    /\ \A f, g \in Files : file[f].card = file[g].card /\ file[f].card # NoCard => f = g
    /\ \A f \in Files : file[f].card # NoCard => status[file[f].card] # "FREE"

(* Buffers of a card that the counter does not count: those in the queue   *)
(* and the one a reader holds, less sk_pending.                            *)
Held(k) == Cardinality({f \in Files : /\ file[f].card = k
                                      /\ file[f].pc \in {"back", "short", "count"}})

Skew(k) == Len(queue[k]) + Held(k) - sk_pending[k]

Flushing(k) ==
    \/ \E t \in Threads : call[t].card = k /\ call[t].pc \in {"drop", "zero"}
    \/ \E f \in Files : file[f].card = k /\ file[f].pc \in {"init", "drop", "zero"}

(* sk_pending moves in step with the queue through every interleaving of   *)
(* senders and readers, buffers that are put back or dropped as too short  *)
(* included: only a flush or open() can put the two apart.                 *)
CounterKept ==
    [][\A k \in Cards : Skew(k)' # Skew(k) =>
          Flushing(k) \/ \E f \in Files : file[f].card # k /\ file'[f].card = k]_vars

(* The limit is looked at without the lock and lets one buffer too many    *)
(* in: the counter passes MAX_SK_PENDING by one for every thread that can  *)
(* be between the check and the lock, and never by more.                   *)
PendingBounded ==
    \A k \in Cards : sk_pending[k] <= MAX_SK_PENDING + Cardinality(Threads)
=============================================================================
