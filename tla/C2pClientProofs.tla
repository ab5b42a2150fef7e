-------------------------- MODULE C2pClientProofs ---------------------------
(***************************************************************************)
(* Theorems about the Linux client, the daemon together with the kernel    *)
(* module and a server, for any number of applications, messages, threads  *)
(* of kernelcapi and cards.                                                *)
(***************************************************************************)
EXTENDS C2pClient, Capi20ProxyProofs, SequenceTheorems, FunctionTheorems

Daemons == [pc : DaemonPcs, job : Jobs, appl : Ids]

(* What the server sends: packets with the lengths they have. *)
Arriving == {p \in Packets : p.whole}

(* The parts of DaemonTypeOK. *)
DaemonTypes ==
    /\ daemon \in Daemons
    /\ recvbuffer \in Packets
    /\ applmap_rtl \in [Ids -> Ids] /\ applmap_ltr \in [Ids -> Ids]
    /\ c2p_shutdown \in BOOLEAN

LinkTypes ==
    /\ link \in {"up", "eof", "reset", "dead"}
    /\ toServer \in Seq(Requests) /\ toClient \in Seq(Arriving)

ServerTypes ==
    /\ regs \subseteq Remotes
    /\ waits \in [Ids -> Nat]
    /\ inbox \in [Ids -> Seq(Nat)] /\ sent \in Nat
    /\ home \in [Appls -> Ids] /\ misled \subseteq Ids

HistoryTypes ==
    /\ polls \in [Ids -> Nat] /\ last \in [Ids -> Nat]
    /\ again \in BOOLEAN /\ swallowed \in BOOLEAN

(* Where the daemon's system call on the device is while the daemon is     *)
(* where it is: the two conditions of DaemonTypeOK, and that the device is *)
(* open and idle while a request made on its behalf is waited for.         *)
Positions ==
    /\ daemon.pc \in {"loop", "read", "registered", "regfail"} => file[node].pc = "idle"
    /\ daemon.pc = "reading" => file[node].pc \in {"dequeue", "count"}
    /\ daemon.pc \in {"wait", "done"} => daemon.job \in StartJobs \/ file[node].pc = "idle"

(* What the daemon registers and reports are local applications. *)
Local ==
    /\ daemon.pc \in {"registered", "regfail"} => daemon.job = "REGISTER"
    /\ daemon.job = "REGISTER" => daemon.appl \in Appls
    /\ daemon.pc = "start" => daemon.job = "HELO"

(* What kernelcapi queues for this daemon: no buffer too short to read, and *)
(* registrations of applications only.                                      *)
Sound == {m \in Msgs : m.kind # "RUNT" /\ (m.kind = "REGISTER_APP" => m.appl \in Appls)}

MsgsSound ==
    /\ queue \in [Cards -> Seq(Sound)]
    /\ \A t \in Threads : call[t].msg \in Sound
    /\ file[node].msg \in Sound

ClientTypes == DaemonTypes /\ LinkTypes /\ ServerTypes /\ HistoryTypes

BaseInv == TypeOK /\ ClientTypes /\ Positions /\ Local /\ MsgsSound

(* BaseInv is stronger than DaemonTypeOK. *)
LEMMA BaseImplies == BaseInv => DaemonTypeOK
<1> SUFFICES ASSUME BaseInv PROVE DaemonTypeOK
  OBVIOUS
<1>1. toClient \in Seq(Packets)
  <2>1. toClient \in Seq(Arriving) /\ Arriving \subseteq Packets
    BY DEF BaseInv, ClientTypes, LinkTypes, Arriving
  <2>2. QED
    BY <2>1
<1>2. QED
  BY <1>1 DEF BaseInv, ClientTypes, DaemonTypes, LinkTypes, ServerTypes, HistoryTypes, Positions,
              DaemonTypeOK, Daemons

(* The numbers of applications, the opens of the device and the empty      *)
(* sequences.                                                              *)
LEMMA Basics ==
    /\ 0 \in Ids /\ Appls \subseteq Ids /\ Remotes \subseteq Ids /\ Remotes \subseteq Appls
    /\ Files = {node} /\ node \in Files
    /\ <<>> \in Seq(Requests) /\ <<>> \in Seq(Arriving) /\ <<>> \in Seq(Nat) /\ <<>> \in Seq(Sound)
    /\ MaxIn \in Nat
    /\ Sound \subseteq Msgs
    /\ None \in Sound
<1>1. 0 \in Ids /\ Appls \subseteq Ids
  BY Capi20ProxyAssumption DEF Ids, Appls
<1>2. None \in Sound
  BY ConstantTypes DEF Sound, None
<1>3. QED
  BY <1>1, <1>2, C2pClientAssumption DEF Sound

(* A packet that the server makes is one. *)
LEMMA PacketType ==
    ASSUME NEW type \in Types \cup {"OTHER"}, NEW appl \in Ids, NEW ok \in BOOLEAN, NEW msg \in Nat
    PROVE  Packet(type, appl, ok, msg) \in Arriving /\ Packet(type, appl, ok, msg) \in Packets
BY DEF Packet, Packets, Arriving

-----------------------------------------------------------------------------
(* The initial state. *)
LEMMA InitBase == ClientInit => BaseInv
<1> SUFFICES ASSUME ClientInit PROVE BaseInv
  OBVIOUS
<1>1. TypeOK
  BY InitType DEF ClientInit
<1>2. DaemonTypes
  <2>1. "OTHER" \in Types \cup {"OTHER"} /\ TRUE \in BOOLEAN /\ 0 \in Nat
    OBVIOUS
  <2>2. Packet("OTHER", 0, TRUE, 0) \in Packets
    BY <2>1, Basics, PacketType
  <2>3. daemon \in Daemons
    BY Basics DEF ClientInit, Daemons, DaemonPcs, Jobs, StartJobs
  <2>4. QED
    BY <2>2, <2>3, Basics DEF ClientInit, DaemonTypes
<1>3. LinkTypes /\ ServerTypes /\ HistoryTypes
  BY Basics DEF ClientInit, LinkTypes, ServerTypes, HistoryTypes
<1>4. Positions /\ Local
  BY DEF ClientInit, Positions, Local, StartJobs
<1>5. MsgsSound
  <2>1. Idle.msg = None /\ Closed.msg = None
    BY DEF Idle, Closed
  <2>2. QED
    BY <2>1, Basics DEF ClientInit, Init, MsgsSound
<1>6. QED
  BY <1>1, <1>2, <1>3, <1>4, <1>5 DEF BaseInv, ClientTypes

-----------------------------------------------------------------------------
(* The kernel module in this system takes only steps that it takes by      *)
(* itself: the daemon uses the device the way a process may.               *)
LEMMA KernelStep ==
    ASSUME BaseInv, [ClientNext]_allVars
    PROVE  [Next]_vars
<1> USE Basics DEF BaseInv
<1>1. CASE UNCHANGED allVars
  BY <1>1 DEF allVars
<1>2. CASE ~ oops /\ ModuleStep
  BY <1>2 DEF ModuleStep, Next
<1>3. CASE ~ oops /\ OpenNode
  BY <1>3 DEF OpenNode, Next, FileCalls, FileStep
<1>4. CASE ~ oops /\ ReadNode
  <2>1. ASSUME Polled, capiproxy_read(node) PROVE Next
    BY <1>4, <2>1 DEF Polled, Positions, Next, FileCalls
  <2>2. ASSUME ReadDequeue(node, {"count"}) PROVE Next
    <3>1. ReadDequeue(node, {"back", "count"})
      BY <2>2 DEF ReadDequeue
    <3>2. QED
      BY <1>4, <3>1 DEF Next, FileStep
  <2>3. ASSUME ReadCount(node) PROVE Next
    BY <1>4, <2>3 DEF Next, FileStep
  <2>4. QED
    BY <1>4, <2>1, <2>2, <2>3 DEF ReadNode
<1>5. CASE ~ oops /\ Report
  <2>1. daemon.appl \in Appls
    BY <1>5 DEF Report, Local
  <2>2. IOCTL_APPL_REGISTERED(node, daemon.appl) \/ IOCTL_ERROR_REGFAIL(node, daemon.appl)
    BY <1>5 DEF Report
  <2>3. QED
    BY <1>5, <2>1, <2>2 DEF Next, FileCalls
<1>6. CASE ~ oops /\ Shutdown
  <2>1. \/ UNCHANGED vars
        \/ capiproxy_release(node) \/ ReleaseFlush(node) \/ ReleaseDetach(node)
    BY <1>6 DEF Shutdown
  <2>2. QED
    BY <1>6, <2>1 DEF Next, FileCalls, FileStep
<1>7. CASE \/ init_module \/ wait_for_answer \/ local_register_appl \/ PollSocket
           \/ sighandler \/ ServerStep \/ ServerCloses \/ \E r \in Remotes : MessageArrives(r)
  BY <1>7 DEF init_module, wait_for_answer, local_register_appl, PollSocket, sighandler,
              ServerStep, ServerAnswers, ServerWakes, ServerCloses, MessageArrives
<1>8. QED
  BY <1>1, <1>2, <1>3, <1>4, <1>5, <1>6, <1>7 DEF ClientNext, DaemonStep

(* What kernelcapi asks for is sound. *)
LEMMA KcapiSound ==
    ASSUME TypeOK, MsgsSound, NEW t \in Threads, KcapiCalls(t)
    PROVE  MsgsSound'
<1>0. \A a \in Appls :
        /\ [kind |-> "REGISTER_APP", appl |-> a] \in Sound
        /\ [kind |-> "RELEASE_APP", appl |-> a] \in Sound
        /\ \A kind \in Payloads : [kind |-> kind, appl |-> a] \in Sound
  <2>1. Payloads \subseteq {"MESSAGE"}
    BY C2pClientAssumption
  <2>2. QED
    BY <2>1, ConstantTypes DEF Sound
<1>1. PICK pc, op, k, msg : msg \in Sound /\ Begin(t, pc, op, k, msg)
  <2>1. PICK k \in Cards :
          \/ \E a \in Appls : \/ capiproxy_register_appl(t, k, a)
                              \/ capiproxy_release_appl(t, k, a)
                              \/ capiproxy_send_message(t, k, a)
          \/ capiproxy_remove_ctr(t, k)
          \/ capiproxy_reset_ctr(t, k)
    BY DEF KcapiCalls
  <2>2. ASSUME NEW a \in Appls, capiproxy_register_appl(t, k, a)
        PROVE  \E pc, op, msg : msg \in Sound /\ Begin(t, pc, op, k, msg)
    BY <1>0, <2>2 DEF capiproxy_register_appl
  <2>3. ASSUME NEW a \in Appls, capiproxy_release_appl(t, k, a)
        PROVE  \E pc, op, msg : msg \in Sound /\ Begin(t, pc, op, k, msg)
    BY <1>0, <2>3, Basics DEF capiproxy_release_appl
  <2>4. ASSUME NEW a \in Appls, capiproxy_send_message(t, k, a)
        PROVE  \E pc, op, msg : msg \in Sound /\ Begin(t, pc, op, k, msg)
    BY <1>0, <2>4 DEF capiproxy_send_message
  <2>5. ASSUME capiproxy_remove_ctr(t, k) \/ capiproxy_reset_ctr(t, k)
        PROVE  \E pc, op, msg : msg \in Sound /\ Begin(t, pc, op, k, msg)
    BY <2>5, Basics DEF capiproxy_remove_ctr, capiproxy_reset_ctr
  <2>6. QED
    BY <2>1, <2>2, <2>3, <2>4, <2>5
<1>2. UNCHANGED <<queue, file>>
  BY KcapiCallsQuiet
<1>3. \A u \in Threads : call'[u].msg \in Sound
  <2>1. call' = [call EXCEPT ![t] = IF pc = "idle" THEN Idle ELSE
                    [pc |-> pc, op |-> op, card |-> k, msg |-> msg]]
    BY <1>1 DEF Begin
  <2>2. Idle.msg = None
    BY DEF Idle
  <2>3. call'[t].msg \in Sound
    BY <1>1, <2>1, <2>2, Basics DEF TypeOK
  <2>4. \A u \in Threads \ {t} : call'[u] = call[u]
    BY <2>1 DEF TypeOK
  <2>5. QED
    BY <2>3, <2>4 DEF MsgsSound
<1>4. QED
  BY <1>2, <1>3 DEF MsgsSound

(* A call in progress keeps its message, or queues it. *)
LEMMA CallStepSound ==
    ASSUME TypeOK, MsgsSound, NEW t \in Threads, CallStep(t)
    PROVE  MsgsSound' /\ file' = file
<1>0. /\ CallTypes /\ CardTypes
      /\ call[t].card \in Cards /\ call[t].msg \in Sound /\ queue[call[t].card] \in Seq(Sound)
  BY TypeParts DEF CallTypes, MsgsSound
<1>1. file' = file
  BY DEF CallStep, SendCheck, SendPut, Mark, CallFlush, RemoveFlushed, ResetFlushed
<1>2. PICK pc : Goto(t, pc)
  BY DEF CallStep, SendCheck, SendPut, Mark, CallFlush, RemoveFlushed, ResetFlushed
<1>3. \A u \in Threads : call'[u].msg \in Sound
  <2>1. Idle.msg = None
    BY DEF Idle
  <2>2. call'[t].msg \in {None, call[t].msg}
    BY <1>0, <1>2, <2>1 DEF Goto, CallTypes
  <2>3. \A u \in Threads \ {t} : call'[u] = call[u]
    BY <1>0, <1>2 DEF Goto, CallTypes
  <2>4. QED
    BY <1>0, <2>2, <2>3, Basics DEF MsgsSound
<1>4. queue' \in [Cards -> Seq(Sound)]
  <2>1. CASE queue' = queue
    BY <2>1 DEF MsgsSound
  <2>2. CASE queue' = [queue EXCEPT ![call[t].card] = Append(@, call[t].msg)]
    <3>1. Append(queue[call[t].card], call[t].msg) \in Seq(Sound)
      BY <1>0
    <3>2. QED
      BY <2>2, <3>1 DEF MsgsSound
  <2>3. CASE FlushDrop(call[t].card)
    <3>1. queue[call[t].card] # <<>> => Tail(queue[call[t].card]) \in Seq(Sound)
      BY <1>0
    <3>2. QED
      BY <1>0, <2>3, <3>1 DEF FlushDrop, MsgsSound
  <2>4. QED
    BY <2>1, <2>2, <2>3 DEF CallStep, SendCheck, SendPut, Mark, CallFlush, FlushZero,
                            RemoveFlushed, ResetFlushed, cardVars
<1>5. QED
  BY <1>1, <1>3, <1>4 DEF MsgsSound

(* What the daemon does with the device. *)
DeviceStep ==
    \/ capiproxy_open(node) \/ OpenAttach(node) \/ IOCTL_SET_DATA(node)
    \/ capiproxy_read(node) \/ ReadDequeue(node, {"count"}) \/ ReadCount(node)
    \/ IOCTL_APPL_REGISTERED(node, daemon.appl) \/ IOCTL_ERROR_REGFAIL(node, daemon.appl)
    \/ capiproxy_release(node) \/ ReleaseFlush(node) \/ ReleaseDetach(node)

(* It adds nothing to a queue, and a buffer it takes is one of the queue. *)
LEMMA DeviceSound ==
    ASSUME TypeOK, MsgsSound, DeviceStep
    PROVE  MsgsSound'
<1>0. CardTypes /\ FileTypes /\ file[node].msg \in Sound /\ queue \in [Cards -> Seq(Sound)]
  BY TypeParts DEF MsgsSound
<1>1. call' = call
  BY DEF DeviceStep, capiproxy_open, OpenAttach, IOCTL_SET_DATA, capiproxy_read, ReadDequeue,
         ReadCount, IOCTL_APPL_REGISTERED, IOCTL_ERROR_REGFAIL, capiproxy_release,
         ReleaseFlush, ReleaseDetach
<1>2. queue' \in [Cards -> Seq(Sound)]
  <2>1. ASSUME NEW k \in Cards, queue' = [queue EXCEPT ![k] = <<>>]
        PROVE  queue' \in [Cards -> Seq(Sound)]
    BY <1>0, <2>1, Basics
  <2>2. ASSUME NEW k \in Cards, queue[k] # <<>>, queue' = [queue EXCEPT ![k] = Tail(@)]
        PROVE  queue' \in [Cards -> Seq(Sound)]
    <3>1. queue[k] \in Seq(Sound)
      BY <1>0
    <3>2. Tail(queue[k]) \in Seq(Sound)
      BY <2>2, <3>1
    <3>3. QED
      BY <1>0, <2>2, <3>2
  <2>3. CASE capiproxy_open(node)
    BY <1>0, <2>1, <2>3 DEF capiproxy_open, cardVars
  <2>4. CASE OpenAttach(node)
    <3>1. file[node].card \in Cards
      BY <1>0, <2>4, Basics, OpenHasCard DEF OpenAttach
    <3>2. QED
      BY <2>1, <2>4, <3>1 DEF OpenAttach
  <2>5. CASE ReadDequeue(node, {"count"})
    <3>1. file[node].card \in Cards
      BY <1>0, <2>5, Basics, OpenHasCard DEF ReadDequeue
    <3>2. QED
      BY <1>0, <2>2, <2>5, <3>1 DEF ReadDequeue
  <2>6. CASE ReleaseFlush(node)
    <3>1. file[node].card \in Cards
      BY <1>0, <2>6, Basics, OpenHasCard DEF ReleaseFlush
    <3>2. CASE queue' = queue
      BY <1>0, <3>2
    <3>3. CASE FlushDrop(file[node].card)
      <4>1. CASE queue[file[node].card] # <<>>
        BY <2>2, <3>1, <3>3, <4>1 DEF FlushDrop
      <4>2. CASE queue[file[node].card] = <<>>
        BY <1>0, <3>3, <4>2 DEF FlushDrop
      <4>3. QED
        BY <4>1, <4>2
    <3>4. QED
      BY <2>6, <3>2, <3>3 DEF ReleaseFlush, FlushZero
  <2>7. CASE \/ IOCTL_SET_DATA(node) \/ capiproxy_read(node) \/ ReadCount(node)
             \/ IOCTL_APPL_REGISTERED(node, daemon.appl) \/ IOCTL_ERROR_REGFAIL(node, daemon.appl)
             \/ capiproxy_release(node) \/ ReleaseDetach(node)
    <3>1. queue' = queue
      BY <2>7 DEF IOCTL_SET_DATA, capiproxy_read, ReadCount, IOCTL_APPL_REGISTERED,
                  IOCTL_ERROR_REGFAIL, capiproxy_release, ReleaseDetach, cardVars
    <3>2. QED
      BY <1>0, <3>1
  <2>8. QED
    BY <2>3, <2>4, <2>5, <2>6, <2>7 DEF DeviceStep
<1>3. file'[node].msg \in Sound
  <2>1. ASSUME NEW pc, Step(node, pc) PROVE file'[node].msg \in Sound
    BY <1>0, <2>1, Basics DEF Step, FileTypes
  <2>2. CASE file' = file
    BY <1>0, <2>2
  <2>3. CASE capiproxy_open(node)
    BY <1>0, <2>1, <2>3, Basics DEF capiproxy_open, FileTypes
  <2>4. CASE ReadDequeue(node, {"count"})
    <3>1. file[node].card \in Cards
      BY <1>0, <2>4, Basics, OpenHasCard DEF ReadDequeue
    <3>2. ASSUME NEW pc, queue[file[node].card] # <<>>,
                 file' = [file EXCEPT ![node].pc = pc, ![node].msg = Head(queue[file[node].card])]
          PROVE  file'[node].msg \in Sound
      <4>1. Head(queue[file[node].card]) \in Sound
        BY <1>0, <3>1, <3>2
      <4>2. file'[node].msg = Head(queue[file[node].card])
        BY <1>0, <3>2, Basics DEF FileTypes
      <4>3. QED
        BY <4>1, <4>2
    <3>3. QED
      BY <2>2, <2>4, <3>2 DEF ReadDequeue
  <2>5. CASE ReadCount(node)
    <3>1. PICK pc : file' = [file EXCEPT ![node].pc = pc, ![node].msg = None]
      BY <2>5 DEF ReadCount
    <3>2. file'[node].msg = None
      BY <1>0, <3>1, Basics DEF FileTypes
    <3>3. QED
      BY <3>2, Basics
  <2>6. CASE ReleaseDetach(node)
    BY <1>0, <2>6, Basics DEF ReleaseDetach, FileTypes, Closed
  <2>7. CASE OpenAttach(node) \/ capiproxy_read(node) \/ capiproxy_release(node) \/ ReleaseFlush(node)
    BY <2>1, <2>7 DEF OpenAttach, capiproxy_read, capiproxy_release, ReleaseFlush
  <2>8. CASE \/ IOCTL_SET_DATA(node) \/ IOCTL_APPL_REGISTERED(node, daemon.appl)
             \/ IOCTL_ERROR_REGFAIL(node, daemon.appl)
    BY <2>2, <2>8 DEF IOCTL_SET_DATA, IOCTL_APPL_REGISTERED, IOCTL_ERROR_REGFAIL
  <2>9. QED
    BY <2>3, <2>4, <2>5, <2>6, <2>7, <2>8 DEF DeviceStep
<1>4. QED
  BY <1>1, <1>2, <1>3 DEF MsgsSound

(* So what is queued stays sound. *)
LEMMA SoundKept ==
    ASSUME BaseInv, [ClientNext]_allVars
    PROVE  MsgsSound'
<1>0. TypeOK /\ MsgsSound
  BY DEF BaseInv
<1>1. CASE UNCHANGED vars
  BY <1>0, <1>1 DEF MsgsSound, vars, cardVars
<1>2. CASE ModuleStep
  BY <1>0, <1>2, KcapiSound, CallStepSound DEF ModuleStep
<1>3. CASE DeviceStep
  BY <1>0, <1>3, DeviceSound
<1>4. QED
  <2>1. CASE OpenNode \/ ReadNode \/ Report \/ Shutdown
    BY <2>1, <1>1, <1>3 DEF OpenNode, ReadNode, Report, Shutdown, DeviceStep
  <2>2. CASE \/ UNCHANGED allVars
             \/ init_module \/ wait_for_answer \/ local_register_appl \/ PollSocket
             \/ sighandler \/ ServerStep \/ ServerCloses \/ \E r \in Remotes : MessageArrives(r)
    BY <2>2, <1>1 DEF allVars, init_module, wait_for_answer, local_register_appl, PollSocket,
                      sighandler, ServerStep, ServerAnswers, ServerWakes, ServerCloses,
                      MessageArrives
  <2>3. QED
    BY <1>2, <2>1, <2>2 DEF ClientNext, DaemonStep

-----------------------------------------------------------------------------
(* The end of a process whose connection is gone: SIGPIPE. *)
Killed == [daemon EXCEPT !.pc = "close"]

(* Setting where the daemon is keeps its type. *)
LEMMA MoveType ==
    ASSUME daemon \in Daemons, NEW pc \in DaemonPcs
    PROVE  /\ [daemon EXCEPT !.pc = pc] \in Daemons
           /\ [daemon EXCEPT !.pc = pc].pc = pc
           /\ [daemon EXCEPT !.pc = pc].job = daemon.job
           /\ [daemon EXCEPT !.pc = pc].appl = daemon.appl
BY DEF Daemons

(* send() keeps the types; the daemon goes on or is killed. *)
LEMMA SendType ==
    ASSUME DaemonTypes, LinkTypes, NEW type \in Types, NEW appl \in Ids, NEW next \in Daemons,
           Send(type, appl, next)
    PROVE  /\ link' \in {"up", "eof", "reset", "dead"} /\ toServer' \in Seq(Requests)
           /\ daemon' \in Daemons /\ daemon' \in {next, Killed}
           /\ link' = "up" <=> link = "up"
           /\ link = "up" =>
                /\ toServer' = Append(toServer, [type |-> type, appl |-> appl])
                /\ daemon' = next
<1>1. Killed \in Daemons
  BY MoveType DEF DaemonTypes, Killed, DaemonPcs
<1>2. [type |-> type, appl |-> appl] \in Requests
  BY DEF Requests
<1>3. CASE link = "up"
  BY <1>2, <1>3 DEF Send, LinkTypes
<1>4. CASE link # "up"
  BY <1>1, <1>4 DEF Send, LinkTypes, Killed
<1>5. QED
  BY <1>3, <1>4

(* recv() takes packets of the connection and leaves the rest. *)
LEMMA ReceiveType ==
    ASSUME LinkTypes, HistoryTypes, Receives
    PROVE  /\ toClient # <<>> /\ Head(toClient) \in Packets /\ Head(toClient) \in Arriving
           /\ recvbuffer' = Head(toClient)
           /\ \E n \in 1 .. Len(toClient) :
                 /\ toClient' = SubSeq(toClient, n + 1, Len(toClient))
                 /\ swallowed' = (swallowed \/ n > 1)
           /\ toClient' \in Seq(Arriving) /\ swallowed' \in BOOLEAN
<1>1. toClient \in Seq(Arriving) /\ toClient # <<>> /\ Len(toClient) \in Nat /\ Len(toClient) >= 1
  BY DEF LinkTypes, Receives
<1>a. Head(toClient) \in Packets /\ Head(toClient) \in Arriving
  <2>1. Head(toClient) \in Arriving
    BY <1>1
  <2>2. QED
    BY <2>1 DEF Arriving
<1>2. PICK n \in 1 .. Len(toClient) :
        /\ toClient' = SubSeq(toClient, n + 1, Len(toClient))
        /\ swallowed' = (swallowed \/ n > 1)
  BY <1>1, C2pClientAssumption DEF Receives
<1>3. toClient' \in Seq(Arriving)
  BY <1>1, <1>2, SubSeqProperties
<1>4. swallowed' \in BOOLEAN
  BY <1>2 DEF HistoryTypes
<1>5. QED
  BY <1>1, <1>a, <1>2, <1>3, <1>4 DEF Receives

(* What the buffer may be taken for is a packet. *)
LEMMA StaleType ==
    ASSUME DaemonTypes, NEW p \in Stale
    PROVE  p \in Packets
<1>1. CASE recvbuffer.type # "GARBLED"
  BY <1>1 DEF Stale, DaemonTypes
<1>2. CASE recvbuffer.type = "GARBLED"
  <2>1. p \in [type : {"WAITFORSIGNAL", "GETMESSAGE", "OTHER"}, appl : Ids,
                ok : BOOLEAN, msg : {0}, whole : {FALSE}]
    BY <1>2 DEF Stale
  <2>2. /\ p = [type |-> p.type, appl |-> p.appl, ok |-> p.ok, msg |-> p.msg, whole |-> p.whole]
        /\ p.type \in {"WAITFORSIGNAL", "GETMESSAGE", "OTHER"} /\ p.appl \in Ids
        /\ p.ok \in BOOLEAN /\ p.msg \in {0} /\ p.whole \in {FALSE}
    BY <2>1
  <2>3. p.type \in Types \cup {"OTHER", "GARBLED"} /\ p.msg \in Nat
    BY <2>2 DEF Types
  <2>4. p.whole \in BOOLEAN
    BY <2>2
  <2>5. QED
    BY <2>2, <2>3, <2>4 DEF Packets
<1>3. QED
  BY <1>1, <1>2

(* Handling a packet keeps the types; the daemon goes on or ends. *)
LEMMA HandleType ==
    ASSUME DaemonTypes, LinkTypes, HistoryTypes, NEW p \in Packets, NEW next \in Daemons,
           handle_serverpacket(p, next)
    PROVE  /\ link' \in {"up", "eof", "reset", "dead"} /\ toServer' \in Seq(Requests)
           /\ daemon' \in Daemons /\ daemon' \in {next, Killed}
           /\ link' = "up" <=> link = "up"
           /\ last' \in [Ids -> Nat] /\ again' \in BOOLEAN
<1>0. p.appl \in Ids /\ p.msg \in Nat /\ "WAITFORSIGNAL" \in Types /\ "GETMESSAGE" \in Types
  BY DEF Packets, Types
<1>1. Killed \in Daemons
  BY MoveType DEF DaemonTypes, Killed, DaemonPcs
<1>2. CASE p.type = "WAITFORSIGNAL" /\ remote_get_message(p.appl, next) /\ UNCHANGED <<last, again>>
  BY <1>0, <1>2, SendType DEF remote_get_message, HistoryTypes
<1>3. CASE p.type = "GETMESSAGE" /\ send_to_module(p) /\ remote_waitforsignal(p.appl, next)
  <2>1. last' \in [Ids -> Nat] /\ again' \in BOOLEAN
    BY <1>0, <1>3 DEF send_to_module, HistoryTypes
  <2>2. QED
    BY <1>0, <1>3, <2>1, SendType DEF remote_waitforsignal
<1>4. CASE daemon' \in {next, Killed} /\ UNCHANGED <<link, toServer, last, again>>
  BY <1>1, <1>4 DEF LinkTypes, HistoryTypes
<1>5. QED
  BY <1>2, <1>3, <1>4 DEF handle_serverpacket, Killed

(* A daemon that is about to end is nowhere in particular. *)
LEMMA KilledFits ==
    ASSUME daemon \in Daemons, Local, daemon' = Killed
    PROVE  Positions' /\ Local'
<1>1. daemon'.pc = "close" /\ daemon'.job = daemon.job /\ daemon'.appl = daemon.appl
  BY MoveType DEF Killed, DaemonPcs
<1>2. QED
  BY <1>1 DEF Positions, Local

(* The daemon makes a request and waits for the answer. *)
LEMMA AskType ==
    ASSUME DaemonTypes, LinkTypes, Local, NEW job \in Jobs, NEW appl \in Ids, NEW local \in Ids,
           job \in StartJobs \/ file'[node].pc = "idle",
           job = "REGISTER" => local \in Appls,
           Ask(job, appl, local)
    PROVE  /\ link' \in {"up", "eof", "reset", "dead"} /\ toServer' \in Seq(Requests)
           /\ daemon' \in Daemons
           /\ Positions' /\ Local'
           /\ link' = "up" <=> link = "up"
           /\ link = "up" =>
                /\ toServer' = Append(toServer, [type |-> job, appl |-> appl])
                /\ daemon' = [pc |-> "wait", job |-> job, appl |-> local]
<1> DEFINE next == [pc |-> "wait", job |-> job, appl |-> local]
<1>1. next \in Daemons /\ next.pc = "wait" /\ next.job = job /\ next.appl = local
  BY DEF Daemons, DaemonPcs
<1>2. job \in Types
  BY DEF Types
<1>3. Send(job, appl, next)
  BY DEF Ask
<1> HIDE DEF next
<1>4. /\ link' \in {"up", "eof", "reset", "dead"} /\ toServer' \in Seq(Requests)
      /\ daemon' \in Daemons /\ daemon' \in {next, Killed}
      /\ link' = "up" <=> link = "up"
      /\ link = "up" =>
           /\ toServer' = Append(toServer, [type |-> job, appl |-> appl])
           /\ daemon' = next
  BY <1>1, <1>2, <1>3, SendType
<1>5. ASSUME daemon' = next PROVE Positions' /\ Local'
  BY <1>1, <1>5 DEF Positions, Local
<1>6. Positions' /\ Local'
  BY <1>4, <1>5, KilledFits DEF DaemonTypes
<1>7. QED
  BY <1>4, <1>6 DEF next

(* Start-up. *)
LEMMA InitModuleBase ==
    ASSUME BaseInv, init_module
    PROVE  ClientTypes' /\ Positions' /\ Local'
<1>0. DaemonTypes /\ LinkTypes /\ Local /\ 0 \in Ids
  BY Basics DEF BaseInv, ClientTypes
<1>1. /\ UNCHANGED <<recvbuffer, applmap_rtl, applmap_ltr, c2p_shutdown, toClient, regs, waits,
                     inbox, sent, home, misled, polls, last, again, swallowed, file>>
  BY DEF init_module, vars, serverVars, historyVars
<1>2. ASSUME NEW job \in StartJobs, Ask(job, 0, 0)
      PROVE  ClientTypes' /\ Positions' /\ Local'
  <2>1. job \in Jobs /\ job # "REGISTER"
    BY <1>2 DEF Jobs, StartJobs
  <2>2. /\ link' \in {"up", "eof", "reset", "dead"} /\ toServer' \in Seq(Requests)
        /\ daemon' \in Daemons /\ Positions' /\ Local'
    BY <1>0, <1>2, <2>1, AskType
  <2>3. QED
    BY <1>1, <2>2 DEF BaseInv, ClientTypes, DaemonTypes, LinkTypes, ServerTypes, HistoryTypes
<1>3. ASSUME NEW pc \in {"open", "nodevice"}, daemon' = [daemon EXCEPT !.pc = pc],
             UNCHANGED <<link, toServer>>
      PROVE  ClientTypes' /\ Positions' /\ Local'
  <2>1. /\ daemon' \in Daemons /\ daemon'.pc = pc /\ daemon'.job = daemon.job
        /\ daemon'.appl = daemon.appl
    BY <1>0, <1>3, MoveType DEF DaemonTypes, DaemonPcs
  <2>2. Positions' /\ Local'
    BY <1>0, <1>3, <2>1 DEF Positions, Local
  <2>3. QED
    BY <1>1, <1>3, <2>1, <2>2 DEF BaseInv, ClientTypes, DaemonTypes, LinkTypes, ServerTypes,
                                  HistoryTypes
<1>4. QED
  BY <1>2, <1>3 DEF init_module, init_socket, remote_get_manufacturer, remote_get_version,
                    remote_get_serial, remote_get_profile, StartJobs

(* The nested wait. *)
LEMMA WaitBase ==
    ASSUME BaseInv, wait_for_answer
    PROVE  ClientTypes' /\ Positions' /\ Local'
<1>0. DaemonTypes /\ LinkTypes /\ HistoryTypes /\ Local /\ Positions /\ daemon \in Daemons
  BY DEF BaseInv, ClientTypes, DaemonTypes
<1>1. /\ UNCHANGED <<applmap_rtl, applmap_ltr, c2p_shutdown, regs, waits, inbox, sent, home,
                     misled, polls, file>>
      /\ daemon.pc = "wait"
  BY DEF wait_for_answer, vars, serverVars
<1> DEFINE done == [daemon EXCEPT !.pc = AfterWait(daemon.job)]
<1>2. ASSUME daemon' = done
      PROVE  daemon' \in Daemons /\ Positions' /\ Local'
  <2>1. AfterWait(daemon.job) \in DaemonPcs
    BY DEF AfterWait, DaemonPcs
  <2>2. /\ daemon' \in Daemons /\ daemon'.pc = AfterWait(daemon.job)
        /\ daemon'.job = daemon.job /\ daemon'.appl = daemon.appl
    BY <1>0, <1>2, <2>1, MoveType
  <2>3. daemon.job \in StartJobs => daemon'.pc = "done"
    BY <2>2 DEF AfterWait, StartJobs
  <2>4. QED
    BY <1>0, <1>1, <2>2, <2>3 DEF Positions, Local, AfterWait
<1>3. CASE Receives
  <2>1. /\ Head(toClient) \in Packets /\ recvbuffer' \in Packets
        /\ toClient' \in Seq(Arriving) /\ swallowed' \in BOOLEAN
    BY <1>0, <1>3, ReceiveType
  <2>2. CASE daemon' = done /\ UNCHANGED <<link, toServer, last, again>>
    BY <1>0, <1>1, <1>2, <2>1, <2>2
       DEF BaseInv, ClientTypes, DaemonTypes, LinkTypes, ServerTypes, HistoryTypes
  <2>3. CASE handle_serverpacket(Head(toClient), daemon)
    <3>1. /\ link' \in {"up", "eof", "reset", "dead"} /\ toServer' \in Seq(Requests)
          /\ daemon' \in Daemons /\ daemon' \in {daemon, Killed}
          /\ last' \in [Ids -> Nat] /\ again' \in BOOLEAN
      BY <1>0, <2>1, <2>3, HandleType
    <3>2. Positions' /\ Local'
      <4>1. CASE daemon' = daemon
        BY <1>0, <1>1, <4>1 DEF Positions, Local
      <4>2. QED
        BY <1>0, <3>1, <4>1, KilledFits
    <3>3. QED
      BY <1>1, <2>1, <3>1, <3>2
         DEF BaseInv, ClientTypes, DaemonTypes, LinkTypes, ServerTypes, HistoryTypes
  <2>4. QED
    BY <1>0, <1>3, <2>2, <2>3 DEF wait_for_answer, AtEnd, Fails, Receives
<1>4. CASE AtEnd /\ daemon' = done /\ UNCHANGED <<recvbuffer, linkVars, last, again, swallowed>>
  BY <1>0, <1>1, <1>2, <1>4
     DEF BaseInv, ClientTypes, DaemonTypes, LinkTypes, ServerTypes, HistoryTypes, linkVars
<1>5. CASE Fails /\ daemon' = done /\ UNCHANGED <<last, again>>
  BY <1>0, <1>1, <1>2, <1>5
     DEF BaseInv, ClientTypes, DaemonTypes, LinkTypes, ServerTypes, HistoryTypes, Fails
<1>6. QED
  BY <1>3, <1>4, <1>5 DEF wait_for_answer

(* The polling of the socket. *)
LEMMA PollSocketBase ==
    ASSUME BaseInv, PollSocket
    PROVE  ClientTypes' /\ Positions' /\ Local'
<1>0. DaemonTypes /\ LinkTypes /\ HistoryTypes /\ Local /\ Positions /\ daemon \in Daemons
  BY DEF BaseInv, ClientTypes, DaemonTypes
<1>1. /\ UNCHANGED <<applmap_rtl, applmap_ltr, c2p_shutdown, regs, waits, inbox, sent, home,
                     misled, polls, file>>
      /\ daemon.pc = "loop"
  BY DEF PollSocket, vars, serverVars
<1> DEFINE next == [daemon EXCEPT !.pc = "read"]
<1>2. next \in Daemons /\ next.pc = "read" /\ next.job = daemon.job /\ next.appl = daemon.appl
  BY <1>0, MoveType DEF DaemonPcs
<1> HIDE DEF next
<1>3. ASSUME daemon' \in {next, Killed}
      PROVE  daemon' \in Daemons /\ Positions' /\ Local'
  <2>1. CASE daemon' = next
    BY <1>0, <1>1, <1>2, <2>1 DEF Positions, Local
  <2>2. CASE daemon' = Killed
    BY <1>0, <2>2, KilledFits, MoveType DEF Killed, DaemonPcs
  <2>3. QED
    BY <1>3, <2>1, <2>2
<1>4. ASSUME NEW p \in Packets, handle_serverpacket(p, next), recvbuffer' \in Packets,
             toClient' \in Seq(Arriving), swallowed' \in BOOLEAN
      PROVE  ClientTypes' /\ Positions' /\ Local'
  <2>1. /\ link' \in {"up", "eof", "reset", "dead"} /\ toServer' \in Seq(Requests)
        /\ daemon' \in Daemons /\ daemon' \in {next, Killed}
        /\ last' \in [Ids -> Nat] /\ again' \in BOOLEAN
    BY <1>0, <1>2, <1>4, HandleType
  <2>2. QED
    BY <1>1, <1>3, <1>4, <2>1
       DEF BaseInv, ClientTypes, DaemonTypes, LinkTypes, ServerTypes, HistoryTypes
<1>5. CASE Receives /\ handle_serverpacket(Head(toClient), next)
  BY <1>0, <1>4, <1>5, ReceiveType
<1>6. CASE /\ \E p \in Stale : handle_serverpacket(p, next)
           /\ UNCHANGED <<recvbuffer, toClient, swallowed>>
  BY <1>0, <1>4, <1>6, StaleType DEF DaemonTypes, LinkTypes, HistoryTypes
<1>7. CASE Fails /\ daemon' = next /\ UNCHANGED <<last, again>>
  BY <1>0, <1>1, <1>3, <1>7
     DEF BaseInv, ClientTypes, DaemonTypes, LinkTypes, ServerTypes, HistoryTypes, Fails
<1>8. QED
  BY <1>5, <1>6, <1>7 DEF PollSocket, next

(* The outcome of a registration. *)
LEMMA RegisterBase ==
    ASSUME BaseInv, local_register_appl
    PROVE  ClientTypes' /\ Positions' /\ Local'
<1>0. DaemonTypes /\ LinkTypes /\ HistoryTypes /\ Local /\ Positions /\ daemon \in Daemons
  BY DEF BaseInv, ClientTypes, DaemonTypes
<1>1. /\ UNCHANGED <<recvbuffer, c2p_shutdown, toClient, regs, waits, inbox, sent, home, misled,
                     last, again, swallowed, file>>
      /\ daemon.pc = "done" /\ daemon.job = "REGISTER"
  BY DEF local_register_appl, vars, serverVars
<1>2. file[node].pc = "idle" /\ daemon.appl \in Ids
  BY <1>0, <1>1 DEF Positions, StartJobs, Daemons
<1>3. ASSUME NEW pc \in {"registered", "regfail"}, daemon' = [daemon EXCEPT !.pc = pc]
      PROVE  daemon' \in Daemons /\ Positions' /\ Local'
  <2>1. /\ daemon' \in Daemons /\ daemon'.pc = pc /\ daemon'.job = daemon.job
        /\ daemon'.appl = daemon.appl
    BY <1>0, <1>3, MoveType DEF DaemonPcs
  <2>2. QED
    BY <1>0, <1>1, <1>2, <2>1 DEF Positions, Local
<1>4. PICK p \in Stale :
        \/ /\ p.ok
           /\ applmap_rtl' = [applmap_rtl EXCEPT ![p.appl] = daemon.appl]
           /\ applmap_ltr' = [applmap_ltr EXCEPT ![daemon.appl] = p.appl]
           /\ polls' = [polls EXCEPT ![p.appl] = IF link = "up" THEN @ + 1 ELSE @]
           /\ remote_waitforsignal(p.appl, [daemon EXCEPT !.pc = "registered"])
        \/ /\ ~ p.ok
           /\ daemon' = [daemon EXCEPT !.pc = "regfail"]
           /\ UNCHANGED <<applmap_rtl, applmap_ltr, polls, link, toServer>>
  BY DEF local_register_appl
<1>5. p \in Packets /\ p.appl \in Ids
  BY <1>0, StaleType DEF Packets
<1>6. /\ applmap_rtl' \in [Ids -> Ids] /\ applmap_ltr' \in [Ids -> Ids] /\ polls' \in [Ids -> Nat]
  BY <1>0, <1>2, <1>4, <1>5 DEF DaemonTypes, HistoryTypes
<1>7. /\ link' \in {"up", "eof", "reset", "dead"} /\ toServer' \in Seq(Requests)
      /\ daemon' \in Daemons /\ Positions' /\ Local'
  <2>1. CASE remote_waitforsignal(p.appl, [daemon EXCEPT !.pc = "registered"])
    <3>1. [daemon EXCEPT !.pc = "registered"] \in Daemons /\ "WAITFORSIGNAL" \in Types
      BY <1>0, MoveType DEF DaemonPcs, Types
    <3>2. /\ link' \in {"up", "eof", "reset", "dead"} /\ toServer' \in Seq(Requests)
          /\ daemon' \in Daemons /\ daemon' \in {[daemon EXCEPT !.pc = "registered"], Killed}
      BY <1>0, <1>5, <2>1, <3>1, SendType DEF remote_waitforsignal
    <3>3. QED
      BY <1>0, <1>3, <3>2, KilledFits
  <2>2. CASE daemon' = [daemon EXCEPT !.pc = "regfail"] /\ UNCHANGED <<link, toServer>>
    BY <1>0, <1>3, <2>2 DEF LinkTypes
  <2>3. QED
    BY <1>4, <2>1, <2>2
<1>8. QED
  BY <1>1, <1>6, <1>7 DEF BaseInv, ClientTypes, DaemonTypes, LinkTypes, ServerTypes, HistoryTypes

(* Opening the device, and reporting to it. *)
LEMMA OpenReportBase ==
    ASSUME BaseInv, OpenNode \/ Report
    PROVE  ClientTypes' /\ Positions' /\ Local'
<1>0. DaemonTypes /\ Local /\ Positions /\ daemon \in Daemons /\ FileTypes
  BY TypeParts DEF BaseInv, ClientTypes, DaemonTypes
<1>1. UNCHANGED <<recvbuffer, applmap_rtl, applmap_ltr, c2p_shutdown, link, toServer, toClient,
                  regs, waits, inbox, sent, home, misled, polls, last, again, swallowed>>
  BY DEF OpenNode, Report, linkVars, serverVars, historyVars
<1>2. daemon' \in Daemons /\ Positions' /\ Local'
  <2>1. ASSUME NEW pc \in {"set", "loop"}, daemon' = [daemon EXCEPT !.pc = pc],
               pc = "loop" => file'[node].pc = "idle"
        PROVE  daemon' \in Daemons /\ Positions' /\ Local'
    <3>1. /\ daemon' \in Daemons /\ daemon'.pc = pc /\ daemon'.job = daemon.job
          /\ daemon'.appl = daemon.appl
      BY <1>0, <2>1, MoveType DEF DaemonPcs
    <3>2. QED
      BY <1>0, <2>1, <3>1 DEF Positions, Local
  <2>2. CASE daemon.pc = "set" /\ UNCHANGED daemon
    BY <1>0, <2>2 DEF Positions, Local
  <2>3. QED
    BY <2>1, <2>2 DEF OpenNode, Report, Loop, IOCTL_SET_DATA, IOCTL_APPL_REGISTERED,
                      IOCTL_ERROR_REGFAIL
<1>3. QED
  BY <1>1, <1>2 DEF BaseInv, ClientTypes, DaemonTypes, LinkTypes, ServerTypes, HistoryTypes

(* Dispatching a message of the module, read from an idle device. *)
LEMMA DispatchBase ==
    ASSUME BaseInv, daemon.pc = "reading", file'[node].pc = "idle", NEW m \in Sound, Dispatch(m),
           UNCHANGED <<applmap_rtl, applmap_ltr, toClient, serverVars, historyVars>>
    PROVE  ClientTypes' /\ Positions' /\ Local'
<1>0. DaemonTypes /\ LinkTypes /\ Local /\ daemon \in Daemons /\ 0 \in Ids
  BY Basics DEF BaseInv, ClientTypes, DaemonTypes
<1>1. m.appl \in Ids /\ (m.kind = "REGISTER_APP" => m.appl \in Appls)
  BY DEF Sound, Msgs, Ids
<1>2. recvbuffer' \in Packets
  <2>1. recvbuffer \in Packets
    BY <1>0 DEF DaemonTypes
  <2>2. [recvbuffer EXCEPT !.whole = FALSE] \in Packets
    BY <2>1 DEF Packets
  <2>3. [recvbuffer EXCEPT !.type = "GARBLED", !.whole = FALSE] \in Packets
    BY <2>1 DEF Packets
  <2>4. QED
    BY <2>2, <2>3 DEF Dispatch
<1>3. /\ link' \in {"up", "eof", "reset", "dead"} /\ toServer' \in Seq(Requests)
      /\ daemon' \in Daemons /\ Positions' /\ Local' /\ c2p_shutdown' \in BOOLEAN
  <2>1. ASSUME NEW job \in {"REGISTER", "RELEASE", "PUTMESSAGE"}, NEW appl \in Ids,
               job = "REGISTER" => m.appl \in Appls, Ask(job, appl, m.appl), UNCHANGED c2p_shutdown
        PROVE  /\ link' \in {"up", "eof", "reset", "dead"} /\ toServer' \in Seq(Requests)
               /\ daemon' \in Daemons /\ Positions' /\ Local' /\ c2p_shutdown' \in BOOLEAN
    <3>1. job \in Jobs
      BY <2>1 DEF Jobs
    <3>2. QED
      BY <1>0, <1>1, <2>1, <3>1, AskType DEF DaemonTypes
  <2>2. CASE m.kind = "REGISTER_APP" /\ remote_register_appl(m.appl) /\ UNCHANGED c2p_shutdown
    BY <1>0, <1>1, <2>1, <2>2 DEF remote_register_appl
  <2>3. CASE m.kind = "RELEASE_APP" /\ local_release_appl(m.appl) /\ UNCHANGED c2p_shutdown
    BY <1>1, <2>1, <2>3 DEF local_release_appl, remote_release_appl
  <2>4. CASE m.kind = "MESSAGE" /\ send_to_server(m.appl) /\ UNCHANGED c2p_shutdown
    <3>1. applmap_ltr[m.appl] \in Ids
      BY <1>0, <1>1 DEF DaemonTypes
    <3>2. QED
      BY <2>1, <2>4, <3>1 DEF send_to_server
  <2>5. CASE c2p_shutdown' = TRUE /\ daemon' = Loop /\ UNCHANGED <<link, toServer>>
    <3>1. /\ daemon' \in Daemons /\ daemon'.pc = "loop" /\ daemon'.job = daemon.job
          /\ daemon'.appl = daemon.appl
      BY <1>0, <2>5, MoveType DEF DaemonPcs, Loop
    <3>2. QED
      BY <1>0, <2>5, <3>1 DEF Positions, Local, LinkTypes
  <2>6. QED
    BY <2>2, <2>3, <2>4, <2>5 DEF Dispatch
<1>4. QED
  BY <1>2, <1>3 DEF BaseInv, ClientTypes, DaemonTypes, LinkTypes, ServerTypes, HistoryTypes,
                    serverVars, historyVars

(* Reading the device. *)
LEMMA ReadNodeBase ==
    ASSUME BaseInv, ReadNode
    PROVE  ClientTypes' /\ Positions' /\ Local'
<1>0. /\ DaemonTypes /\ LinkTypes /\ Local /\ Positions /\ daemon \in Daemons /\ FileTypes
      /\ file[node] \in [pc : FilePcs, card : Cards \cup {NoCard}, msg : Msgs]
      /\ file[node].msg \in Sound
  BY Basics, TypeParts DEF BaseInv, ClientTypes, DaemonTypes, FileTypes, MsgsSound
<1>1. UNCHANGED <<applmap_rtl, applmap_ltr, toClient, serverVars, historyVars>>
  BY DEF ReadNode
<1>2. ASSUME Polled, capiproxy_read(node),
             daemon' = IF file'[node].pc = "idle" THEN Loop ELSE [daemon EXCEPT !.pc = "reading"],
             UNCHANGED <<recvbuffer, c2p_shutdown, link, toServer>>
      PROVE  ClientTypes' /\ Positions' /\ Local'
  <2>1. file'[node].pc \in {"dequeue", "idle"}
    BY <1>0, <1>2, Basics, C2pClientAssumption DEF capiproxy_read, Step, FileTypes
  <2>2. PICK pc \in {"loop", "reading"} :
          daemon' = [daemon EXCEPT !.pc = pc] /\ (pc = "loop" <=> file'[node].pc = "idle")
    BY <1>2 DEF Loop
  <2>3. /\ daemon' \in Daemons /\ daemon'.pc = pc /\ daemon'.job = daemon.job
        /\ daemon'.appl = daemon.appl
    BY <1>0, <2>2, MoveType DEF DaemonPcs
  <2>4. Positions' /\ Local'
    BY <1>0, <2>1, <2>2, <2>3 DEF Positions, Local
  <2>5. QED
    BY <1>1, <1>2, <2>3, <2>4 DEF BaseInv, ClientTypes, DaemonTypes, LinkTypes, ServerTypes,
                                  HistoryTypes, serverVars, historyVars
<1>3. ASSUME daemon.pc = "reading", ReadDequeue(node, {"count"}),
             UNCHANGED <<daemon, recvbuffer, c2p_shutdown, link, toServer>>
      PROVE  ClientTypes' /\ Positions' /\ Local'
  <2>1. file'[node].pc \in {"dequeue", "count"}
    <3>1. file[node].card \in Cards
      BY <1>0, <1>3, Basics, OpenHasCard DEF ReadDequeue
    <3>2. queue[file[node].card] # <<>> => Head(queue[file[node].card]) \in Sound
      BY <3>1 DEF BaseInv, MsgsSound
    <3>3. queue[file[node].card] # <<>> => Head(queue[file[node].card]).kind # "RUNT"
      BY <3>2 DEF Sound
    <3>4. CASE queue[file[node].card] = <<>>
      BY <1>0, <1>3, <3>4 DEF ReadDequeue
    <3>5. CASE queue[file[node].card] # <<>>
      <4>1. file' = [file EXCEPT ![node].pc = "count", ![node].msg = Head(queue[file[node].card])]
        BY <1>3, <3>3, <3>5 DEF ReadDequeue
      <4>2. file'[node].pc = "count"
        BY <1>0, <4>1, Basics DEF FileTypes
      <4>3. QED
        BY <4>2
    <3>6. QED
      BY <3>4, <3>5
  <2>2. Positions' /\ Local'
    BY <1>0, <1>3, <2>1 DEF Positions, Local
  <2>3. QED
    BY <1>0, <1>1, <1>3, <2>2 DEF BaseInv, ClientTypes, DaemonTypes, LinkTypes, ServerTypes,
                                  HistoryTypes, serverVars, historyVars
<1>4. ASSUME daemon.pc = "reading", ReadCount(node), Dispatch(file[node].msg)
      PROVE  ClientTypes' /\ Positions' /\ Local'
  <2>1. file[node].pc = "count"
    BY <1>0, <1>4 DEF Positions, ReadCount
  <2>2. file' = [file EXCEPT ![node].pc = "idle", ![node].msg = None]
    BY <1>4, <2>1 DEF ReadCount
  <2>3. file'[node].pc = "idle"
    BY <1>0, <2>2, Basics DEF FileTypes
  <2>4. PICK m \in Sound : m = file[node].msg
    BY <1>0
  <2>5. Dispatch(m)
    BY <1>4, <2>4
  <2>6. QED
    BY <1>1, <1>4, <2>3, <2>5, DispatchBase
<1>5. QED
  BY <1>2, <1>3, <1>4 DEF ReadNode

(* The end of the daemon. *)
LEMMA ShutdownBase ==
    ASSUME BaseInv, Shutdown \/ sighandler
    PROVE  ClientTypes' /\ Positions' /\ Local'
<1>0. DaemonTypes /\ Local /\ Positions /\ daemon \in Daemons /\ 0 \in Ids
  BY Basics DEF BaseInv, ClientTypes, DaemonTypes
<1>1. CASE sighandler
  <2>1. Positions' /\ Local'
    BY <1>0, <1>1 DEF sighandler, vars, Positions, Local
  <2>2. QED
    BY <1>0, <1>1, <2>1 DEF sighandler, BaseInv, ClientTypes, DaemonTypes, LinkTypes,
                            ServerTypes, HistoryTypes, linkVars, serverVars, historyVars
<1>2. CASE Shutdown /\ daemon.pc = "loop"
  <2>1. daemon' = Killed /\ UNCHANGED <<recvbuffer, applmap_rtl, applmap_ltr, linkVars,
                                        serverVars, historyVars, c2p_shutdown>>
    BY <1>2 DEF Shutdown, Killed
  <2>2. daemon' \in Daemons /\ Positions' /\ Local'
    BY <1>0, <2>1, KilledFits, MoveType DEF Killed, DaemonPcs
  <2>3. QED
    BY <2>1, <2>2 DEF BaseInv, ClientTypes, DaemonTypes, LinkTypes,
                      ServerTypes, HistoryTypes, linkVars, serverVars, historyVars
<1>3. CASE Shutdown /\ daemon.pc = "close"
  <2>1. /\ Forget /\ daemon' = [pc |-> "closing", job |-> "HELO", appl |-> 0]
        /\ UNCHANGED c2p_shutdown
    BY <1>3 DEF Shutdown
  <2>2. daemon' \in Daemons /\ daemon'.pc = "closing" /\ daemon'.job = "HELO"
    BY <1>0, <2>1 DEF Daemons, DaemonPcs, Jobs, StartJobs
  <2>3. Positions' /\ Local'
    BY <2>2 DEF Positions, Local
  <2>4. recvbuffer' \in Packets
    <3>1. "OTHER" \in Types \cup {"OTHER"} /\ TRUE \in BOOLEAN /\ 0 \in Nat
      OBVIOUS
    <3>2. QED
      BY <1>0, <2>1, <3>1, PacketType DEF Forget
  <2>5. DaemonTypes'
    BY <1>0, <2>1, <2>2, <2>4 DEF Forget, DaemonTypes
  <2>6. LinkTypes' /\ ServerTypes' /\ HistoryTypes'
    BY <2>1, Basics DEF Forget, LinkTypes, ServerTypes, HistoryTypes
  <2>7. QED
    BY <2>3, <2>5, <2>6 DEF ClientTypes
<1>4. CASE Shutdown /\ daemon.pc = "closing"
  <2>1. UNCHANGED <<daemon, recvbuffer, applmap_rtl, applmap_ltr, linkVars, serverVars,
                    historyVars, c2p_shutdown>>
    BY <1>4 DEF Shutdown
  <2>2. Positions' /\ Local'
    BY <1>0, <1>4, <2>1 DEF Positions, Local
  <2>3. QED
    BY <2>1, <2>2 DEF BaseInv, ClientTypes, DaemonTypes, LinkTypes,
                      ServerTypes, HistoryTypes, linkVars, serverVars, historyVars
<1>5. QED
  BY <1>1, <1>2, <1>3, <1>4 DEF Shutdown

-----------------------------------------------------------------------------
(* The server answers request q. *)
Answers(q) ==
    \/ /\ q.type \in StartJobs \cup {"PUTMESSAGE"}
       /\ \E ok \in BOOLEAN : Answer(q.type, q.appl, ok, 0)
       /\ UNCHANGED <<regs, waits, inbox, home, misled>>
    \/ /\ q.type = "REGISTER"
       /\ ServerRegisters
       /\ UNCHANGED <<waits, inbox>>
    \/ /\ q.type = "RELEASE"
       /\ regs' = regs \ {q.appl}
       /\ inbox' = [inbox EXCEPT ![q.appl] = <<>>]
       /\ Answer("RELEASE", q.appl, TRUE, 0)
       /\ UNCHANGED <<waits, home, misled>>
    \/ /\ q.type = "WAITFORSIGNAL"
       /\ waits' = [waits EXCEPT ![q.appl] = @ + 1]
       /\ UNCHANGED <<toClient, regs, inbox, home, misled>>
    \/ /\ q.type = "GETMESSAGE" /\ inbox[q.appl] # <<>>
       /\ Answer("GETMESSAGE", q.appl, TRUE, Head(inbox[q.appl]))
       /\ inbox' = [inbox EXCEPT ![q.appl] = Tail(@)]
       /\ UNCHANGED <<regs, waits, home, misled>>
    \/ /\ q.type = "GETMESSAGE"
       /\ Answer("GETMESSAGE", q.appl, TRUE, 0)
       /\ UNCHANGED <<regs, waits, inbox, home, misled>>

(* It does so for the first request, and leaves everything else alone. *)
LEMMA ServerAnswersCases ==
    ASSUME LinkTypes, ServerAnswers
    PROVE  /\ link = "up" /\ link' = "up" /\ toServer # <<>> /\ toServer' = Tail(toServer)
           /\ UNCHANGED <<vars, daemon, recvbuffer, applmap_rtl, applmap_ltr, c2p_shutdown, sent,
                          polls, last, again, swallowed>>
           /\ \E q \in Requests : q = Head(toServer) /\ Answers(q)
<1>1. link = "up" /\ link' = "up" /\ toServer # <<>> /\ toServer' = Tail(toServer)
  BY DEF ServerAnswers
<1>2. UNCHANGED <<vars, daemon, recvbuffer, applmap_rtl, applmap_ltr, c2p_shutdown, sent,
                  polls, last, again, swallowed>>
  BY DEF ServerAnswers, daemonVars, historyVars
<1>3. PICK q \in Requests : q = Head(toServer)
  BY <1>1 DEF LinkTypes
<1>4. Answers(q)
  BY <1>3 DEF ServerAnswers, Answers
<1>5. QED
  BY <1>1, <1>2, <1>3, <1>4

(* What a registration does at the server. *)
LEMMA RegistersType ==
    ASSUME ClientTypes, ServerRegisters
    PROVE  /\ regs' \subseteq Remotes /\ home' \in [Appls -> Ids] /\ misled' \subseteq Ids
           /\ \E p \in Arriving :
                 /\ p.type = "REGISTER" /\ p.whole /\ p.msg = 0
                 /\ toClient' = Append(toClient, p)
<1>0. /\ regs \subseteq Remotes /\ home \in [Appls -> Ids] /\ misled \subseteq Ids
      /\ daemon.appl \in Ids
  BY DEF ClientTypes, ServerTypes, DaemonTypes, Daemons
<1>1. ASSUME NEW r \in Ids, NEW ok \in BOOLEAN, Answer("REGISTER", r, ok, 0)
      PROVE  \E p \in Arriving : /\ p.type = "REGISTER" /\ p.whole /\ p.msg = 0
                                /\ toClient' = Append(toClient, p)
  <2>1. Packet("REGISTER", r, ok, 0) \in Arriving
    BY PacketType DEF Types, Jobs
  <2>2. /\ Packet("REGISTER", r, ok, 0).type = "REGISTER"
        /\ Packet("REGISTER", r, ok, 0).whole /\ Packet("REGISTER", r, ok, 0).msg = 0
    BY DEF Packet
  <2>3. QED
    BY <1>1, <2>1, <2>2 DEF Answer
<1>2. ASSUME NEW r \in Remotes \ regs, regs' = regs \cup {r},
             home' = [home EXCEPT ![r] = daemon.appl], misled' = misled \ {r},
             Answer("REGISTER", r, TRUE, 0)
      PROVE  /\ regs' \subseteq Remotes /\ home' \in [Appls -> Ids] /\ misled' \subseteq Ids
             /\ \E p \in Arriving : /\ p.type = "REGISTER" /\ p.whole /\ p.msg = 0
                                   /\ toClient' = Append(toClient, p)
  BY <1>0, <1>1, <1>2, Basics
<1>3. ASSUME NEW r \in LeftBehind, misled' = misled \cup {r}, Answer("REGISTER", r, TRUE, 0),
             UNCHANGED <<regs, home>>
      PROVE  /\ regs' \subseteq Remotes /\ home' \in [Appls -> Ids] /\ misled' \subseteq Ids
             /\ \E p \in Arriving : /\ p.type = "REGISTER" /\ p.whole /\ p.msg = 0
                                   /\ toClient' = Append(toClient, p)
  <2>1. r \in Ids
    BY Basics DEF LeftBehind
  <2>2. QED
    BY <1>0, <1>1, <1>3, <2>1
<1>4. ASSUME Answer("REGISTER", 0, FALSE, 0), UNCHANGED <<regs, home, misled>>
      PROVE  /\ regs' \subseteq Remotes /\ home' \in [Appls -> Ids] /\ misled' \subseteq Ids
             /\ \E p \in Arriving : /\ p.type = "REGISTER" /\ p.whole /\ p.msg = 0
                                   /\ toClient' = Append(toClient, p)
  BY <1>0, <1>1, <1>4, Basics
<1>5. QED
  BY <1>2, <1>3, <1>4 DEF ServerRegisters

(* An answer keeps the types of the server. *)
LEMMA AnswersType ==
    ASSUME ClientTypes, NEW q \in Requests, Answers(q)
    PROVE  /\ toClient' \in Seq(Arriving)
           /\ regs' \subseteq Remotes /\ waits' \in [Ids -> Nat] /\ inbox' \in [Ids -> Seq(Nat)]
           /\ home' \in [Appls -> Ids] /\ misled' \subseteq Ids
<1>0. /\ toClient \in Seq(Arriving) /\ q.appl \in Ids /\ q.type \in Types
      /\ regs \subseteq Remotes /\ waits \in [Ids -> Nat] /\ inbox \in [Ids -> Seq(Nat)]
      /\ home \in [Appls -> Ids] /\ misled \subseteq Ids
  BY DEF ClientTypes, LinkTypes, ServerTypes, Requests
<1>1. ASSUME NEW type \in Types, NEW ok \in BOOLEAN, NEW msg \in Nat,
             Answer(type, q.appl, ok, msg)
      PROVE  toClient' \in Seq(Arriving)
  <2>1. Packet(type, q.appl, ok, msg) \in Arriving
    BY <1>0, PacketType
  <2>2. QED
    BY <1>0, <1>1, <2>1 DEF Answer
<1>2. CASE /\ q.type \in StartJobs \cup {"PUTMESSAGE"}
           /\ \E ok \in BOOLEAN : Answer(q.type, q.appl, ok, 0)
           /\ UNCHANGED <<regs, waits, inbox, home, misled>>
  BY <1>0, <1>1, <1>2
<1>3. CASE ServerRegisters /\ UNCHANGED <<waits, inbox>>
  <2>1. PICK p \in Arriving : toClient' = Append(toClient, p)
    BY <1>3, RegistersType
  <2>2. Append(toClient, p) \in Seq(Arriving)
    BY <1>0
  <2>3. /\ regs' \subseteq Remotes /\ home' \in [Appls -> Ids] /\ misled' \subseteq Ids
    BY <1>3, RegistersType
  <2>4. QED
    BY <1>0, <1>3, <2>1, <2>2, <2>3
<1>4. CASE /\ regs' = regs \ {q.appl}
           /\ inbox' = [inbox EXCEPT ![q.appl] = <<>>]
           /\ Answer("RELEASE", q.appl, TRUE, 0)
           /\ UNCHANGED <<waits, home, misled>>
  <2>1. toClient' \in Seq(Arriving)
    BY <1>1, <1>4 DEF Types, Jobs
  <2>2. QED
    BY <1>0, <1>4, <2>1, Basics
<1>5. CASE /\ waits' = [waits EXCEPT ![q.appl] = @ + 1]
           /\ UNCHANGED <<toClient, regs, inbox, home, misled>>
  BY <1>0, <1>5
<1>6. CASE /\ inbox[q.appl] # <<>>
           /\ Answer("GETMESSAGE", q.appl, TRUE, Head(inbox[q.appl]))
           /\ inbox' = [inbox EXCEPT ![q.appl] = Tail(@)]
           /\ UNCHANGED <<regs, waits, home, misled>>
  <2>1. inbox[q.appl] \in Seq(Nat)
    BY <1>0
  <2>2. Head(inbox[q.appl]) \in Nat /\ Tail(inbox[q.appl]) \in Seq(Nat)
    BY <1>6, <2>1
  <2>3. toClient' \in Seq(Arriving)
    BY <1>1, <1>6, <2>2 DEF Types
  <2>4. QED
    BY <1>0, <1>6, <2>2, <2>3
<1>7. CASE Answer("GETMESSAGE", q.appl, TRUE, 0) /\ UNCHANGED <<regs, waits, inbox, home, misled>>
  <2>1. toClient' \in Seq(Arriving)
    BY <1>1, <1>7 DEF Types
  <2>2. QED
    BY <1>0, <1>7, <2>1
<1>8. QED
  BY <1>2, <1>3, <1>4, <1>5, <1>6, <1>7 DEF Answers

(* The steps of the server keep the types, and do not touch the daemon. *)
LEMMA ServerBase ==
    ASSUME BaseInv, ServerStep \/ ServerCloses \/ \E r \in Remotes : MessageArrives(r)
    PROVE  ClientTypes' /\ Positions' /\ Local'
<1>0. ClientTypes /\ DaemonTypes /\ LinkTypes /\ ServerTypes /\ HistoryTypes /\ Positions /\ Local
  BY DEF BaseInv, ClientTypes
<1>1. UNCHANGED <<daemon, file, recvbuffer, applmap_rtl, applmap_ltr, c2p_shutdown>>
  BY DEF ServerStep, ServerAnswers, ServerWakes, ServerCloses, MessageArrives, daemonVars, vars
<1>2. Positions' /\ Local' /\ DaemonTypes'
  BY <1>0, <1>1 DEF Positions, Local, DaemonTypes
<1>3. CASE ServerAnswers
  <2>1. PICK q \in Requests : Answers(q)
    BY <1>0, <1>3, ServerAnswersCases
  <2>2. /\ toServer # <<>> /\ toServer' = Tail(toServer)
        /\ UNCHANGED <<link, sent, polls, last, again, swallowed>>
    BY <1>0, <1>3, ServerAnswersCases
  <2>3. toServer' \in Seq(Requests)
    BY <1>0, <2>2 DEF LinkTypes
  <2>4. QED
    BY <1>0, <1>2, <2>1, <2>2, <2>3, AnswersType
       DEF ClientTypes, LinkTypes, ServerTypes, HistoryTypes
<1>4. ASSUME NEW r \in Ids, ServerWakes(r)
      PROVE  ClientTypes' /\ Positions' /\ Local'
  <2>1. Packet("WAITFORSIGNAL", r, TRUE, 0) \in Arriving
    BY PacketType DEF Types
  <2>2. toClient' \in Seq(Arriving)
    <3>1. PICK p \in Arriving : p = Packet("WAITFORSIGNAL", r, TRUE, 0)
      BY <2>1
    <3>2. toClient' = Append(toClient, p) /\ toClient \in Seq(Arriving)
      BY <1>0, <1>4, <3>1 DEF ServerWakes, Answer, LinkTypes
    <3>3. QED
      BY <3>2
  <2>3. waits' \in [Ids -> Nat]
    BY <1>0, <1>4 DEF ServerWakes, ServerTypes
  <2>4. QED
    BY <1>0, <1>2, <1>4, <2>2, <2>3
       DEF ServerWakes, ClientTypes, LinkTypes, ServerTypes, HistoryTypes, historyVars
<1>5. ASSUME NEW r \in Remotes, MessageArrives(r)
      PROVE  ClientTypes' /\ Positions' /\ Local'
  <2>1. inbox[r] \in Seq(Nat) /\ sent + 1 \in Nat
    BY <1>0, Basics DEF ServerTypes
  <2>2. Append(inbox[r], sent + 1) \in Seq(Nat)
    BY <2>1
  <2>3. inbox' \in [Ids -> Seq(Nat)] /\ sent' \in Nat
    BY <1>0, <1>5, <2>1, <2>2 DEF MessageArrives, ServerTypes
  <2>4. QED
    BY <1>0, <1>2, <1>5, <2>3
       DEF MessageArrives, ClientTypes, LinkTypes, ServerTypes, HistoryTypes, linkVars,
           historyVars
<1>6. CASE ServerCloses
  <2>1. LinkTypes' /\ ServerTypes' /\ HistoryTypes'
    BY <1>0, <1>6, Basics DEF ServerCloses, LinkTypes, ServerTypes, HistoryTypes
  <2>2. QED
    BY <1>2, <2>1 DEF ClientTypes
<1>7. QED
  BY <1>3, <1>4, <1>5, <1>6 DEF ServerStep

(* BaseInv is inductive. *)
LEMMA BaseStep ==
    ASSUME BaseInv, [ClientNext]_allVars
    PROVE  BaseInv'
<1>1. TypeOK'
  BY KernelStep, NextType DEF BaseInv
<1>2. MsgsSound'
  BY SoundKept
<1>3. ClientTypes' /\ Positions' /\ Local'
  <2>1. ASSUME UNCHANGED clientVars, file' = file
        PROVE  ClientTypes' /\ Positions' /\ Local'
    BY <2>1 DEF BaseInv, ClientTypes, DaemonTypes, LinkTypes, ServerTypes, HistoryTypes,
                Positions, Local, clientVars, daemonVars, linkVars, serverVars, historyVars
  <2>2. CASE UNCHANGED allVars
    BY <2>1, <2>2 DEF allVars, vars
  <2>3. CASE ModuleStep
    <3>1. file' = file
      BY <2>3, KcapiCallsQuiet, CallStepSound DEF BaseInv, ModuleStep
    <3>2. QED
      BY <2>1, <2>3, <3>1 DEF ModuleStep
  <2>4. QED
    BY <2>2, <2>3, InitModuleBase, WaitBase, PollSocketBase, RegisterBase, OpenReportBase,
       ReadNodeBase, ShutdownBase, ServerBase DEF ClientNext, DaemonStep
<1>4. QED
  BY <1>1, <1>2, <1>3 DEF BaseInv

(* All states of the client are well typed: in particular the daemon never *)
(* makes two system calls on the device at a time, whatever arrives while  *)
(* it waits for an answer.                                                 *)
THEOREM DaemonTypeCorrect == ClientSpec => []DaemonTypeOK
BY InitBase, BaseStep, BaseImplies, PTL DEF ClientSpec

(* Whatever the daemon does with the device and whatever the server sends, *)
(* the kernel module in it does what the module by itself may do.  So all  *)
(* that is proved of the module holds while a daemon uses it.              *)
THEOREM ModuleImplemented == ClientSpec => Spec
<1>1. ClientInit => Init
  BY DEF ClientInit
<1>2. BaseInv /\ [ClientNext]_allVars => [Next]_vars
  BY KernelStep
<1>3. QED
  BY <1>1, <1>2, InitBase, BaseStep, PTL DEF ClientSpec, Spec

-----------------------------------------------------------------------------
(* The steps of the system while the connection stands. *)

(* Neither the connection nor the server nor the number map is touched;    *)
(* the daemon does not move, or moves where it is not registering.         *)
Quiet ==
    /\ UNCHANGED <<toServer, toClient, regs, waits, inbox, sent, home, misled, polls, last,
                   again, swallowed, applmap_rtl>>
    /\ \/ UNCHANGED <<daemon, recvbuffer>>
       \/ ~ Registering /\ ~ Registering' /\ daemon'.job = daemon.job

(* The daemon makes a request. *)
Asks(job, appl) ==
    /\ ~ Registering
    /\ toServer' = Append(toServer, [type |-> job, appl |-> appl])
    /\ daemon'.pc = "wait" /\ daemon'.job = job
    /\ job = "HELO" => daemon.job = "HELO"
    /\ UNCHANGED <<toClient, regs, waits, inbox, sent, home, misled, polls, last,
                   again, swallowed, applmap_rtl>>

(* It takes packet p, and swallows those behind it up to the n-th. *)
Takes(p, n) ==
    /\ toClient # <<>> /\ p = Head(toClient) /\ recvbuffer' = p
    /\ toClient' = SubSeq(toClient, n + 1, Len(toClient))
    /\ swallowed' = (swallowed \/ n > 1)
    /\ UNCHANGED <<regs, waits, inbox, sent, home, misled, polls, applmap_rtl>>

(* The packet is the answer it waits for. *)
Finishes(p) ==
    /\ daemon.pc = "wait" /\ (daemon.job = "HELO" \/ p.type = daemon.job)
    /\ daemon'.pc = AfterWait(daemon.job)
    /\ daemon'.job = daemon.job /\ daemon'.appl = daemon.appl
    /\ UNCHANGED <<toServer, last, again>>

(* The packet is no answer. *)
Handles(p) ==
    /\ \/ daemon.pc = "wait" /\ daemon.job # "HELO" /\ p.type # daemon.job /\ daemon' = daemon
       \/ daemon.pc = "loop" /\ daemon'.pc = "read" /\ daemon'.job = daemon.job
    /\ \/ /\ p.type = "WAITFORSIGNAL"
          /\ toServer' = Append(toServer, [type |-> "GETMESSAGE", appl |-> p.appl])
          /\ UNCHANGED <<last, again>>
       \/ /\ p.type = "GETMESSAGE"
          /\ toServer' = Append(toServer, [type |-> "WAITFORSIGNAL", appl |-> p.appl])
          /\ send_to_module(p)
       \/ /\ p.type \notin {"WAITFORSIGNAL", "GETMESSAGE"}
          /\ UNCHANGED <<toServer, last, again>>

(* A packet that is handled while the connection stands. *)
LEMMA HandlesCases ==
    ASSUME BaseInv, link = "up", NEW p \in Arriving, NEW next \in Daemons,
           handle_serverpacket(p, next)
    PROVE  /\ link' = "up" /\ daemon' = next
           /\ \/ /\ p.type = "WAITFORSIGNAL"
                 /\ toServer' = Append(toServer, [type |-> "GETMESSAGE", appl |-> p.appl])
                 /\ UNCHANGED <<last, again>>
              \/ /\ p.type = "GETMESSAGE"
                 /\ toServer' = Append(toServer, [type |-> "WAITFORSIGNAL", appl |-> p.appl])
                 /\ send_to_module(p)
              \/ /\ p.type \notin {"WAITFORSIGNAL", "GETMESSAGE"}
                 /\ UNCHANGED <<toServer, last, again>>
<1>0. DaemonTypes /\ LinkTypes /\ p.appl \in Ids /\ p.whole
      /\ "WAITFORSIGNAL" \in Types /\ "GETMESSAGE" \in Types
  BY DEF BaseInv, ClientTypes, Arriving, Packets, Types
<1>1. CASE p.type = "WAITFORSIGNAL" /\ remote_get_message(p.appl, next) /\ UNCHANGED <<last, again>>
  BY <1>0, <1>1, SendType DEF remote_get_message
<1>2. CASE p.type = "GETMESSAGE" /\ send_to_module(p) /\ remote_waitforsignal(p.appl, next)
  BY <1>0, <1>2, SendType DEF remote_waitforsignal
<1>3. CASE /\ p.type \notin {"WAITFORSIGNAL", "GETMESSAGE"}
           /\ daemon' = next /\ UNCHANGED <<link, toServer, last, again>>
  BY <1>3
<1>4. QED
  BY <1>0, <1>1, <1>2, <1>3 DEF handle_serverpacket

(* The steps of the daemon while the connection stands. *)
LEMMA SocketCases ==
    ASSUME BaseInv, link = "up", wait_for_answer \/ PollSocket
    PROVE  \E p \in Arriving, n \in 1 .. Len(toClient) : Takes(p, n) /\ (Finishes(p) \/ Handles(p))
<1>0. DaemonTypes /\ LinkTypes /\ HistoryTypes /\ daemon \in Daemons
  BY DEF BaseInv, ClientTypes, DaemonTypes
<1>1. Receives
  BY DEF wait_for_answer, PollSocket, AtEnd, Fails
<1>2. PICK p \in Arriving : p = Head(toClient)
  BY <1>0, <1>1, ReceiveType
<1>3. PICK n \in 1 .. Len(toClient) :
        /\ toClient' = SubSeq(toClient, n + 1, Len(toClient))
        /\ swallowed' = (swallowed \/ n > 1)
  BY <1>0, <1>1, ReceiveType
<1>4. Takes(p, n)
  <2>1. UNCHANGED <<regs, waits, inbox, sent, home, misled, polls, applmap_rtl>>
    BY DEF wait_for_answer, PollSocket, serverVars
  <2>2. QED
    BY <1>0, <1>1, <1>2, <1>3, <2>1, ReceiveType DEF Takes
<1>5. CASE wait_for_answer
  <2>1. CASE /\ daemon.job = "HELO" \/ Head(toClient).type = daemon.job
             /\ daemon' = [daemon EXCEPT !.pc = AfterWait(daemon.job)]
             /\ UNCHANGED <<link, toServer, last, again>>
    <3>1. AfterWait(daemon.job) \in DaemonPcs
      BY DEF AfterWait, DaemonPcs
    <3>2. Finishes(p)
      BY <1>0, <1>2, <1>5, <2>1, <3>1, MoveType DEF Finishes, wait_for_answer
    <3>3. QED
      BY <1>4, <3>2
  <2>2. CASE /\ daemon.job # "HELO" /\ Head(toClient).type # daemon.job
             /\ handle_serverpacket(Head(toClient), daemon)
    <3>1. handle_serverpacket(p, daemon)
      BY <1>2, <2>2
    <3>2. Handles(p)
      BY <1>0, <1>2, <1>5, <2>2, <3>1, HandlesCases DEF Handles, wait_for_answer
    <3>3. QED
      BY <1>4, <3>2
  <2>3. QED
    BY <1>5, <2>1, <2>2 DEF wait_for_answer, AtEnd, Fails
<1>6. CASE PollSocket
  <2>1. handle_serverpacket(p, [daemon EXCEPT !.pc = "read"]) /\ daemon.pc = "loop"
    BY <1>2, <1>6 DEF PollSocket, AtEnd, Fails
  <2>2. /\ [daemon EXCEPT !.pc = "read"] \in Daemons
        /\ [daemon EXCEPT !.pc = "read"].pc = "read"
        /\ [daemon EXCEPT !.pc = "read"].job = daemon.job
    BY <1>0, MoveType DEF DaemonPcs
  <2>3. Handles(p)
    BY <2>1, <2>2, HandlesCases DEF Handles
  <2>4. QED
    BY <1>4, <2>3
<1>7. QED
  BY <1>5, <1>6

(* A request made while the daemon registers nothing. *)
LEMMA AskCases ==
    ASSUME BaseInv, link = "up", ~ Registering, NEW job \in Jobs, NEW appl \in Ids, NEW local,
           job = "HELO" => daemon.job = "HELO",
           Ask(job, appl, local),
           UNCHANGED <<toClient, regs, waits, inbox, sent, home, misled, polls, last,
                       again, swallowed, applmap_rtl>>
    PROVE  Asks(job, appl)
BY DEF Asks, Ask, Send

(* Start-up and reading the device. *)
LEMMA RequestCases ==
    ASSUME BaseInv, link = "up", init_module \/ ReadNode
    PROVE  Quiet \/ \E job \in Jobs, appl \in Ids : Asks(job, appl)
<1>0. DaemonTypes /\ Local /\ daemon \in Daemons /\ 0 \in Ids
  BY Basics DEF BaseInv, ClientTypes, DaemonTypes
<1>1. UNCHANGED <<toClient, regs, waits, inbox, sent, home, misled, polls, last,
                  again, swallowed, applmap_rtl>>
  BY DEF init_module, ReadNode, serverVars, historyVars
<1>2. ASSUME ~ Registering, NEW pc \in DaemonPcs \ {"wait", "done"},
             daemon' = [daemon EXCEPT !.pc = pc], UNCHANGED toServer
      PROVE  Quiet
  <2>1. daemon'.pc = pc /\ daemon'.job = daemon.job
    BY <1>0, <1>2, MoveType
  <2>2. QED
    BY <1>1, <1>2, <2>1 DEF Quiet, Registering
<1>3. CASE init_module
  <2>1. ~ Registering
    BY <1>3, <1>0 DEF init_module, Registering, StartJobs
  <2>2. CASE UNCHANGED toServer
    <3>1. PICK pc \in {"open", "nodevice"} : daemon' = [daemon EXCEPT !.pc = pc]
      BY <1>3, <2>2 DEF init_module, init_socket, remote_get_manufacturer, remote_get_version,
                        remote_get_serial, remote_get_profile, Ask, Send, BaseInv, ClientTypes,
                        LinkTypes
    <3>2. QED
      BY <1>2, <2>1, <2>2, <3>1 DEF DaemonPcs
  <2>3. ASSUME NEW job \in StartJobs, Ask(job, 0, 0), job = "HELO" => daemon.job = "HELO"
        PROVE  \E j \in Jobs, appl \in Ids : Asks(j, appl)
    <3>1. job \in Jobs
      BY DEF Jobs
    <3>2. QED
      BY <1>0, <1>1, <2>1, <2>3, <3>1, AskCases
  <2>4. QED
    BY <1>0, <1>3, <2>2, <2>3
       DEF init_module, init_socket, remote_get_manufacturer, remote_get_version,
           remote_get_serial, remote_get_profile, StartJobs, Local
<1>4. CASE ReadNode
  <2>1. CASE /\ Polled
             /\ daemon' = IF file'[node].pc = "idle" THEN Loop ELSE [daemon EXCEPT !.pc = "reading"]
             /\ UNCHANGED toServer
    <3>1. ~ Registering
      BY <2>1 DEF Polled, Registering
    <3>2. PICK pc \in {"loop", "reading"} : daemon' = [daemon EXCEPT !.pc = pc]
      BY <2>1 DEF Loop
    <3>3. QED
      BY <1>2, <2>1, <3>1, <3>2 DEF DaemonPcs
  <2>2. CASE UNCHANGED <<daemon, recvbuffer, toServer>>
    BY <1>1, <2>2 DEF Quiet
  <2>3. CASE daemon.pc = "reading" /\ Dispatch(file[node].msg)
    <3>0. ~ Registering
      BY <2>3 DEF Registering
    <3>1. PICK m \in Sound : m = file[node].msg
      BY DEF BaseInv, MsgsSound
    <3>2. m.appl \in Ids /\ applmap_ltr[m.appl] \in Ids
      BY <1>0 DEF Sound, Msgs, Ids, DaemonTypes
    <3>3. ASSUME NEW job \in {"REGISTER", "RELEASE", "PUTMESSAGE"}, NEW appl \in Ids,
                 Ask(job, appl, m.appl)
          PROVE  \E j \in Jobs, a \in Ids : Asks(j, a)
      <4>1. job \in Jobs /\ job # "HELO"
        BY <3>3 DEF Jobs
      <4>2. QED
        BY <1>1, <3>0, <3>3, <4>1, AskCases
    <3>4. CASE daemon' = Loop /\ UNCHANGED <<link, toServer>>
      BY <1>2, <3>0, <3>4 DEF Loop, DaemonPcs
    <3>5. Dispatch(m)
      BY <2>3, <3>1
    <3>6. QED
      BY <1>0, <3>2, <3>3, <3>4, <3>5
         DEF Dispatch, remote_register_appl, local_release_appl, remote_release_appl,
             send_to_server
  <2>4. QED
    BY <1>4, <2>1, <2>2, <2>3 DEF ReadNode
<1>5. QED
  BY <1>3, <1>4

(* All of them. *)
LEMMA UpCases ==
    ASSUME BaseInv, [ClientNext]_allVars, link' = "up"
    PROVE  /\ link = "up"
           /\ \/ Quiet
              \/ \E job \in Jobs, appl \in Ids : Asks(job, appl)
              \/ \E p \in Arriving, n \in 1 .. Len(toClient) :
                    Takes(p, n) /\ (Finishes(p) \/ Handles(p))
              \/ local_register_appl
              \/ ServerAnswers
              \/ \E r \in Ids : ServerWakes(r)
              \/ \E r \in Remotes : MessageArrives(r)
<1>0. DaemonTypes /\ LinkTypes /\ HistoryTypes /\ daemon \in Daemons
  BY DEF BaseInv, ClientTypes, DaemonTypes
<1>1. CASE UNCHANGED allVars \/ ModuleStep \/ sighandler
  BY <1>1 DEF Quiet, ModuleStep, sighandler, allVars, clientVars, daemonVars, linkVars,
              serverVars, historyVars
<1>2. CASE OpenNode \/ Report
  <2>1. /\ UNCHANGED <<link, toServer, toClient, regs, waits, inbox, sent, home, misled, polls,
                       last, again, swallowed, applmap_rtl, recvbuffer>>
    BY <1>2 DEF OpenNode, Report, linkVars, serverVars, historyVars
  <2>2. \/ UNCHANGED daemon
        \/ /\ daemon.pc \in {"open", "set", "registered", "regfail"}
           /\ \E pc \in {"set", "loop"} : daemon' = [daemon EXCEPT !.pc = pc]
    BY <1>2 DEF OpenNode, Report, Loop
  <2>3. ASSUME daemon.pc \in {"open", "set", "registered", "regfail"}, NEW pc \in {"set", "loop"},
               daemon' = [daemon EXCEPT !.pc = pc]
        PROVE  ~ Registering /\ ~ Registering' /\ daemon'.job = daemon.job
    <3>1. daemon'.pc = pc /\ daemon'.job = daemon.job
      BY <1>0, <2>3, MoveType DEF DaemonPcs
    <3>2. QED
      BY <2>3, <3>1 DEF Registering
  <2>4. QED
    BY <2>1, <2>2, <2>3 DEF Quiet
<1>3. CASE Shutdown
  <2>1. /\ UNCHANGED <<link, toServer, toClient, regs, waits, inbox, sent, home, misled, polls,
                       last, again, swallowed, applmap_rtl, recvbuffer>>
    BY <1>3 DEF Shutdown, Forget, linkVars, serverVars, historyVars
  <2>2. UNCHANGED daemon \/ (daemon.pc = "loop" /\ daemon' = [daemon EXCEPT !.pc = "close"])
    BY <1>3 DEF Shutdown, Forget
  <2>3. ASSUME daemon.pc = "loop", daemon' = [daemon EXCEPT !.pc = "close"]
        PROVE  ~ Registering /\ ~ Registering' /\ daemon'.job = daemon.job
    <3>1. daemon'.pc = "close" /\ daemon'.job = daemon.job
      BY <1>0, <2>3, MoveType DEF DaemonPcs
    <3>2. QED
      BY <2>3, <3>1 DEF Registering
  <2>4. QED
    BY <2>1, <2>2, <2>3 DEF Quiet
<1>4. ASSUME wait_for_answer \/ PollSocket \/ init_module \/ ReadNode \/ local_register_appl
      PROVE  link = "up"
  <2>1. CASE wait_for_answer
    <3>1. handle_serverpacket(Head(toClient), daemon) /\ Receives => link = "up"
      BY <1>0, ReceiveType, HandleType
    <3>2. QED
      BY <2>1, <3>1 DEF wait_for_answer, linkVars, Fails
  <2>2. CASE PollSocket
    <3>1. [daemon EXCEPT !.pc = "read"] \in Daemons
      BY <1>0, MoveType DEF DaemonPcs
    <3>2. \A p \in Packets : handle_serverpacket(p, [daemon EXCEPT !.pc = "read"]) => link = "up"
      BY <1>0, <3>1, HandleType
    <3>3. QED
      BY <1>0, <2>2, <3>2, ReceiveType, StaleType DEF PollSocket, Fails
  <2>3. CASE init_module \/ ReadNode \/ local_register_appl
    BY <2>3 DEF init_module, ReadNode, local_register_appl, init_socket, remote_get_manufacturer,
                remote_get_version, remote_get_serial, remote_get_profile, Dispatch,
                remote_register_appl, local_release_appl, remote_release_appl, send_to_server,
                remote_waitforsignal, Ask, Send
  <2>4. QED
    BY <1>4, <2>1, <2>2, <2>3
<1>5. CASE ServerStep \/ ServerCloses \/ \E r \in Remotes : MessageArrives(r)
  BY <1>5 DEF ServerStep, ServerAnswers, ServerWakes, ServerCloses, MessageArrives, linkVars
<1>6. QED
  BY <1>1, <1>2, <1>3, <1>4, <1>5, SocketCases, RequestCases DEF ClientNext, DaemonStep

-----------------------------------------------------------------------------
(* Messages of an application come in the order of their numbers: the last *)
(* one given to the module, those on their way, those at the server.       *)

Carries(p, r) == p.appl = r /\ p.msg # 0

Ascending(arriving, waiting, given, newest, r) ==
    /\ given <= newest
    /\ \A i \in 1 .. Len(arriving) : Carries(arriving[i], r) =>
          given < arriving[i].msg /\ arriving[i].msg <= newest
    /\ \A i, j \in 1 .. Len(arriving) :
          i < j /\ Carries(arriving[i], r) /\ Carries(arriving[j], r)
          => arriving[i].msg < arriving[j].msg
    /\ \A i \in 1 .. Len(arriving), j \in 1 .. Len(waiting) :
          Carries(arriving[i], r) => arriving[i].msg < waiting[j]
    /\ \A j \in 1 .. Len(waiting) : given < waiting[j] /\ waiting[j] <= newest
    /\ \A i, j \in 1 .. Len(waiting) : i < j => waiting[i] < waiting[j]

(* A packet without a message for the application changes nothing. *)
LEMMA AscendingOther ==
    ASSUME NEW q \in Seq(Arriving), NEW box \in Seq(Nat), NEW g \in Nat, NEW s \in Nat, NEW r,
           NEW p \in Arriving, ~ Carries(p, r), Ascending(q, box, g, s, r)
    PROVE  Ascending(Append(q, p), box, g, s, r)
<1>1. /\ Len(Append(q, p)) = Len(q) + 1 /\ Len(q) \in Nat
      /\ \A i \in 1 .. Len(q) : Append(q, p)[i] = q[i]
      /\ Append(q, p)[Len(q) + 1] = p
  OBVIOUS
<1>2. \A i \in 1 .. Len(Append(q, p)) : Carries(Append(q, p)[i], r) =>
        i \in 1 .. Len(q) /\ Append(q, p)[i] = q[i]
  BY <1>1
<1> HIDE DEF Carries
<1>3. QED
  BY <1>1, <1>2 DEF Ascending

(* The first message at the server is sent. *)
LEMMA AscendingFetch ==
    ASSUME NEW q \in Seq(Arriving), NEW box \in Seq(Nat), NEW g \in Nat, NEW s \in Nat, NEW r,
           NEW p \in Arriving, box # <<>>, p.msg = Head(box), Ascending(q, box, g, s, r)
    PROVE  Ascending(Append(q, p), Tail(box), g, s, r)
<1>1. /\ Len(Append(q, p)) = Len(q) + 1 /\ Len(q) \in Nat
      /\ \A i \in 1 .. Len(q) : Append(q, p)[i] = q[i]
      /\ Append(q, p)[Len(q) + 1] = p
  OBVIOUS
<1>2. /\ Len(box) \in Nat /\ Len(box) >= 1 /\ Len(Tail(box)) = Len(box) - 1
      /\ Tail(box) \in Seq(Nat) /\ Head(box) = box[1]
      /\ \A j \in 1 .. Len(Tail(box)) : Tail(box)[j] = box[j + 1]
      /\ \A j \in 1 .. Len(box) : box[j] \in Nat
  OBVIOUS
<1>3. \A i \in 1 .. Len(q) : q[i] \in Arriving /\ q[i].msg \in Nat
  <2> TAKE i \in 1 .. Len(q)
  <2>1. q[i] \in Arriving
    OBVIOUS
  <2>2. QED
    BY <2>1 DEF Arriving, Packets
<1>4. p.msg = box[1] /\ box[1] \in Nat /\ g < box[1] /\ box[1] <= s
  BY <1>2 DEF Ascending
<1>5. \A j \in 1 .. Len(Tail(box)) : /\ box[1] < Tail(box)[j]
                                     /\ g < Tail(box)[j] /\ Tail(box)[j] <= s
  <2> TAKE j \in 1 .. Len(Tail(box))
  <2>1. j + 1 \in 1 .. Len(box) /\ 1 \in 1 .. Len(box) /\ 1 < j + 1
    BY <1>2
  <2>2. QED
    BY <1>2, <2>1 DEF Ascending
<1>6. \A i, j \in 1 .. Len(Tail(box)) : i < j => Tail(box)[i] < Tail(box)[j]
  <2> SUFFICES ASSUME NEW i \in 1 .. Len(Tail(box)), NEW j \in 1 .. Len(Tail(box)), i < j
               PROVE  Tail(box)[i] < Tail(box)[j]
    OBVIOUS
  <2>1. i + 1 \in 1 .. Len(box) /\ j + 1 \in 1 .. Len(box) /\ i + 1 < j + 1
    BY <1>2
  <2>2. QED
    BY <1>2, <2>1 DEF Ascending
<1>7. \A i \in 1 .. Len(q) : Carries(q[i], r) =>
        /\ g < q[i].msg /\ q[i].msg <= s /\ q[i].msg < box[1]
        /\ \A j \in 1 .. Len(Tail(box)) : q[i].msg < Tail(box)[j]
  <2> SUFFICES ASSUME NEW i \in 1 .. Len(q), Carries(q[i], r)
               PROVE  /\ g < q[i].msg /\ q[i].msg <= s /\ q[i].msg < box[1]
                      /\ \A j \in 1 .. Len(Tail(box)) : q[i].msg < Tail(box)[j]
    OBVIOUS
  <2>1. \A j \in 1 .. Len(box) : q[i].msg < box[j]
    BY DEF Ascending
  <2>2. 1 \in 1 .. Len(box) /\ \A j \in 1 .. Len(Tail(box)) : j + 1 \in 1 .. Len(box)
    BY <1>2
  <2>3. QED
    BY <1>2, <2>1, <2>2 DEF Ascending
<1>8. \A i, j \in 1 .. Len(q) : i < j /\ Carries(q[i], r) /\ Carries(q[j], r) => q[i].msg < q[j].msg
  BY DEF Ascending
<1>9. g <= s
  BY DEF Ascending
<1> HIDE DEF Carries
<1>a. PICK a \in Seq(Arriving), b \in Seq(Nat) : a = Append(q, p) /\ b = Tail(box)
  <2>1. Append(q, p) \in Seq(Arriving)
    OBVIOUS
  <2>2. QED
    BY <1>2, <2>1
<1>b. \A i \in 1 .. Len(a) :
        \/ i \in 1 .. Len(q) /\ a[i] = q[i]
        \/ i = Len(q) + 1 /\ a[i] = p
  BY <1>1, <1>a
<1>c. \A i \in 1 .. Len(a) : Carries(a[i], r) => g < a[i].msg /\ a[i].msg <= s
  BY <1>4, <1>7, <1>b
<1>d. \A i, j \in 1 .. Len(a) : i < j /\ Carries(a[i], r) /\ Carries(a[j], r) => a[i].msg < a[j].msg
  <2> SUFFICES ASSUME NEW i \in 1 .. Len(a), NEW j \in 1 .. Len(a), i < j,
                      Carries(a[i], r), Carries(a[j], r)
               PROVE  a[i].msg < a[j].msg
    OBVIOUS
  <2>1. i \in 1 .. Len(q) /\ a[i] = q[i]
    BY <1>1, <1>a, <1>b
  <2>2. QED
    BY <1>4, <1>7, <1>8, <1>b, <2>1
<1>e. \A i \in 1 .. Len(a), j \in 1 .. Len(b) : Carries(a[i], r) => a[i].msg < b[j]
  BY <1>4, <1>5, <1>7, <1>a, <1>b
<1>f. /\ \A j \in 1 .. Len(b) : g < b[j] /\ b[j] <= s
      /\ \A i, j \in 1 .. Len(b) : i < j => b[i] < b[j]
  BY <1>5, <1>6, <1>a
<1>g. Ascending(a, b, g, s, r)
  BY <1>9, <1>c, <1>d, <1>e, <1>f DEF Ascending
<1>h. QED
  BY <1>a, <1>g

(* Packets are taken, and the first of them is given to the module or not. *)
LEMMA AscendingTake ==
    ASSUME NEW q \in Seq(Arriving), NEW box \in Seq(Nat), NEW g \in Nat, NEW s \in Nat, NEW r,
           q # <<>>, NEW n \in 1 .. Len(q), Ascending(q, box, g, s, r)
    PROVE  /\ Ascending(SubSeq(q, n + 1, Len(q)), box, g, s, r)
           /\ Carries(Head(q), r) => /\ g < Head(q).msg
                                     /\ Ascending(SubSeq(q, n + 1, Len(q)), box, Head(q).msg, s, r)
<1>1. PICK a : a = SubSeq(q, n + 1, Len(q))
  OBVIOUS
<1>2. /\ Len(q) \in Nat /\ Len(q) >= 1 /\ n \in Nat /\ n >= 1 /\ n <= Len(q)
      /\ Len(a) = Len(q) - n
      /\ \A i \in 1 .. Len(a) : a[i] = q[i + n] /\ i + n \in 1 .. Len(q) /\ 1 < i + n
  <2>1. Len(q) \in Nat /\ Len(q) >= 1 /\ n \in Nat /\ n >= 1 /\ n <= Len(q)
    OBVIOUS
  <2>2. Len(a) = Len(q) - n /\ \A i \in 1 .. Len(a) : a[i] = q[i + n]
    BY <1>1, <2>1, SubSeqProperties
  <2>3. QED
    BY <2>1, <2>2
<1>3. \A i \in 1 .. Len(q) : q[i].msg \in Nat
  <2> TAKE i \in 1 .. Len(q)
  <2>1. q[i] \in Arriving
    OBVIOUS
  <2>2. QED
    BY <2>1 DEF Arriving, Packets
<1> HIDE DEF Carries
<1>4. \A i \in 1 .. Len(a) : Carries(a[i], r) => g < a[i].msg /\ a[i].msg <= s
  BY <1>2 DEF Ascending
<1>5. \A i, j \in 1 .. Len(a) : i < j /\ Carries(a[i], r) /\ Carries(a[j], r) => a[i].msg < a[j].msg
  <2> SUFFICES ASSUME NEW i \in 1 .. Len(a), NEW j \in 1 .. Len(a), i < j,
                      Carries(a[i], r), Carries(a[j], r)
               PROVE  a[i].msg < a[j].msg
    OBVIOUS
  <2>1. i + n \in 1 .. Len(q) /\ j + n \in 1 .. Len(q) /\ i + n < j + n
        /\ a[i] = q[i + n] /\ a[j] = q[j + n]
    BY <1>2
  <2>2. QED
    BY <2>1 DEF Ascending
<1>6. \A i \in 1 .. Len(a), j \in 1 .. Len(box) : Carries(a[i], r) => a[i].msg < box[j]
  BY <1>2 DEF Ascending
<1>7. Ascending(a, box, g, s, r)
  BY <1>4, <1>5, <1>6 DEF Ascending
<1>8. ASSUME Carries(Head(q), r)
      PROVE  g < Head(q).msg /\ Ascending(a, box, Head(q).msg, s, r)
  <2>1. Head(q) = q[1] /\ 1 \in 1 .. Len(q) /\ Carries(q[1], r)
    BY <1>2, <1>8
  <2>2. g < q[1].msg /\ q[1].msg <= s /\ q[1].msg \in Nat
    BY <1>3, <2>1 DEF Ascending
  <2>3. \A i \in 1 .. Len(a) : Carries(a[i], r) => q[1].msg < a[i].msg /\ a[i].msg <= s
    BY <1>2, <1>4, <2>1 DEF Ascending
  <2>4. \A j \in 1 .. Len(box) : q[1].msg < box[j] /\ box[j] <= s
    BY <2>1 DEF Ascending
  <2>5. Ascending(a, box, q[1].msg, s, r)
    BY <1>5, <1>6, <2>2, <2>3, <2>4 DEF Ascending
  <2>6. QED
    BY <2>1, <2>2, <2>5
<1>9. QED
  BY <1>1, <1>7, <1>8

(* A message arrives, here or elsewhere; a release clears the box. *)
LEMMA AscendingArrive ==
    ASSUME NEW q \in Seq(Arriving), NEW box \in Seq(Nat), NEW g \in Nat, NEW s \in Nat, NEW r,
           Ascending(q, box, g, s, r)
    PROVE  /\ Ascending(q, box, g, s + 1, r)
           /\ Ascending(q, Append(box, s + 1), g, s + 1, r)
           /\ Ascending(q, <<>>, g, s, r)
<1>1. \A i \in 1 .. Len(q) : q[i].msg \in Nat
  <2> TAKE i \in 1 .. Len(q)
  <2>1. q[i] \in Arriving
    OBVIOUS
  <2>2. QED
    BY <2>1 DEF Arriving, Packets
<1>2. PICK b : b = Append(box, s + 1)
  OBVIOUS
<1>3. /\ Len(box) \in Nat /\ Len(b) = Len(box) + 1
      /\ \A j \in 1 .. Len(b) : \/ j \in 1 .. Len(box) /\ b[j] = box[j] /\ box[j] \in Nat
                                \/ j = Len(box) + 1 /\ b[j] = s + 1
  BY <1>2
<1> HIDE DEF Carries
<1>4. Ascending(q, box, g, s + 1, r)
  BY <1>1 DEF Ascending
<1>5. Ascending(q, b, g, s + 1, r)
  <2>1. \A i \in 1 .. Len(q), j \in 1 .. Len(b) : Carries(q[i], r) => q[i].msg < b[j]
    <3> SUFFICES ASSUME NEW i \in 1 .. Len(q), NEW j \in 1 .. Len(b), Carries(q[i], r)
                 PROVE  q[i].msg < b[j]
      OBVIOUS
    <3>1. q[i].msg \in Nat /\ q[i].msg <= s
      BY <1>1 DEF Ascending
    <3>2. CASE j \in 1 .. Len(box) /\ b[j] = box[j]
      BY <3>2 DEF Ascending
    <3>3. CASE b[j] = s + 1
      BY <3>1, <3>3
    <3>4. QED
      BY <1>3, <3>2, <3>3
  <2>2. \A j \in 1 .. Len(b) : g < b[j] /\ b[j] <= s + 1
    <3> TAKE j \in 1 .. Len(b)
    <3>1. CASE j \in 1 .. Len(box) /\ b[j] = box[j] /\ box[j] \in Nat
      BY <3>1 DEF Ascending
    <3>2. CASE b[j] = s + 1
      BY <3>2 DEF Ascending
    <3>3. QED
      BY <1>3, <3>1, <3>2
  <2>3. \A i, j \in 1 .. Len(b) : i < j => b[i] < b[j]
    <3> SUFFICES ASSUME NEW i \in 1 .. Len(b), NEW j \in 1 .. Len(b), i < j PROVE b[i] < b[j]
      OBVIOUS
    <3>1. i \in 1 .. Len(box) /\ b[i] = box[i] /\ box[i] \in Nat /\ box[i] <= s
      BY <1>3 DEF Ascending
    <3>2. CASE j \in 1 .. Len(box) /\ b[j] = box[j]
      BY <3>1, <3>2 DEF Ascending
    <3>3. CASE b[j] = s + 1
      BY <3>1, <3>3
    <3>4. QED
      BY <1>3, <3>2, <3>3
  <2>4. QED
    BY <1>4, <2>1, <2>2, <2>3 DEF Ascending
<1>6. Ascending(q, <<>>, g, s, r)
  BY DEF Ascending
<1>7. QED
  BY <1>2, <1>4, <1>5, <1>6

DeliveredInv ==
    link = "up" =>
        ~ again /\ \A r \in Ids : Ascending(toClient, inbox[r], last[r], sent, r)

(* An answer of the server keeps the order. *)
LEMMA AscendingAnswer ==
    ASSUME BaseInv, NEW q \in Requests, Answers(q), NEW r \in Ids,
           Ascending(toClient, inbox[r], last[r], sent, r)
    PROVE  Ascending(toClient', inbox'[r], last[r], sent, r)
<1>0. ClientTypes
  BY DEF BaseInv
<1>1. /\ toClient \in Seq(Arriving) /\ inbox \in [Ids -> Seq(Nat)]
      /\ inbox[r] \in Seq(Nat) /\ last[r] \in Nat /\ sent \in Nat
      /\ q.appl \in Ids /\ q.type \in Types
  BY <1>0 DEF ClientTypes, LinkTypes, ServerTypes, HistoryTypes, Requests
<1>2. ASSUME NEW p \in Arriving, toClient' = Append(toClient, p), ~ Carries(p, r),
             inbox'[r] = inbox[r]
      PROVE  Ascending(toClient', inbox'[r], last[r], sent, r)
  BY <1>1, <1>2, AscendingOther
<1>3. ASSUME NEW type \in Types, NEW ok \in BOOLEAN, Answer(type, q.appl, ok, 0)
      PROVE  \E p \in Arriving : toClient' = Append(toClient, p) /\ ~ Carries(p, r)
  <2>1. Packet(type, q.appl, ok, 0) \in Arriving
    BY <1>1, PacketType
  <2>2. Packet(type, q.appl, ok, 0).msg = 0
    BY DEF Packet
  <2>3. QED
    BY <1>3, <2>1, <2>2 DEF Answer, Carries
<1>4. CASE /\ q.type \in StartJobs \cup {"PUTMESSAGE"}
           /\ \E ok \in BOOLEAN : Answer(q.type, q.appl, ok, 0)
           /\ UNCHANGED <<regs, waits, inbox, home, misled>>
  BY <1>1, <1>2, <1>3, <1>4
<1>5. CASE ServerRegisters /\ UNCHANGED <<waits, inbox>>
  <2>1. PICK p \in Arriving : p.msg = 0 /\ toClient' = Append(toClient, p)
    BY <1>0, <1>5, RegistersType
  <2>2. QED
    BY <1>2, <1>5, <2>1 DEF Carries
<1>6. CASE /\ inbox' = [inbox EXCEPT ![q.appl] = <<>>]
           /\ Answer("RELEASE", q.appl, TRUE, 0)
  <2>1. PICK p \in Arriving : toClient' = Append(toClient, p) /\ ~ Carries(p, r)
    BY <1>3, <1>6 DEF Types, Jobs
  <2>2. CASE r # q.appl
    BY <1>1, <1>2, <1>6, <2>1, <2>2
  <2>3. CASE r = q.appl
    <3>1. inbox'[r] = <<>> /\ <<>> \in Seq(Nat)
      BY <1>1, <1>6, <2>3
    <3>2. Ascending(toClient, <<>>, last[r], sent, r)
      BY <1>1, AscendingArrive
    <3>3. Ascending(Append(toClient, p), <<>>, last[r], sent, r)
      BY <1>1, <2>1, <3>1, <3>2, AscendingOther
    <3>4. QED
      BY <2>1, <3>1, <3>3
  <2>4. QED
    BY <2>2, <2>3
<1>7. CASE UNCHANGED <<toClient, inbox>>
  BY <1>7
<1>8. CASE /\ inbox[q.appl] # <<>>
           /\ Answer("GETMESSAGE", q.appl, TRUE, Head(inbox[q.appl]))
           /\ inbox' = [inbox EXCEPT ![q.appl] = Tail(@)]
  <2>1. inbox[q.appl] \in Seq(Nat) /\ Head(inbox[q.appl]) \in Nat
    BY <1>1, <1>8
  <2>2. PICK p \in Arriving : p = Packet("GETMESSAGE", q.appl, TRUE, Head(inbox[q.appl]))
    BY <1>1, <2>1, PacketType DEF Types
  <2>3. /\ toClient' = Append(toClient, p)
        /\ p.appl = q.appl /\ p.msg = Head(inbox[q.appl])
    BY <1>8, <2>2 DEF Answer, Packet
  <2>4. CASE r # q.appl
    <3>1. ~ Carries(p, r) /\ inbox'[r] = inbox[r]
      BY <1>1, <1>8, <2>3, <2>4 DEF Carries
    <3>2. QED
      BY <1>2, <2>3, <3>1
  <2>5. CASE r = q.appl
    <3>1. inbox'[r] = Tail(inbox[r])
      BY <1>1, <1>8, <2>5
    <3>2. Ascending(Append(toClient, p), Tail(inbox[r]), last[r], sent, r)
      BY <1>1, <1>8, <2>3, <2>5, AscendingFetch
    <3>3. QED
      BY <2>3, <3>1, <3>2
  <2>6. QED
    BY <2>4, <2>5
<1>9. CASE Answer("GETMESSAGE", q.appl, TRUE, 0) /\ UNCHANGED <<regs, waits, inbox, home, misled>>
  BY <1>2, <1>3, <1>9 DEF Types
<1>10. QED
  BY <1>4, <1>5, <1>6, <1>7, <1>8, <1>9 DEF Answers

(* Every step keeps the order, and nothing is given to the module twice. *)
LEMMA DeliveredStep ==
    ASSUME BaseInv, DeliveredInv, [ClientNext]_allVars
    PROVE  DeliveredInv'
<1> SUFFICES ASSUME link' = "up"
             PROVE  ~ again' /\ \A r \in Ids : Ascending(toClient', inbox'[r], last'[r], sent', r)
  BY DEF DeliveredInv
<1>0. ClientTypes /\ LinkTypes
  BY DEF BaseInv, ClientTypes
<1>1. /\ link = "up" /\ ~ again /\ sent \in Nat /\ toClient \in Seq(Arriving)
      /\ inbox \in [Ids -> Seq(Nat)] /\ last \in [Ids -> Nat]
  BY UpCases DEF BaseInv, ClientTypes, LinkTypes, ServerTypes, HistoryTypes, DeliveredInv
<1>2. \A r \in Ids : /\ inbox[r] \in Seq(Nat) /\ last[r] \in Nat
                     /\ Ascending(toClient, inbox[r], last[r], sent, r)
  BY <1>1 DEF DeliveredInv
<1>3. CASE Quiet \/ (\E job \in Jobs, appl \in Ids : Asks(job, appl)) \/ local_register_appl
  <2>1. UNCHANGED <<toClient, inbox, last, sent, again>>
    BY <1>3 DEF Quiet, Asks, local_register_appl, serverVars
  <2>2. QED
    BY <1>1, <1>2, <2>1
<1>4. ASSUME NEW p \in Arriving, NEW n \in 1 .. Len(toClient), Takes(p, n), Finishes(p) \/ Handles(p)
      PROVE  ~ again' /\ \A r \in Ids : Ascending(toClient', inbox'[r], last'[r], sent', r)
  <2>0. /\ p \in Packets /\ p.appl \in Ids /\ p.msg \in Nat
        /\ toClient # <<>> /\ p = Head(toClient) /\ UNCHANGED <<inbox, sent>>
        /\ toClient' = SubSeq(toClient, n + 1, Len(toClient))
    BY <1>4 DEF Arriving, Packets, Takes
  <2>1. \A r \in Ids :
          /\ Ascending(toClient', inbox[r], last[r], sent, r)
          /\ Carries(p, r) => last[r] < p.msg /\ Ascending(toClient', inbox[r], p.msg, sent, r)
    BY <1>1, <1>2, <2>0, AscendingTake
  <2>2. CASE UNCHANGED <<last, again>>
    BY <1>1, <2>0, <2>1, <2>2
  <2>3. CASE /\ p.msg # 0
             /\ last' = [last EXCEPT ![p.appl] = p.msg]
             /\ again' = (again \/ p.msg <= last[p.appl])
    <3>1. last[p.appl] < p.msg /\ last[p.appl] \in Nat
      BY <1>2, <2>0, <2>1, <2>3 DEF Carries
    <3>2. ~ (p.msg <= last[p.appl])
      BY <2>0, <3>1
    <3>3. ~ again'
      BY <1>1, <2>3, <3>2
    <3>4. ASSUME NEW r \in Ids
          PROVE  Ascending(toClient', inbox'[r], last'[r], sent', r)
      <4>1. CASE r = p.appl
        <5>1. last'[r] = p.msg /\ Carries(p, r)
          BY <1>1, <2>3, <4>1 DEF Carries
        <5>2. QED
          BY <2>0, <2>1, <5>1
      <4>2. CASE r # p.appl
        <5>1. last'[r] = last[r]
          BY <1>1, <2>3, <4>2
        <5>2. QED
          BY <2>0, <2>1, <5>1
      <4>3. QED
        BY <4>1, <4>2
    <3>5. QED
      BY <3>3, <3>4
  <2>4. QED
    BY <1>4, <2>2, <2>3 DEF Finishes, Handles, send_to_module
<1>5. CASE ServerAnswers
  <2>1. PICK q \in Requests : Answers(q)
    BY <1>0, <1>5, ServerAnswersCases
  <2>2. UNCHANGED <<last, sent, again>>
    BY <1>0, <1>5, ServerAnswersCases
  <2>3. \A r \in Ids : Ascending(toClient', inbox'[r], last[r], sent, r)
    BY <1>2, <2>1, AscendingAnswer
  <2>4. QED
    BY <1>1, <2>2, <2>3
<1>6. ASSUME NEW w \in Ids, ServerWakes(w)
      PROVE  ~ again' /\ \A r \in Ids : Ascending(toClient', inbox'[r], last'[r], sent', r)
  <2>1. PICK p \in Arriving : p = Packet("WAITFORSIGNAL", w, TRUE, 0)
    BY PacketType DEF Types
  <2>2. toClient' = Append(toClient, p) /\ p.msg = 0 /\ UNCHANGED <<last, sent, again, inbox>>
    BY <1>6, <2>1 DEF ServerWakes, Answer, Packet, historyVars
  <2>3. \A r \in Ids : Ascending(Append(toClient, p), inbox[r], last[r], sent, r)
    BY <1>1, <1>2, <2>2, AscendingOther DEF Carries
  <2>4. QED
    BY <1>1, <2>2, <2>3
<1>7. ASSUME NEW a \in Remotes, MessageArrives(a)
      PROVE  ~ again' /\ \A r \in Ids : Ascending(toClient', inbox'[r], last'[r], sent', r)
  <2>1. /\ sent' = sent + 1 /\ inbox' = [inbox EXCEPT ![a] = Append(@, sent + 1)]
        /\ UNCHANGED <<toClient, last, again>> /\ a \in Ids
    BY <1>7, Basics DEF MessageArrives, linkVars, historyVars
  <2>2. ASSUME NEW r \in Ids
        PROVE  Ascending(toClient', inbox'[r], last'[r], sent', r)
    <3>1. /\ Ascending(toClient, inbox[r], last[r], sent + 1, r)
          /\ Ascending(toClient, Append(inbox[r], sent + 1), last[r], sent + 1, r)
      BY <1>1, <1>2, AscendingArrive
    <3>2. inbox'[r] = IF r = a THEN Append(inbox[r], sent + 1) ELSE inbox[r]
      BY <1>1, <2>1
    <3>3. CASE r = a
      BY <2>1, <3>1, <3>2, <3>3
    <3>4. CASE r # a
      BY <2>1, <3>1, <3>2, <3>4
    <3>5. QED
      BY <3>3, <3>4
  <2>3. QED
    BY <1>1, <2>1, <2>2
<1>8. QED
  BY <1>3, <1>4, <1>5, <1>6, <1>7, UpCases

(* While the connection stands no message is given to the module twice or  *)
(* out of order, although the daemon takes messages in the middle of other *)
(* requests.                                                               *)
THEOREM DeliveredCorrect == ClientSpec => []DeliveredOnce
<1>1. ClientInit => DeliveredInv
  BY DEF ClientInit, DeliveredInv, Ascending
<1>2. BaseInv /\ DeliveredInv /\ [ClientNext]_allVars => DeliveredInv'
  BY DeliveredStep
<1>3. DeliveredInv => DeliveredOnce
  BY DEF DeliveredInv, DeliveredOnce
<1>4. QED
  BY <1>1, <1>2, <1>3, InitBase, BaseStep, PTL DEF ClientSpec

-----------------------------------------------------------------------------
(* There is one registration under way at a time. *)

Asked   == daemon.pc = "wait" /\ daemon.job = "REGISTER"
Decided == daemon.pc = "done" /\ daemon.job = "REGISTER"

NoRegister(q) == \A i \in 1 .. Len(q) : q[i].type # "REGISTER"

OneRegister(q) ==
    \A i, j \in 1 .. Len(q) : q[i].type = "REGISTER" /\ q[j].type = "REGISTER" => i = j

(* The request or its answer is on its way, or the answer was swallowed,   *)
(* while the daemon waits for it; then it is in the buffer.                *)
Exclusive ==
    /\ Asked => \/ OneRegister(toServer) /\ NoRegister(toClient)
                \/ NoRegister(toServer) /\ OneRegister(toClient)
    /\ ~ Asked => NoRegister(toServer) /\ NoRegister(toClient)
    /\ Decided => recvbuffer.type = "REGISTER"

(* The answer that the daemon has not acted upon. *)
Told(p) ==
    /\ p.type = "REGISTER"
    /\ \/ \E i \in 1 .. Len(toClient) : toClient[i] = p
       \/ Decided /\ p = recvbuffer

(* The server has registered r, which the daemon has yet to learn; it will *)
(* learn nothing else.                                                     *)
Fresh(r) ==
    /\ Registering /\ NoRegister(toServer) /\ home[r] = daemon.appl
    /\ \A p \in Packets : Told(p) => p.ok /\ p.appl = r

(* The number map, and the beginning of the polls, lag behind the server   *)
(* by this one answer.                                                     *)
Mapped == \A r \in regs \ misled : applmap_rtl[r] = home[r] \/ Fresh(r)

PollsBegun == \A r \in regs : polls[r] > 0 \/ Fresh(r)

(* And the answer redirects no registration but its own. *)
Named ==
    \A p \in Packets : Told(p) /\ p.ok /\ p.appl \in regs \ misled => home[p.appl] = daemon.appl

RegisterInv == link = "up" => Exclusive /\ Mapped /\ PollsBegun /\ Named

(* What is sent, and what is received. *)
LEMMA RegisterSent ==
    ASSUME NEW S, NEW q \in Seq(S), NEW e \in S, NoRegister(q) \/ OneRegister(q)
    PROVE  /\ NoRegister(q) => OneRegister(q) /\ OneRegister(Append(q, e))
           /\ NoRegister(q) /\ e.type # "REGISTER" => NoRegister(Append(q, e))
           /\ OneRegister(q) /\ e.type # "REGISTER" => OneRegister(Append(q, e))
<1>1. PICK a : a = Append(q, e)
  OBVIOUS
<1>2. /\ Len(q) \in Nat /\ Len(a) = Len(q) + 1 /\ a[Len(q) + 1] = e
      /\ \A i \in 1 .. Len(q) : a[i] = q[i]
  BY <1>1
<1>3. \A i \in 1 .. Len(a) :
        \/ i \in 1 .. Len(q) /\ a[i] = q[i]
        \/ i = Len(q) + 1 /\ a[i] = e
  BY <1>2
<1>4. NoRegister(q) => OneRegister(q)
  BY DEF NoRegister, OneRegister
<1>5. NoRegister(q) => OneRegister(a)
  BY <1>2, <1>3 DEF NoRegister, OneRegister
<1>6. NoRegister(q) /\ e.type # "REGISTER" => NoRegister(a)
  BY <1>3 DEF NoRegister
<1>7. OneRegister(q) /\ e.type # "REGISTER" => OneRegister(a)
  BY <1>3 DEF OneRegister
<1>8. QED
  BY <1>1, <1>4, <1>5, <1>6, <1>7

(* The rest of the sequence. *)
LEMMA RegisterTaken ==
    ASSUME NEW S, NEW q \in Seq(S), q # <<>>, NEW n \in 1 .. Len(q)
    PROVE  /\ NoRegister(q) => NoRegister(SubSeq(q, n + 1, Len(q))) /\ Head(q).type # "REGISTER"
           /\ OneRegister(q) => OneRegister(SubSeq(q, n + 1, Len(q)))
           /\ OneRegister(q) /\ Head(q).type = "REGISTER" => NoRegister(SubSeq(q, n + 1, Len(q)))
           /\ \A p : (\E i \in 1 .. Len(SubSeq(q, n + 1, Len(q))) : SubSeq(q, n + 1, Len(q))[i] = p)
                     => \E i \in 1 .. Len(q) : q[i] = p
           /\ \E i \in 1 .. Len(q) : q[i] = Head(q)
<1>1. PICK a : a = SubSeq(q, n + 1, Len(q))
  OBVIOUS
<1>2. /\ Len(q) \in Nat /\ Len(q) >= 1 /\ n \in Nat /\ n >= 1 /\ n <= Len(q)
      /\ Head(q) = q[1] /\ 1 \in 1 .. Len(q)
  OBVIOUS
<1>3. /\ Len(a) = Len(q) - n
      /\ \A i \in 1 .. Len(a) : a[i] = q[i + n] /\ i + n \in 1 .. Len(q) /\ 1 # i + n
  <2>1. Len(a) = Len(q) - n /\ \A i \in 1 .. Len(a) : a[i] = q[i + n]
    BY <1>1, <1>2, SubSeqProperties
  <2>2. QED
    BY <1>2, <2>1
<1>4. NoRegister(q) => NoRegister(a) /\ Head(q).type # "REGISTER"
  BY <1>2, <1>3 DEF NoRegister
<1>5. OneRegister(q) => OneRegister(a)
  <2> SUFFICES ASSUME OneRegister(q), NEW i \in 1 .. Len(a), NEW j \in 1 .. Len(a),
                      a[i].type = "REGISTER", a[j].type = "REGISTER"
               PROVE  i = j
    BY DEF OneRegister
  <2>1. i + n = j + n
    BY <1>3 DEF OneRegister
  <2>2. QED
    BY <1>2, <2>1
<1>6. OneRegister(q) /\ Head(q).type = "REGISTER" => NoRegister(a)
  BY <1>2, <1>3 DEF OneRegister, NoRegister
<1>7. \A p : (\E i \in 1 .. Len(a) : a[i] = p) => \E i \in 1 .. Len(q) : q[i] = p
  BY <1>3
<1>8. QED
  BY <1>1, <1>2, <1>4, <1>5, <1>6, <1>7

(* The rest of the requests. *)
LEMMA RegisterServed ==
    ASSUME NEW S, NEW q \in Seq(S), q # <<>>
    PROVE  /\ NoRegister(q) => NoRegister(Tail(q))
           /\ OneRegister(q) => OneRegister(Tail(q))
           /\ OneRegister(q) /\ Head(q).type = "REGISTER" => NoRegister(Tail(q))
           /\ Head(q).type = "REGISTER" => ~ NoRegister(q)
<1>1. Len(q) \in Nat /\ Len(q) >= 1 /\ 1 \in 1 .. Len(q) /\ Tail(q) = SubSeq(q, 1 + 1, Len(q))
  OBVIOUS
<1>2. QED
  BY <1>1, RegisterTaken

(* Without a registration under way there is no answer to one. *)
LEMMA NotTold ==
    ASSUME Exclusive, ~ Registering, NEW p
    PROVE  ~ Told(p)
<1>1. NoRegister(toClient) /\ ~ Decided
  BY DEF Exclusive, Registering, Asked, Decided
<1>2. QED
  BY <1>1 DEF Told, NoRegister

(* A step that registers nothing and tells the daemon nothing new. *)
Calm ==
    /\ regs' \subseteq regs
    /\ UNCHANGED <<home, misled, applmap_rtl, polls>>
    /\ \A p \in Packets : Told(p)' => Told(p)
    /\ Registering => /\ Registering' /\ daemon'.appl = daemon.appl
                      /\ NoRegister(toServer) => NoRegister(toServer')

(* It keeps what is said about registrations. *)
LEMMA CalmKeeps ==
    ASSUME Exclusive, Mapped, PollsBegun, Named, Calm
    PROVE  Mapped' /\ PollsBegun' /\ Named'
<1>1. ASSUME NEW r, Fresh(r)
      PROVE  Fresh(r)'
  <2>1. Registering' /\ NoRegister(toServer)' /\ home'[r] = daemon'.appl
    BY <1>1 DEF Fresh, Calm
  <2>2. \A p \in Packets : Told(p)' => p.ok /\ p.appl = r
    BY <1>1 DEF Fresh, Calm
  <2>3. QED
    BY <2>1, <2>2 DEF Fresh
<1>2. Mapped'
  <2> SUFFICES ASSUME NEW r \in regs' \ misled'
               PROVE  applmap_rtl'[r] = home'[r] \/ Fresh(r)'
    BY DEF Mapped
  <2>1. r \in regs \ misled
    BY DEF Calm
  <2>2. QED
    BY <1>1, <2>1 DEF Mapped, Calm
<1>3. PollsBegun'
  <2> SUFFICES ASSUME NEW r \in regs'
               PROVE  polls'[r] > 0 \/ Fresh(r)'
    BY DEF PollsBegun
  <2>1. r \in regs
    BY DEF Calm
  <2>2. QED
    BY <1>1, <2>1 DEF PollsBegun, Calm
<1>4. Named'
  <2> SUFFICES ASSUME NEW p \in Packets, Told(p)', p.ok, p.appl \in regs' \ misled'
               PROVE  home'[p.appl] = daemon'.appl
    BY DEF Named
  <2>1. Told(p) /\ p.appl \in regs \ misled
    BY DEF Calm
  <2>2. Registering
    BY <2>1, NotTold
  <2>3. home[p.appl] = daemon.appl
    BY <2>1 DEF Named
  <2>4. QED
    BY <2>2, <2>3 DEF Calm
<1>5. QED
  BY <1>2, <1>3, <1>4

(* The daemon's steps while it does not act upon an answer to REGISTER. *)
LEMMA QuietRegister ==
    ASSUME BaseInv, Exclusive, Quiet
    PROVE  Exclusive' /\ Calm
<1>1. CASE UNCHANGED <<daemon, recvbuffer>>
  <2>1. UNCHANGED <<toServer, toClient, regs, home, misled, applmap_rtl, polls, daemon, recvbuffer>>
    BY <1>1 DEF Quiet
  <2>2. Exclusive'
    BY <2>1 DEF Exclusive, Asked, Decided, NoRegister, OneRegister
  <2>3. \A p \in Packets : Told(p)' => Told(p)
    BY <2>1 DEF Told, Decided
  <2>4. QED
    BY <2>1, <2>2, <2>3 DEF Calm, Registering
<1>2. CASE ~ Registering /\ ~ Registering'
  <2>1. /\ ~ Asked /\ ~ Asked' /\ ~ Decided'
    BY <1>2 DEF Registering, Asked, Decided
  <2>2. UNCHANGED <<toServer, toClient, regs, home, misled, applmap_rtl, polls>>
    BY DEF Quiet
  <2>3. Exclusive'
    BY <2>1, <2>2 DEF Exclusive, NoRegister
  <2>4. \A p \in Packets : Told(p)' => Told(p)
    BY <2>1, <2>2 DEF Told
  <2>5. QED
    BY <1>2, <2>2, <2>3, <2>4 DEF Calm
<1>3. QED
  BY <1>1, <1>2 DEF Quiet

(* A request, which may be the one to register. *)
LEMMA AsksRegister ==
    ASSUME BaseInv, Exclusive, NEW job \in Jobs, NEW appl \in Ids, Asks(job, appl)
    PROVE  Exclusive' /\ Calm
<1>0. PICK e \in Requests : e = [type |-> job, appl |-> appl] /\ e.type = job
  <2>1. [type |-> job, appl |-> appl] \in Requests
    BY DEF Requests, Types
  <2>2. QED
    BY <2>1
<1>1. /\ toServer \in Seq(Requests) /\ toServer' = Append(toServer, e)
      /\ UNCHANGED <<toClient, regs, home, misled, applmap_rtl, polls>>
  BY <1>0 DEF Asks, BaseInv, ClientTypes, LinkTypes
<1>2. ~ Asked /\ ~ Registering /\ ~ Decided' /\ (Asked' <=> job = "REGISTER")
  BY DEF Asks, Asked, Decided, Registering
<1>3. NoRegister(toServer) /\ NoRegister(toClient)
  BY <1>2 DEF Exclusive
<1>4. /\ OneRegister(toServer')
      /\ job # "REGISTER" => NoRegister(toServer')
  BY <1>0, <1>1, <1>3, RegisterSent
<1>5. NoRegister(toClient')
  BY <1>1, <1>3
<1>6. Exclusive'
  BY <1>2, <1>4, <1>5 DEF Exclusive
<1>7. \A p \in Packets : Told(p)' => Told(p)
  BY <1>1, <1>2 DEF Told
<1>8. QED
  BY <1>1, <1>2, <1>6, <1>7 DEF Calm

(* Taking a packet, which may be the answer to REGISTER. *)
LEMMA TakesRegister ==
    ASSUME BaseInv, Exclusive, NEW p \in Arriving, NEW n \in 1 .. Len(toClient), Takes(p, n),
           Finishes(p) \/ Handles(p)
    PROVE  Exclusive' /\ Calm
<1>0. /\ toServer \in Seq(Requests) /\ toClient \in Seq(Arriving) /\ toClient # <<>>
      /\ p = Head(toClient) /\ recvbuffer' = p /\ p.appl \in Ids
      /\ toClient' = SubSeq(toClient, n + 1, Len(toClient))
      /\ UNCHANGED <<regs, home, misled, applmap_rtl, polls>>
  BY DEF Takes, BaseInv, ClientTypes, LinkTypes, Arriving, Packets
<1>1. /\ NoRegister(toClient) => NoRegister(toClient') /\ p.type # "REGISTER"
      /\ OneRegister(toClient) => OneRegister(toClient')
      /\ OneRegister(toClient) /\ p.type = "REGISTER" => NoRegister(toClient')
      /\ \A x : (\E i \in 1 .. Len(toClient') : toClient'[i] = x)
                => \E i \in 1 .. Len(toClient) : toClient[i] = x
      /\ \E i \in 1 .. Len(toClient) : toClient[i] = p
  BY <1>0, RegisterTaken
<1>2. CASE Finishes(p)
  <2>1. UNCHANGED toServer /\ daemon'.job = daemon.job /\ daemon'.appl = daemon.appl
        /\ daemon.pc = "wait" /\ daemon'.pc = AfterWait(daemon.job)
    BY <1>2 DEF Finishes
  <2>2. CASE daemon.job = "REGISTER"
    <3>1. p.type = "REGISTER" /\ daemon'.pc = "done"
      BY <1>2, <2>1, <2>2 DEF Finishes, AfterWait
    <3>2. Asked /\ ~ Asked' /\ Decided' /\ Registering /\ Registering'
      BY <2>1, <2>2, <3>1 DEF Asked, Decided, Registering
    <3>3. NoRegister(toServer) /\ OneRegister(toClient)
      BY <1>1, <3>1, <3>2 DEF Exclusive
    <3>4. Exclusive'
      BY <1>0, <1>1, <2>1, <3>1, <3>2, <3>3 DEF Exclusive
    <3>5. \A x \in Packets : Told(x)' => Told(x)
      BY <1>0, <1>1, <3>1 DEF Told
    <3>6. QED
      BY <1>0, <2>1, <3>2, <3>4, <3>5 DEF Calm
  <2>3. CASE daemon.job # "REGISTER"
    <3>1. ~ Asked /\ ~ Asked' /\ ~ Decided' /\ ~ Registering
      BY <2>1, <2>3 DEF Asked, Decided, Registering
    <3>2. Exclusive'
      BY <1>1, <2>1, <3>1 DEF Exclusive
    <3>3. \A x \in Packets : Told(x)' => Told(x)
      BY <1>1, <3>1 DEF Told
    <3>4. QED
      BY <1>0, <3>1, <3>2, <3>3 DEF Calm
  <2>4. QED
    BY <2>2, <2>3
<1>3. CASE Handles(p)
  <2>1. /\ Asked' <=> Asked
        /\ ~ Decided'
        /\ Registering => Registering' /\ daemon'.appl = daemon.appl
    BY <1>3 DEF Handles, Asked, Decided, Registering
  <2>2. \/ UNCHANGED toServer
        \/ \E e \in Requests : e.type # "REGISTER" /\ toServer' = Append(toServer, e)
    <3>1. ASSUME NEW type \in {"GETMESSAGE", "WAITFORSIGNAL"},
                 toServer' = Append(toServer, [type |-> type, appl |-> p.appl])
          PROVE  \E e \in Requests : e.type # "REGISTER" /\ toServer' = Append(toServer, e)
      <4>1. [type |-> type, appl |-> p.appl] \in Requests
        BY <1>0, <3>1 DEF Requests, Types
      <4>2. QED
        BY <3>1, <4>1
    <3>2. QED
      BY <1>3, <3>1 DEF Handles
  <2>3. /\ NoRegister(toServer) => NoRegister(toServer')
        /\ OneRegister(toServer) => OneRegister(toServer')
    BY <1>0, <2>2, RegisterSent
  <2>4. Exclusive'
    BY <1>1, <2>1, <2>3 DEF Exclusive
  <2>5. \A x \in Packets : Told(x)' => Told(x)
    BY <1>1, <2>1 DEF Told
  <2>6. QED
    BY <1>0, <2>1, <2>3, <2>4, <2>5 DEF Calm
<1>4. QED
  BY <1>2, <1>3

(* A packet of another type is sent to the daemon, or none is. *)
LEMMA AnswersOther ==
    ASSUME BaseInv, Exclusive, UNCHANGED <<daemon, recvbuffer, home, misled, applmap_rtl, polls>>,
           regs' \subseteq regs,
           \/ UNCHANGED toClient
           \/ \E p \in Arriving : p.type # "REGISTER" /\ toClient' = Append(toClient, p),
           \/ UNCHANGED toServer
           \/ toServer # <<>> /\ toServer' = Tail(toServer)
    PROVE  Exclusive' /\ Calm
<1>0. toServer \in Seq(Requests) /\ toClient \in Seq(Arriving)
  BY DEF BaseInv, ClientTypes, LinkTypes
<1>1. /\ NoRegister(toClient) => NoRegister(toClient')
      /\ OneRegister(toClient) => OneRegister(toClient')
  BY <1>0, RegisterSent
<1>2. /\ NoRegister(toServer) => NoRegister(toServer')
      /\ OneRegister(toServer) => OneRegister(toServer')
  BY <1>0, RegisterServed
<1>3. (Asked' <=> Asked) /\ (Decided' <=> Decided) /\ (Registering' <=> Registering)
  BY DEF Asked, Decided, Registering
<1>4. Exclusive'
  BY <1>1, <1>2, <1>3 DEF Exclusive
<1>5. \A x \in Packets : Told(x)' => Told(x)
  <2>1. CASE UNCHANGED toClient
    BY <1>3, <2>1 DEF Told
  <2>2. ASSUME NEW p \in Arriving, p.type # "REGISTER", toClient' = Append(toClient, p),
               NEW x \in Packets, Told(x)'
        PROVE  Told(x)
    <3>1. \A i \in 1 .. Len(toClient') :
            \/ i \in 1 .. Len(toClient) /\ toClient'[i] = toClient[i]
            \/ toClient'[i] = p
      BY <1>0, <2>2
    <3>2. QED
      BY <1>3, <2>2, <3>1 DEF Told
  <2>3. QED
    BY <2>1, <2>2
<1>6. QED
  BY <1>2, <1>3, <1>4, <1>5 DEF Calm

(* The server answers REGISTER. *)
LEMMA ServerRegister ==
    ASSUME BaseInv, Exclusive, Mapped, PollsBegun, toServer # <<>>,
           Head(toServer).type = "REGISTER", toServer' = Tail(toServer), ServerRegisters,
           UNCHANGED <<daemon, recvbuffer, applmap_rtl, polls>>
    PROVE  Exclusive' /\ Mapped' /\ PollsBegun' /\ Named'
<1>0. /\ toServer \in Seq(Requests) /\ toClient \in Seq(Arriving) /\ home \in [Appls -> Ids]
      /\ regs \subseteq Remotes /\ ClientTypes
  BY DEF BaseInv, ClientTypes, LinkTypes, ServerTypes
<1>1. /\ ~ NoRegister(toServer) /\ Asked /\ OneRegister(toServer) /\ NoRegister(toClient)
      /\ NoRegister(toServer')
  BY <1>0, RegisterServed DEF Exclusive
<1>2. Asked' /\ ~ Decided' /\ Registering'
  BY <1>1 DEF Asked, Decided, Registering
<1>3. /\ \A r \in regs \ misled : applmap_rtl[r] = home[r]
      /\ \A r \in regs : polls[r] > 0
  BY <1>1 DEF Mapped, PollsBegun, Fresh
<1>4. PICK p \in Arriving : p.type = "REGISTER" /\ toClient' = Append(toClient, p)
  BY <1>0, RegistersType
<1>5. Exclusive'
  <2>1. OneRegister(toClient')
    BY <1>0, <1>1, <1>4, RegisterSent
  <2>2. QED
    BY <1>1, <1>2, <2>1 DEF Exclusive
<1>6. \A x \in Packets : Told(x)' => x = p
  <2> SUFFICES ASSUME NEW x \in Packets, Told(x)' PROVE x = p
    OBVIOUS
  <2>1. PICK i \in 1 .. Len(toClient') : toClient'[i] = x /\ x.type = "REGISTER"
    BY <1>2 DEF Told
  <2>2. \/ i \in 1 .. Len(toClient) /\ toClient'[i] = toClient[i]
        \/ toClient'[i] = p
    BY <1>0, <1>4
  <2>3. QED
    BY <1>1, <2>1, <2>2 DEF NoRegister
<1>7. ASSUME NEW r, NEW ok, Answer("REGISTER", r, ok, 0)
      PROVE  p.appl = r /\ p.ok = ok
  <2>1. Append(toClient, p) = Append(toClient, Packet("REGISTER", r, ok, 0))
    BY <1>4, <1>7 DEF Answer
  <2>2. p = Packet("REGISTER", r, ok, 0)
    BY <1>0, <2>1
  <2>3. QED
    BY <2>2 DEF Packet
<1>8. ASSUME NEW r \in Remotes \ regs, regs' = regs \cup {r},
             home' = [home EXCEPT ![r] = daemon.appl], misled' = misled \ {r},
             Answer("REGISTER", r, TRUE, 0)
      PROVE  Mapped' /\ PollsBegun' /\ Named'
  <2>1. p.appl = r /\ p.ok
    BY <1>7, <1>8
  <2>2. home'[r] = daemon'.appl /\ \A x \in regs : home'[x] = home[x]
    BY <1>0, <1>8, Basics
  <2>3. \A x \in Packets : Told(x)' => x.ok /\ x.appl = r
    BY <1>6, <2>1
  <2>4. Fresh(r)'
    BY <1>1, <1>2, <2>2, <2>3 DEF Fresh
  <2>5. Mapped'
    BY <1>3, <1>8, <2>2, <2>4 DEF Mapped
  <2>6. PollsBegun'
    BY <1>3, <1>8, <2>4 DEF PollsBegun
  <2>7. Named'
    BY <2>2, <2>3 DEF Named
  <2>8. QED
    BY <2>5, <2>6, <2>7
<1>9. ASSUME UNCHANGED <<regs, home>>, misled \subseteq misled',
             ~ p.ok \/ p.appl \in misled'
      PROVE  Mapped' /\ PollsBegun' /\ Named'
  <2>1. Mapped' /\ PollsBegun'
    BY <1>3, <1>9 DEF Mapped, PollsBegun
  <2>2. Named'
    BY <1>6, <1>9 DEF Named
  <2>3. QED
    BY <2>1, <2>2
<1>10. QED
  BY <1>5, <1>7, <1>8, <1>9 DEF ServerRegisters

(* The daemon learns the outcome. *)
LEMMA DaemonRegister ==
    ASSUME BaseInv, Exclusive, Mapped, PollsBegun, Named, link = "up", local_register_appl
    PROVE  Exclusive' /\ Mapped' /\ PollsBegun' /\ Named'
<1>0. /\ DaemonTypes /\ LinkTypes /\ daemon \in Daemons /\ recvbuffer \in Packets
      /\ recvbuffer.appl \in Ids /\ daemon.appl \in Ids
      /\ toServer \in Seq(Requests) /\ applmap_rtl \in [Ids -> Ids] /\ polls \in [Ids -> Nat]
      /\ regs \subseteq Ids
  BY Basics DEF BaseInv, ClientTypes, DaemonTypes, LinkTypes, ServerTypes, HistoryTypes, Packets,
                Daemons
<1>1. Decided /\ ~ Asked /\ UNCHANGED <<toClient, recvbuffer, regs, home, misled>>
  BY DEF local_register_appl, Decided, Asked, serverVars
<1>2. NoRegister(toServer) /\ NoRegister(toClient) /\ recvbuffer.type = "REGISTER"
  BY <1>1 DEF Exclusive
<1>3. Told(recvbuffer)
  BY <1>1, <1>2 DEF Told
<1>4. Stale = {recvbuffer}
  BY <1>2 DEF Stale
<1>5. ASSUME NoRegister(toServer'), daemon'.pc \in {"registered", "regfail"}
      PROVE  Exclusive' /\ Named'
  <2>1. ~ Asked' /\ ~ Decided'
    BY <1>5 DEF Asked, Decided
  <2>2. NoRegister(toClient')
    BY <1>1, <1>2
  <2>3. \A p : ~ Told(p)'
    BY <2>1, <2>2 DEF Told, NoRegister
  <2>4. QED
    BY <1>5, <2>1, <2>2, <2>3 DEF Exclusive, Named
<1>6. \A r \in regs : r # recvbuffer.appl \/ ~ recvbuffer.ok =>
        (r \notin misled => applmap_rtl[r] = home[r]) /\ polls[r] > 0
  BY <1>0, <1>3 DEF Mapped, PollsBegun, Fresh
<1>7. CASE /\ recvbuffer.ok
           /\ applmap_rtl' = [applmap_rtl EXCEPT ![recvbuffer.appl] = daemon.appl]
           /\ polls' = [polls EXCEPT ![recvbuffer.appl] = IF link = "up" THEN @ + 1 ELSE @]
           /\ remote_waitforsignal(recvbuffer.appl, [daemon EXCEPT !.pc = "registered"])
  <2>1. /\ [daemon EXCEPT !.pc = "registered"] \in Daemons
        /\ [daemon EXCEPT !.pc = "registered"].pc = "registered"
        /\ "WAITFORSIGNAL" \in Types
    BY <1>0, MoveType DEF DaemonPcs, Types
  <2>2. PICK e \in Requests :
          /\ e = [type |-> "WAITFORSIGNAL", appl |-> recvbuffer.appl]
          /\ e.type = "WAITFORSIGNAL"
    <3>1. [type |-> "WAITFORSIGNAL", appl |-> recvbuffer.appl] \in Requests
      BY <1>0, <2>1 DEF Requests
    <3>2. QED
      BY <3>1
  <2>3. toServer' = Append(toServer, e) /\ daemon'.pc = "registered"
    BY <1>0, <1>7, <2>1, <2>2, SendType DEF remote_waitforsignal
  <2>4. NoRegister(toServer')
    BY <1>0, <1>2, <2>2, <2>3, RegisterSent
  <2>5. Mapped'
    <3>1. ASSUME NEW r \in regs \ misled PROVE applmap_rtl'[r] = home[r]
      <4>1. CASE r = recvbuffer.appl
        <5>1. home[r] = daemon.appl
          BY <1>0, <1>3, <1>7, <4>1 DEF Named
        <5>2. QED
          BY <1>0, <1>7, <4>1, <5>1
      <4>2. CASE r # recvbuffer.appl
        BY <1>0, <1>6, <1>7, <4>2
      <4>3. QED
        BY <4>1, <4>2
    <3>2. QED
      BY <1>1, <3>1 DEF Mapped
  <2>6. PollsBegun'
    <3>1. ASSUME NEW r \in regs PROVE polls'[r] > 0
      <4>0. polls[r] \in Nat
        BY <1>0
      <4>1. CASE r = recvbuffer.appl
        <5>1. polls'[r] = polls[r] + 1
          BY <1>0, <1>7, <4>1
        <5>2. QED
          BY <4>0, <5>1
      <4>2. CASE r # recvbuffer.appl
        BY <1>0, <1>6, <1>7, <4>2
      <4>3. QED
        BY <4>1, <4>2
    <3>2. QED
      BY <1>1, <3>1 DEF PollsBegun
  <2>7. QED
    BY <1>5, <2>3, <2>4, <2>5, <2>6
<1>8. CASE /\ ~ recvbuffer.ok
           /\ daemon' = [daemon EXCEPT !.pc = "regfail"]
           /\ UNCHANGED <<applmap_rtl, applmap_ltr, polls, link, toServer>>
  <2>1. daemon'.pc = "regfail" /\ NoRegister(toServer')
    BY <1>0, <1>2, <1>8, MoveType DEF DaemonPcs
  <2>2. Mapped' /\ PollsBegun'
    BY <1>1, <1>6, <1>8 DEF Mapped, PollsBegun
  <2>3. QED
    BY <1>5, <2>1, <2>2
<1>9. QED
  BY <1>4, <1>7, <1>8 DEF local_register_appl

(* RegisterInv is inductive. *)
LEMMA RegisterStep ==
    ASSUME BaseInv, RegisterInv, [ClientNext]_allVars
    PROVE  RegisterInv'
<1> SUFFICES ASSUME link' = "up"
             PROVE  Exclusive' /\ Mapped' /\ PollsBegun' /\ Named'
  BY DEF RegisterInv
<1>1. link = "up" /\ Exclusive /\ Mapped /\ PollsBegun /\ Named /\ LinkTypes
  BY UpCases DEF RegisterInv, BaseInv, ClientTypes
<1>2. ASSUME Exclusive', Calm
      PROVE  Exclusive' /\ Mapped' /\ PollsBegun' /\ Named'
  BY <1>1, <1>2, CalmKeeps
<1>3. CASE \/ Quiet
           \/ \E job \in Jobs, appl \in Ids : Asks(job, appl)
           \/ \E p \in Arriving, n \in 1 .. Len(toClient) :
                 Takes(p, n) /\ (Finishes(p) \/ Handles(p))
  BY <1>1, <1>2, <1>3, QuietRegister, AsksRegister, TakesRegister
<1>4. CASE local_register_appl
  BY <1>1, <1>4, DaemonRegister
<1>5. CASE ServerAnswers
  <2>1. /\ toServer # <<>> /\ toServer' = Tail(toServer)
        /\ UNCHANGED <<daemon, recvbuffer, applmap_rtl, polls>>
    BY <1>1, <1>5, ServerAnswersCases
  <2>2. PICK q \in Requests : q = Head(toServer) /\ Answers(q)
    BY <1>1, <1>5, ServerAnswersCases
  <2>3. CASE ServerRegisters /\ q.type = "REGISTER"
    BY <1>1, <2>1, <2>2, <2>3, ServerRegister
  <2>4. ASSUME NEW type \in Types, type # "REGISTER", NEW ok \in BOOLEAN, NEW msg \in Nat,
               Answer(type, q.appl, ok, msg)
        PROVE  \E p \in Arriving : p.type # "REGISTER" /\ toClient' = Append(toClient, p)
    <3>1. q.appl \in Ids
      BY DEF Requests
    <3>2. Packet(type, q.appl, ok, msg) \in Arriving
      BY <3>1, PacketType
    <3>3. Packet(type, q.appl, ok, msg).type = type
      BY DEF Packet
    <3>4. QED
      BY <2>4, <3>2, <3>3 DEF Answer
  <2>5. CASE q.type # "REGISTER"
    <3>1. /\ regs' \subseteq regs /\ UNCHANGED <<home, misled>>
          /\ \/ UNCHANGED toClient
             \/ \E type \in Types \ {"REGISTER"}, ok \in BOOLEAN, msg \in Nat :
                   Answer(type, q.appl, ok, msg)
      <4>1. q.type \in Types \ {"REGISTER"} /\ q.appl \in Ids
        BY <2>5 DEF Requests
      <4>2. inbox[q.appl] # <<>> => Head(inbox[q.appl]) \in Nat
        BY <4>1 DEF BaseInv, ClientTypes, ServerTypes
      <4>3. "RELEASE" \in Types \ {"REGISTER"} /\ "GETMESSAGE" \in Types \ {"REGISTER"}
        BY DEF Types, Jobs
      <4>4. QED
        BY <2>2, <2>5, <4>1, <4>2, <4>3 DEF Answers
    <3>2. \/ UNCHANGED toClient
          \/ \E p \in Arriving : p.type # "REGISTER" /\ toClient' = Append(toClient, p)
      BY <2>4, <3>1
    <3>3. Exclusive' /\ Calm
      BY <1>1, <2>1, <3>1, <3>2, AnswersOther
    <3>4. QED
      BY <1>2, <3>3
  <2>6. QED
    BY <2>2, <2>3, <2>5 DEF Answers, StartJobs
<1>6. ASSUME NEW w \in Ids, ServerWakes(w)
      PROVE  Exclusive' /\ Mapped' /\ PollsBegun' /\ Named'
  <2>1. PICK p \in Arriving : p = Packet("WAITFORSIGNAL", w, TRUE, 0)
    BY PacketType DEF Types
  <2>2. /\ toClient' = Append(toClient, p) /\ p.type # "REGISTER"
        /\ UNCHANGED <<daemon, recvbuffer, home, misled, applmap_rtl, polls, toServer, regs>>
    BY <1>6, <2>1 DEF ServerWakes, Answer, Packet, daemonVars, historyVars
  <2>3. Exclusive' /\ Calm
    BY <1>1, <2>2, AnswersOther
  <2>4. QED
    BY <1>2, <2>3
<1>7. ASSUME NEW a \in Remotes, MessageArrives(a)
      PROVE  Exclusive' /\ Mapped' /\ PollsBegun' /\ Named'
  <2>1. UNCHANGED <<daemon, recvbuffer, home, misled, applmap_rtl, polls, toServer, toClient, regs>>
    BY <1>7 DEF MessageArrives, linkVars, daemonVars, historyVars
  <2>2. Exclusive' /\ Calm
    BY <1>1, <2>1, AnswersOther
  <2>3. QED
    BY <1>2, <2>2
<1>8. QED
  BY <1>3, <1>4, <1>5, <1>6, <1>7, UpCases

(* A message for an application of the server reaches the local application *)
(* it was registered for, however often numbers are released and given out  *)
(* again, unless a failed registration has named its number.                *)
THEOREM MapsCorrect == ClientSpec => []MapsAgree
<1>1. ClientInit => RegisterInv
  BY DEF ClientInit, RegisterInv, Exclusive, Mapped, PollsBegun, Named, Told, Asked, Decided,
         NoRegister, OneRegister
<1>2. BaseInv /\ RegisterInv /\ [ClientNext]_allVars => RegisterInv'
  BY RegisterStep
<1>3. RegisterInv => MapsAgree
  BY DEF RegisterInv, Mapped, Fresh, MapsAgree
<1>4. QED
  BY <1>1, <1>2, <1>3, InitBase, BaseStep, PTL DEF ClientSpec

-----------------------------------------------------------------------------
(* The chains of polls. *)

Polling(e, r) == e.type \in {"WAITFORSIGNAL", "GETMESSAGE"} /\ e.appl = r

PollsAt(q, r) == {i \in 1 .. Len(q) : Polling(q[i], r)}

(* The number of polls in a queue is one. *)
LEMMA PollsNat ==
    ASSUME NEW S, NEW q \in Seq(S), NEW r
    PROVE  /\ IsFiniteSet(PollsAt(q, r)) /\ PollsIn(q, r) = Cardinality(PollsAt(q, r))
           /\ PollsIn(q, r) \in Nat
<1>1. IsFiniteSet(1 .. Len(q))
  BY FS_Interval
<1>2. PollsAt(q, r) \in SUBSET (1 .. Len(q))
  BY DEF PollsAt
<1>3. IsFiniteSet(PollsAt(q, r))
  BY <1>1, <1>2, FS_Subset
<1>4. PollsIn(q, r) = Cardinality(PollsAt(q, r))
  BY DEF PollsIn, PollsAt, Polling
<1>5. QED
  BY <1>3, <1>4, FS_CardinalityType

(* No poll is in a queue without one. *)
LEMMA PollsNone ==
    ASSUME NEW S, NEW q \in Seq(S), NEW r, PollsIn(q, r) = 0, NEW i \in 1 .. Len(q)
    PROVE  ~ Polling(q[i], r)
<1>1. PollsAt(q, r) = {}
  BY PollsNat, FS_EmptySet
<1>2. QED
  BY <1>1 DEF PollsAt

(* Sending one adds it, sending something else changes nothing. *)
LEMMA PollsAppend ==
    ASSUME NEW S, NEW q \in Seq(S), NEW e \in S, NEW r
    PROVE  PollsIn(Append(q, e), r) = PollsIn(q, r) + (IF Polling(e, r) THEN 1 ELSE 0)
<1>0. Append(q, e) \in Seq(S) /\ Len(q) \in Nat
  OBVIOUS
<1>1. /\ PollsIn(Append(q, e), r) = Cardinality(PollsAt(Append(q, e), r))
      /\ PollsIn(q, r) = Cardinality(PollsAt(q, r)) /\ IsFiniteSet(PollsAt(q, r))
      /\ PollsIn(q, r) \in Nat
  BY <1>0, PollsNat
<1>2. \A i \in 1 .. Len(q) + 1 : Append(q, e)[i] = IF i = Len(q) + 1 THEN e ELSE q[i]
  OBVIOUS
<1>3. Len(Append(q, e)) = Len(q) + 1 /\ (Len(q) + 1) \notin PollsAt(q, r)
  BY DEF PollsAt
<1>4. CASE Polling(e, r)
  <2>1. PollsAt(Append(q, e), r) = PollsAt(q, r) \cup {Len(q) + 1}
    BY <1>0, <1>2, <1>3, <1>4 DEF PollsAt
  <2>2. Cardinality(PollsAt(q, r) \cup {Len(q) + 1}) = Cardinality(PollsAt(q, r)) + 1
    BY <1>1, <1>3, FS_AddElement
  <2>3. QED
    BY <1>1, <1>4, <2>1, <2>2
<1>5. CASE ~ Polling(e, r)
  <2>1. PollsAt(Append(q, e), r) = PollsAt(q, r)
    BY <1>0, <1>2, <1>3, <1>5 DEF PollsAt
  <2>2. QED
    BY <1>1, <1>5, <2>1
<1>6. QED
  BY <1>4, <1>5

(* Taking n elements takes the first one, and those behind it unseen. *)
LEMMA PollsTake ==
    ASSUME NEW S, NEW q \in Seq(S), q # <<>>, NEW n \in 1 .. Len(q), NEW r
    PROVE  LET rest == PollsIn(SubSeq(q, n + 1, Len(q)), r)
               one  == IF Polling(Head(q), r) THEN 1 ELSE 0
           IN  rest + one <= PollsIn(q, r) /\ (n = 1 => rest + one = PollsIn(q, r))
<1> DEFINE tl == SubSeq(q, n + 1, Len(q))
           A  == PollsAt(tl, r)
           B  == PollsAt(q, r) \ {1}
           f  == [i \in A |-> i + n]
<1>0. /\ tl \in Seq(S) /\ Len(q) \in Nat /\ n \in Nat /\ Len(q) > 0
      /\ Len(tl) = Len(q) - n
      /\ \A i \in 1 .. Len(q) - n : tl[i] = q[i + n]
  BY SubSeqProperties
<1> HIDE DEF tl
<1>1. /\ PollsIn(tl, r) = Cardinality(A) /\ IsFiniteSet(A)
      /\ PollsIn(q, r) = Cardinality(PollsAt(q, r)) /\ IsFiniteSet(PollsAt(q, r))
      /\ PollsIn(tl, r) \in Nat /\ PollsIn(q, r) \in Nat
  BY <1>0, PollsNat
<1>2. IsFiniteSet(B) /\ PollsIn(q, r) = Cardinality(B) + (IF Polling(Head(q), r) THEN 1 ELSE 0)
      /\ Cardinality(B) \in Nat
  <2>1. 1 \in PollsAt(q, r) <=> Polling(Head(q), r)
    BY <1>0 DEF PollsAt
  <2>2. IsFiniteSet(B) /\ Cardinality(B) = IF 1 \in PollsAt(q, r) THEN Cardinality(PollsAt(q, r)) - 1
                                                                    ELSE Cardinality(PollsAt(q, r))
    BY <1>1, FS_RemoveElement
  <2>3. Cardinality(B) \in Nat
    BY <2>2, FS_CardinalityType
  <2> HIDE DEF B
  <2>4. QED
    BY <1>1, <2>1, <2>2, <2>3
<1>3. f \in [A -> B]
  <2>1. ASSUME NEW i \in A PROVE i + n \in B
    BY <1>0 DEF PollsAt
  <2>2. QED
    BY <2>1
<1>4. f \in Injection(A, B)
  <2>1. \A i \in A : i \in Nat
    BY DEF PollsAt
  <2>2. \A i, j \in A : f[i] = f[j] => i = j
    BY <1>0, <2>1
  <2>3. QED
    BY <1>3, <2>2, Fun_IsInj
<1>5. Cardinality(A) <= Cardinality(B) /\ (f \in Surjection(A, B) => Cardinality(A) = Cardinality(B))
  BY <1>2, <1>4, FS_Injection
<1>6. ASSUME n = 1 PROVE f \in Surjection(A, B)
  <2>1. ASSUME NEW j \in B PROVE \E i \in A : f[i] = j
    <3>1. j - 1 \in A
      BY <1>0, <1>6 DEF PollsAt
    <3>2. f[j - 1] = j
      BY <1>6, <3>1 DEF PollsAt
    <3>3. QED
      BY <3>1, <3>2
  <2>2. QED
    BY <1>3, <2>1, Fun_IsSurj
<1>7. QED
  BY <1>1, <1>2, <1>5, <1>6 DEF tl

(* The answer to HELO comes before any poll does, so that taking whatever  *)
(* comes first for it loses none.                                          *)
Hello == daemon.job = "HELO" => \A r \in Ids : polls[r] = 0

Counted ==
    \A r \in Ids : Polls(r) <= polls[r] /\ (~ swallowed => Polls(r) = polls[r])

PollsInv == link = "up" => Hello /\ Counted

(* What a step does to the polls of number r: it begins as many as it      *)
(* adds, or it swallows some.                                              *)
Steady(r) ==
    \/ /\ swallowed' = swallowed
       /\ \E d \in {0, 1} : Polls(r)' = Polls(r) + d /\ polls'[r] = polls[r] + d
    \/ swallowed' /\ Polls(r)' \in Nat /\ Polls(r)' <= Polls(r) /\ polls'[r] = polls[r]

(* The terms of the sum are numbers. *)
LEMMA PollsType ==
    ASSUME BaseInv, NEW r \in Ids
    PROVE  /\ PollsIn(toServer, r) \in Nat /\ waits[r] \in Nat /\ PollsIn(toClient, r) \in Nat
           /\ Polls(r) \in Nat /\ polls[r] \in Nat
           /\ Polls(r) = PollsIn(toServer, r) + waits[r] + PollsIn(toClient, r)
<1>1. toServer \in Seq(Requests) /\ toClient \in Seq(Arriving)
  BY DEF BaseInv, ClientTypes, LinkTypes
<1>2. PollsIn(toServer, r) \in Nat /\ PollsIn(toClient, r) \in Nat
  BY <1>1, PollsNat
<1>3. waits[r] \in Nat /\ polls[r] \in Nat
  BY DEF BaseInv, ClientTypes, ServerTypes, HistoryTypes
<1>4. QED
  BY <1>2, <1>3 DEF Polls

(* Such steps keep the balance. *)
LEMMA SteadyKeeps ==
    ASSUME BaseInv, Counted, \A r \in Ids : Steady(r)
    PROVE  Counted'
<1> SUFFICES ASSUME NEW r \in Ids
             PROVE  Polls(r)' <= polls'[r] /\ (~ swallowed' => Polls(r)' = polls'[r])
  BY DEF Counted
<1>1. PICK a \in Nat, b \in Nat : a = Polls(r) /\ b = polls[r]
  BY PollsType
<1>2. a <= b /\ (~ swallowed => a = b)
  BY <1>1 DEF Counted
<1>3. ASSUME swallowed' = swallowed, NEW d \in {0, 1}, Polls(r)' = a + d, polls'[r] = b + d
      PROVE  Polls(r)' <= polls'[r] /\ (~ swallowed' => Polls(r)' = polls'[r])
  <2>1. a + d <= b + d /\ (a = b => a + d = b + d)
    BY <1>2, <1>3
  <2>2. QED
    BY <1>2, <1>3, <2>1
<1>4. ASSUME swallowed', Polls(r)' <= a, polls'[r] = b, Polls(r)' \in Nat
      PROVE  Polls(r)' <= polls'[r]
  BY <1>1, <1>2, <1>4
<1>5. QED
  BY <1>1, <1>3, <1>4 DEF Steady

(* The daemon takes a packet.  A poll among them is answered by a poll. *)
LEMMA TakesPolls ==
    ASSUME BaseInv, Hello, Counted, NEW p \in Arriving, NEW n \in 1 .. Len(toClient), Takes(p, n),
           Finishes(p) \/ Handles(p), NEW r \in Ids
    PROVE  Steady(r)
<1>0. /\ toClient \in Seq(Arriving) /\ toServer \in Seq(Requests) /\ toClient # <<>>
      /\ p = Head(toClient) /\ p.appl \in Ids /\ swallowed \in BOOLEAN /\ daemon \in Daemons
  BY DEF BaseInv, ClientTypes, LinkTypes, HistoryTypes, DaemonTypes, Takes, Arriving, Packets
<1>1. /\ toClient' = SubSeq(toClient, n + 1, Len(toClient))
      /\ swallowed' = (swallowed \/ n > 1) /\ polls' = polls /\ waits' = waits
  BY DEF Takes
<1> DEFINE one == IF Polling(p, r) THEN 1 ELSE 0
<1>2. /\ PollsIn(toClient', r) + one <= PollsIn(toClient, r)
      /\ n = 1 => PollsIn(toClient', r) + one = PollsIn(toClient, r)
  BY <1>0, <1>1, PollsTake
<1>3. PollsIn(toServer', r) = PollsIn(toServer, r) + one
  <2>1. ASSUME Finishes(p) PROVE PollsIn(toServer', r) = PollsIn(toServer, r) + one
    <3>1. ~ Polling(p, r)
      <4>1. CASE daemon.job = "HELO"
        <5>1. polls[r] = 0 /\ Polls(r) <= polls[r]
          BY <4>1 DEF Hello, Counted
        <5>2. PollsIn(toClient, r) = 0
          BY <5>1, PollsType
        <5>3. 1 \in 1 .. Len(toClient) /\ toClient[1] = p
          BY <1>0
        <5>4. QED
          BY <1>0, <5>2, <5>3, PollsNone
      <4>2. CASE p.type = daemon.job
        BY <1>0, <4>2 DEF Polling, Daemons, Jobs, StartJobs
      <4>3. QED
        BY <2>1, <4>1, <4>2 DEF Finishes
    <3>2. QED
      BY <2>1, <3>1, PollsType DEF Finishes
  <2>2. ASSUME Handles(p) PROVE PollsIn(toServer', r) = PollsIn(toServer, r) + one
    <3>1. ASSUME NEW type \in {"WAITFORSIGNAL", "GETMESSAGE"},
                 p.type \in {"WAITFORSIGNAL", "GETMESSAGE"},
                 toServer' = Append(toServer, [type |-> type, appl |-> p.appl])
          PROVE  PollsIn(toServer', r) = PollsIn(toServer, r) + one
      <4>1. [type |-> type, appl |-> p.appl] \in Requests
        BY <1>0, <3>1 DEF Requests, Types
      <4>2. Polling([type |-> type, appl |-> p.appl], r) <=> Polling(p, r)
        BY <3>1 DEF Polling
      <4>3. QED
        BY <1>0, <3>1, <4>1, <4>2, PollsAppend
    <3>2. ASSUME p.type \notin {"WAITFORSIGNAL", "GETMESSAGE"}, toServer' = toServer
          PROVE  PollsIn(toServer', r) = PollsIn(toServer, r) + one
      BY <3>2, PollsType DEF Polling
    <3>3. QED
      BY <2>2, <3>1, <3>2 DEF Handles
  <2>3. QED
    BY <2>1, <2>2
<1>4. n \in Nat /\ one \in Nat /\ SubSeq(toClient, n + 1, Len(toClient)) \in Seq(Arriving)
  BY <1>0, SubSeqProperties
<1>5. PollsIn(toClient', r) \in Nat
  BY <1>1, <1>4, PollsNat
<1>6. Polls(r)' = PollsIn(toServer', r) + waits'[r] + PollsIn(toClient', r)
  BY DEF Polls
<1> HIDE DEF one
<1>7. Polls(r)' \in Nat /\ Polls(r)' <= Polls(r) /\ (n = 1 => Polls(r)' = Polls(r))
  <2>1. PICK s \in Nat, w \in Nat, c \in Nat :
          s = PollsIn(toServer, r) /\ w = waits[r] /\ c = PollsIn(toClient, r) /\ Polls(r) = s + w + c
    BY PollsType
  <2>2. PICK d \in Nat : d = PollsIn(toClient', r)
    BY <1>5
  <2>3. PICK o \in Nat : o = one
    BY <1>4
  <2>4. Polls(r)' = s + o + w + d /\ d + o <= c /\ (n = 1 => d + o = c)
    BY <1>1, <1>2, <1>3, <1>6, <2>1, <2>2, <2>3
  <2>5. /\ s + o + w + d \in Nat /\ s + o + w + d <= s + w + c
        /\ d + o = c => s + o + w + d = s + w + c
    BY <2>4
  <2>6. QED
    BY <2>1, <2>4, <2>5
<1>8. CASE n = 1
  <2>1. swallowed' = swallowed
    BY <1>0, <1>1, <1>8
  <2>2. QED
    BY <1>1, <1>7, <1>8, <2>1, PollsType DEF Steady
<1>9. CASE n # 1
  <2>1. n > 1
    BY <1>4, <1>9
  <2>2. QED
    BY <1>1, <1>7, <2>1 DEF Steady
<1>10. QED
  BY <1>8, <1>9

(* The server answers a request, or lets a WAITFORSIGNAL return. *)
LEMMA ServerPolls ==
    ASSUME BaseInv, NEW r \in Ids,
           ServerAnswers \/ (\E w \in Ids : ServerWakes(w)) \/ (\E a \in Remotes : MessageArrives(a))
    PROVE  Steady(r)
<1>0. /\ toClient \in Seq(Arriving) /\ toServer \in Seq(Requests) /\ waits \in [Ids -> Nat]
      /\ inbox \in [Ids -> Seq(Nat)] /\ ClientTypes /\ LinkTypes
  BY DEF BaseInv, ClientTypes, LinkTypes, ServerTypes
<1>1. UNCHANGED <<swallowed, polls>>
  BY DEF ServerAnswers, ServerWakes, MessageArrives, historyVars
<1>2. PICK s \in Nat, w \in Nat, c \in Nat :
        s = PollsIn(toServer, r) /\ w = waits[r] /\ c = PollsIn(toClient, r) /\ Polls(r) = s + w + c
  BY PollsType
<1>3. Polls(r)' = PollsIn(toServer', r) + waits'[r] + PollsIn(toClient', r)
  BY DEF Polls
<1>4. ASSUME Polls(r)' = s + w + c PROVE Steady(r)
  BY <1>1, <1>2, <1>4, PollsType DEF Steady
<1>5. ASSUME NEW type \in Types, NEW appl \in Ids, NEW ok \in BOOLEAN, NEW msg \in Nat,
             Answer(type, appl, ok, msg)
      PROVE  PollsIn(toClient', r) =
               c + (IF type \in {"WAITFORSIGNAL", "GETMESSAGE"} /\ appl = r THEN 1 ELSE 0)
  <2>1. PICK p \in Arriving : p = Packet(type, appl, ok, msg)
    BY PacketType
  <2>2. p.type = type /\ p.appl = appl /\ toClient' = Append(toClient, p)
    BY <1>5, <2>1 DEF Packet, Answer
  <2>3. PollsIn(toClient', r) = c + (IF Polling(p, r) THEN 1 ELSE 0)
    BY <1>0, <1>2, <2>2, PollsAppend
  <2>4. QED
    BY <2>2, <2>3 DEF Polling
<1>6. CASE ServerAnswers
  <2>1. toServer # <<>> /\ toServer' = Tail(toServer)
    BY <1>0, <1>6, ServerAnswersCases
  <2>2. PICK q \in Requests : q = Head(toServer) /\ Answers(q)
    BY <1>0, <1>6, ServerAnswersCases
  <2>3. q.type \in Types /\ q.appl \in Ids
    BY DEF Requests
  <2> DEFINE mine == q.type \in {"WAITFORSIGNAL", "GETMESSAGE"} /\ q.appl = r
  <2>4. PICK t \in Nat : t = PollsIn(toServer', r) /\ t + (IF mine THEN 1 ELSE 0) = s
    <3>1. 1 \in 1 .. Len(toServer) /\ toServer' = SubSeq(toServer, 1 + 1, Len(toServer))
      BY <1>0, <2>1
    <3>2. PollsIn(toServer', r) + (IF Polling(q, r) THEN 1 ELSE 0) = PollsIn(toServer, r)
      BY <1>0, <2>1, <2>2, <3>1, PollsTake
    <3>3. toServer' \in Seq(Requests)
      BY <1>0, <2>1
    <3>4. PollsIn(toServer', r) \in Nat
      BY <3>3, PollsNat
    <3>5. QED
      BY <1>2, <3>2, <3>4 DEF Polling
  <2>5. CASE q.type = "WAITFORSIGNAL"
    <3>1. waits' = [waits EXCEPT ![q.appl] = @ + 1] /\ toClient' = toClient
      BY <2>2, <2>5 DEF Answers, StartJobs
    <3>2. waits'[r] = w + (IF mine THEN 1 ELSE 0)
      <4>1. CASE q.appl = r
        BY <1>0, <1>2, <2>5, <3>1, <4>1
      <4>2. CASE q.appl # r
        <5>1. waits'[r] = waits[r]
          BY <1>0, <2>3, <3>1, <4>2
        <5>2. QED
          BY <1>2, <4>2, <5>1
      <4>3. QED
        BY <4>1, <4>2
    <3>3. QED
      BY <1>2, <1>3, <1>4, <2>4, <3>1, <3>2
  <2>6. CASE q.type = "GETMESSAGE"
    <3>1. waits' = waits /\ \E msg \in Nat : Answer("GETMESSAGE", q.appl, TRUE, msg)
      <4>1. inbox[q.appl] \in Seq(Nat)
        BY <1>0, <2>3
      <4>2. inbox[q.appl] # <<>> => Head(inbox[q.appl]) \in Nat
        BY <4>1
      <4>3. QED
        BY <2>2, <2>6, <4>2 DEF Answers, StartJobs
    <3>2. PollsIn(toClient', r) = c + (IF mine THEN 1 ELSE 0)
      BY <1>5, <2>3, <2>6, <3>1
    <3>3. QED
      BY <1>2, <1>3, <1>4, <2>4, <3>1, <3>2
  <2>7. CASE q.type \notin {"WAITFORSIGNAL", "GETMESSAGE"}
    <3>1. waits' = waits /\ PollsIn(toClient', r) = c
      <4>1. CASE q.type = "REGISTER"
        <5>1. ServerRegisters /\ waits' = waits
          BY <2>2, <4>1 DEF Answers, StartJobs
        <5>2. PICK p \in Arriving : p.type = "REGISTER" /\ toClient' = Append(toClient, p)
          BY <1>0, <5>1, RegistersType
        <5>3. ~ Polling(p, r)
          BY <5>2 DEF Polling
        <5>4. QED
          BY <1>0, <1>2, <5>1, <5>2, <5>3, PollsAppend
      <4>2. CASE q.type # "REGISTER"
        <5>1. waits' = waits /\ \E ok \in BOOLEAN : Answer(q.type, q.appl, ok, 0)
          BY <2>2, <2>7, <4>2 DEF Answers
        <5>2. QED
          BY <1>2, <1>5, <2>3, <2>7, <5>1
      <4>3. QED
        BY <4>1, <4>2
    <3>2. QED
      BY <1>2, <1>3, <1>4, <2>4, <2>7, <3>1
  <2>8. QED
    BY <2>5, <2>6, <2>7
<1>7. ASSUME NEW k \in Ids, ServerWakes(k) PROVE Steady(r)
  <2>1. /\ waits' = [waits EXCEPT ![k] = @ - 1] /\ toServer' = toServer /\ waits[k] > 0
        /\ Answer("WAITFORSIGNAL", k, TRUE, 0)
    BY <1>7 DEF ServerWakes
  <2>2. PollsIn(toClient', r) = c + (IF k = r THEN 1 ELSE 0)
    <3>1. "WAITFORSIGNAL" \in Types
      BY DEF Types
    <3>2. QED
      BY <1>5, <2>1, <3>1
  <2>3. waits'[r] + (IF k = r THEN 1 ELSE 0) = w /\ waits'[r] \in Nat
    <3>1. CASE k = r
      <4>1. waits'[r] = w - 1 /\ w > 0
        BY <1>0, <1>2, <2>1, <3>1
      <4>2. QED
        BY <3>1, <4>1
    <3>2. CASE k # r
      <4>1. waits'[r] = w
        BY <1>0, <1>2, <2>1, <3>2
      <4>2. QED
        BY <3>2, <4>1
    <3>3. QED
      BY <3>1, <3>2
  <2>4. QED
    BY <1>2, <1>3, <1>4, <2>1, <2>2, <2>3
<1>8. ASSUME NEW a \in Remotes, MessageArrives(a) PROVE Steady(r)
  BY <1>2, <1>3, <1>4, <1>8 DEF MessageArrives, linkVars
<1>9. QED
  BY <1>6, <1>7, <1>8

(* The daemon learns the outcome of a registration: a success begins a     *)
(* chain of polls.                                                         *)
LEMMA RegisterPolls ==
    ASSUME BaseInv, Exclusive, link = "up", local_register_appl, NEW r \in Ids
    PROVE  Steady(r)
<1>0. /\ daemon \in Daemons /\ DaemonTypes /\ LinkTypes /\ recvbuffer.appl \in Ids
      /\ toServer \in Seq(Requests) /\ polls \in [Ids -> Nat]
  BY DEF BaseInv, ClientTypes, DaemonTypes, LinkTypes, HistoryTypes, Packets
<1>1. UNCHANGED <<toClient, waits, swallowed>>
  BY DEF local_register_appl, serverVars
<1>2. Stale = {recvbuffer}
  BY DEF local_register_appl, Exclusive, Decided, Stale
<1>3. PICK s \in Nat, w \in Nat, c \in Nat, b \in Nat :
        /\ s = PollsIn(toServer, r) /\ w = waits[r] /\ c = PollsIn(toClient, r)
        /\ Polls(r) = s + w + c /\ b = polls[r]
  BY PollsType
<1>4. Polls(r)' = PollsIn(toServer', r) + waits'[r] + PollsIn(toClient', r)
  BY DEF Polls
<1>5. CASE /\ polls' = [polls EXCEPT ![recvbuffer.appl] = IF link = "up" THEN @ + 1 ELSE @]
           /\ remote_waitforsignal(recvbuffer.appl, [daemon EXCEPT !.pc = "registered"])
  <2>1. /\ [daemon EXCEPT !.pc = "registered"] \in Daemons /\ "WAITFORSIGNAL" \in Types
    BY <1>0, MoveType DEF DaemonPcs, Types
  <2>2. PICK e \in Requests :
          /\ e = [type |-> "WAITFORSIGNAL", appl |-> recvbuffer.appl]
          /\ e.type = "WAITFORSIGNAL" /\ e.appl = recvbuffer.appl
    <3>1. [type |-> "WAITFORSIGNAL", appl |-> recvbuffer.appl] \in Requests
      BY <1>0, <2>1 DEF Requests
    <3>2. QED
      BY <3>1
  <2>3. toServer' = Append(toServer, e)
    BY <1>0, <1>5, <2>1, <2>2, SendType DEF remote_waitforsignal
  <2>4. PollsIn(toServer', r) = s + (IF Polling(e, r) THEN 1 ELSE 0)
    BY <1>0, <1>3, <2>2, <2>3, PollsAppend
  <2>5. CASE recvbuffer.appl = r
    <3>1. PollsIn(toServer', r) = s + 1
      BY <2>2, <2>4, <2>5 DEF Polling
    <3>2. polls'[r] = b + 1
      BY <1>0, <1>3, <1>5, <2>5
    <3>3. Polls(r)' = Polls(r) + 1
      BY <1>1, <1>3, <1>4, <3>1
    <3>4. QED
      BY <1>1, <1>3, <3>2, <3>3 DEF Steady
  <2>6. CASE recvbuffer.appl # r
    <3>1. PollsIn(toServer', r) = s
      BY <2>2, <2>4, <2>6 DEF Polling
    <3>2. polls'[r] = b + 0
      BY <1>0, <1>3, <1>5, <2>6
    <3>3. Polls(r)' = Polls(r) + 0
      BY <1>1, <1>3, <1>4, <3>1
    <3>4. QED
      BY <1>1, <1>3, <3>2, <3>3 DEF Steady
  <2>7. QED
    BY <2>5, <2>6
<1>6. CASE UNCHANGED <<polls, toServer>>
  <2>1. Polls(r)' = Polls(r) + 0 /\ polls'[r] = polls[r] + 0
    BY <1>1, <1>3, <1>4, <1>6
  <2>2. QED
    BY <1>1, <2>1 DEF Steady
<1>7. QED
  BY <1>2, <1>5, <1>6 DEF local_register_appl

(* PollsInv is inductive, relative to the invariants before it. *)
LEMMA PollsStep ==
    ASSUME BaseInv, RegisterInv, PollsInv, [ClientNext]_allVars
    PROVE  PollsInv'
<1> SUFFICES ASSUME link' = "up" PROVE Hello' /\ Counted'
  BY DEF PollsInv
<1>1. /\ link = "up" /\ Hello /\ Counted /\ Exclusive
      /\ toServer \in Seq(Requests) /\ daemon \in Daemons /\ LinkTypes
  BY UpCases DEF PollsInv, RegisterInv, BaseInv, ClientTypes, LinkTypes, DaemonTypes
<1>2. CASE Quiet
  <2>1. UNCHANGED <<toServer, toClient, waits, polls, swallowed>> /\ daemon'.job = daemon.job
    BY <1>2 DEF Quiet
  <2>2. QED
    BY <1>1, <2>1 DEF Hello, Counted, Polls
<1>3. ASSUME NEW job \in Jobs, NEW appl \in Ids, Asks(job, appl)
      PROVE  Hello' /\ Counted'
  <2>1. /\ UNCHANGED <<toClient, waits, polls, swallowed>> /\ daemon'.job = job
        /\ job = "HELO" => daemon.job = "HELO"
    BY <1>3 DEF Asks
  <2>2. Hello'
    BY <1>1, <2>1 DEF Hello
  <2>3. PICK e \in Requests : toServer' = Append(toServer, e) /\ e.type = job
    <3>1. [type |-> job, appl |-> appl] \in Requests
      BY DEF Requests, Types
    <3>2. QED
      BY <1>3, <3>1 DEF Asks
  <2>4. ASSUME NEW r \in Ids PROVE Polls(r)' = Polls(r)
    <3>1. ~ Polling(e, r)
      BY <2>3 DEF Polling, Jobs, StartJobs
    <3>2. PollsIn(toServer', r) = PollsIn(toServer, r)
      BY <1>1, <2>3, <3>1, PollsAppend, PollsType
    <3>3. QED
      BY <2>1, <3>2 DEF Polls
  <2>5. Counted'
    BY <1>1, <2>1, <2>4 DEF Counted
  <2>6. QED
    BY <2>2, <2>5
<1>4. ASSUME NEW p \in Arriving, NEW n \in 1 .. Len(toClient), Takes(p, n), Finishes(p) \/ Handles(p)
      PROVE  Hello' /\ Counted'
  <2>1. \A r \in Ids : Steady(r)
    BY <1>1, <1>4, TakesPolls
  <2>2. UNCHANGED polls /\ daemon'.job = daemon.job
    BY <1>4 DEF Takes, Finishes, Handles
  <2>3. QED
    BY <1>1, <2>1, <2>2, SteadyKeeps DEF Hello
<1>5. CASE local_register_appl
  <2>1. \A r \in Ids : Steady(r)
    BY <1>1, <1>5, RegisterPolls
  <2>2. daemon'.job # "HELO"
    <3>1. \E pc \in DaemonPcs : daemon' = [daemon EXCEPT !.pc = pc]
      BY <1>1, <1>5 DEF local_register_appl, remote_waitforsignal, Send, DaemonPcs
    <3>2. daemon.job = "REGISTER"
      BY <1>5 DEF local_register_appl
    <3>3. QED
      BY <1>1, <3>1, <3>2, MoveType
  <2>3. QED
    BY <1>1, <2>1, <2>2, SteadyKeeps DEF Hello
<1>6. CASE \/ ServerAnswers
           \/ \E r \in Ids : ServerWakes(r)
           \/ \E r \in Remotes : MessageArrives(r)
  <2>1. \A r \in Ids : Steady(r)
    BY <1>6, ServerPolls
  <2>2. UNCHANGED <<polls, daemon>>
    BY <1>6 DEF ServerAnswers, ServerWakes, MessageArrives, historyVars, daemonVars
  <2>3. QED
    BY <1>1, <2>1, <2>2, SteadyKeeps DEF Hello
<1>7. QED
  BY <1>2, <1>3, <1>4, <1>5, <1>6, UpCases

(* No chain of polls is broken or doubled while the connection stands and  *)
(* no answer is swallowed, and every application of the server has one.    *)
THEOREM PollsCorrect == ClientSpec => []PollsKept
<1>1. ClientInit => RegisterInv /\ PollsInv
  <2> SUFFICES ASSUME ClientInit PROVE RegisterInv /\ PollsInv
    OBVIOUS
  <2>1. RegisterInv
    BY DEF ClientInit, RegisterInv, Exclusive, Mapped, PollsBegun, Named, Told, Asked, Decided,
           NoRegister, OneRegister
  <2>2. BaseInv /\ toServer = <<>> /\ toClient = <<>> /\ \A r \in Ids : waits[r] = 0 /\ polls[r] = 0
    BY InitBase DEF ClientInit
  <2>3. ASSUME NEW r \in Ids PROVE Polls(r) = 0
    <3>1. PollsAt(<<>>, r) = {} /\ <<>> \in Seq(Requests)
      BY DEF PollsAt
    <3>2. PollsIn(<<>>, r) = 0
      BY <3>1, PollsNat, FS_EmptySet
    <3>3. QED
      BY <2>2, <3>2 DEF Polls
  <2>4. QED
    BY <2>1, <2>2, <2>3 DEF PollsInv, Hello, Counted
<1>2. BaseInv /\ RegisterInv /\ PollsInv /\ [ClientNext]_allVars => RegisterInv' /\ PollsInv'
  BY RegisterStep, PollsStep
<1>3. BaseInv /\ RegisterInv /\ PollsInv => PollsKept
  <2> SUFFICES ASSUME BaseInv, RegisterInv, PollsInv, link = "up"
               PROVE  /\ \A r \in Ids : Polls(r) <= polls[r]
                      /\ ~ swallowed => \A r \in Ids : Polls(r) = polls[r]
                      /\ ~ swallowed => \A r \in regs :
                            Polls(r) > 0 \/ (Registering /\ home[r] = daemon.appl)
    BY DEF PollsKept
  <2>1. Counted /\ PollsBegun /\ regs \subseteq Ids
    BY Basics DEF PollsInv, RegisterInv, BaseInv, ClientTypes, ServerTypes
  <2>2. QED
    BY <2>1 DEF Counted, PollsBegun, Fresh
<1>4. QED
  BY <1>1, <1>2, <1>3, InitBase, BaseStep, PTL DEF ClientSpec

=============================================================================
