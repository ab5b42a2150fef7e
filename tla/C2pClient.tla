------------------------------ MODULE C2pClient -----------------------------
(***************************************************************************)
(* The Linux client: the kernel module (Capi20Proxy) with the daemon       *)
(* c2pclient (linux-client/daemon/src/c2pclient.c) that has its device     *)
(* open, and a server at the other end of the daemon's connection.         *)
(*                                                                         *)
(* The daemon is one thread.  It polls the socket and the device in turn;  *)
(* a request to the server blocks it in wait_for_answer, which handles the *)
(* messages of applications that arrive before the answer.  Each           *)
(* application is polled by a chain of WAITFORSIGNAL and GETMESSAGE        *)
(* requests: the answer to one is the reason to send the next.             *)
(*                                                                         *)
(* A receive and what is done with the packet, up to the next system call  *)
(* another actor can notice the order of, are one step.  The server is the *)
(* environment: it answers requests in order, WAITFORSIGNAL when there is  *)
(* a message or the application is unknown to it.                          *)
(***************************************************************************)
EXTENDS Capi20Proxy

CONSTANTS
    node,       \* the daemon's open of the device
    Coalesce,   \* whether one recv() may take several answers
    Remotes,    \* application numbers the server's CAPI has left for it
    Older,      \* numbers of applications older than the controller
    MaxIn       \* bound: messages that arrive at the server

ASSUME C2pClientAssumption ==
    /\ Files = {node} /\ Blocking = {}
    /\ Payloads \subseteq {"MESSAGE"}
    /\ Coalesce \in BOOLEAN
    /\ Remotes \subseteq Appls /\ Older \subseteq Appls
    /\ MaxIn \in Nat

Ids == 0 .. CAPI_MAXAPPL

VARIABLES
    (* the daemon *)
    daemon,         \* where it is, the request it makes, its local number
    recvbuffer,     \* the answer header as the receive buffer holds it
    applmap_rtl,    \* local numbers of remote applications
    applmap_ltr,    \* remote numbers of local applications
    c2p_shutdown,
    (* the connection *)
    link,           \* "up", "eof": closed by the server, "reset", "dead"
    toServer,
    toClient,
    (* the server *)
    regs,           \* applications registered by the daemon
    waits,          \* number of WAITFORSIGNALs it holds for each number
    inbox,          \* messages for each application, numbered
    sent,           \* number of messages so far
    (* history *)
    home,           \* local application each number was last registered for
    misled,         \* numbers that a failed registration has named since
    polls,          \* number of times polling of each number was begun
    last,           \* last message of each number given to the module
    again,          \* a message was given to the module twice
    swallowed       \* an answer was received and not looked at

daemonVars  == <<daemon, recvbuffer, applmap_rtl, applmap_ltr, c2p_shutdown>>
linkVars    == <<link, toServer, toClient>>
serverVars  == <<regs, waits, inbox, sent, home, misled>>
historyVars == <<polls, last, again, swallowed>>
clientVars  == <<daemonVars, linkVars, serverVars, historyVars>>
allVars     == <<vars, clientVars>>

StartJobs == {"HELO", "MANUFACTURER", "VERSION", "SERIAL", "PROFILE"}
Jobs      == StartJobs \cup {"REGISTER", "RELEASE", "PUTMESSAGE"}
Types     == Jobs \cup {"WAITFORSIGNAL", "GETMESSAGE"}

Requests == [type : Types, appl : Ids]

(* "ok": proxy_error is PERROR_NONE.  "msg": the number of the message     *)
(* that follows, 0 if none does.  "whole": the lengths are the ones that   *)
(* were received.                                                          *)
Packets == [type : Types \cup {"OTHER", "GARBLED"}, appl : Ids, ok : BOOLEAN,
            msg : Nat, whole : BOOLEAN]

Packet(type, appl, ok, msg) ==
    [type |-> type, appl |-> appl, ok |-> ok, msg |-> msg, whole |-> TRUE]

DaemonPcs == {"start", "wait", "done", "open", "set", "loop", "read", "reading",
              "registered", "regfail", "close", "closing", "nodevice"}

DaemonTypeOK ==
    /\ TypeOK
    /\ daemon \in [pc : DaemonPcs, job : Jobs, appl : Ids]
    /\ recvbuffer \in Packets
    /\ applmap_rtl \in [Ids -> Ids] /\ applmap_ltr \in [Ids -> Ids]
    /\ c2p_shutdown \in BOOLEAN
    /\ link \in {"up", "eof", "reset", "dead"}
    /\ toServer \in Seq(Requests) /\ toClient \in Seq(Packets)
    /\ regs \subseteq Remotes
    /\ waits \in [Ids -> Nat] /\ polls \in [Ids -> Nat] /\ last \in [Ids -> Nat]
    /\ inbox \in [Ids -> Seq(Nat)] /\ sent \in Nat
    /\ home \in [Appls -> Ids] /\ misled \subseteq Ids
    /\ again \in BOOLEAN /\ swallowed \in BOOLEAN
    /\ daemon.pc \in {"loop", "read", "registered", "regfail"} => file[node].pc = "idle"
    /\ daemon.pc = "reading" => file[node].pc \in {"dequeue", "count"}

-----------------------------------------------------------------------------
ClientInit ==
    /\ Init
    /\ daemon = [pc |-> "start", job |-> "HELO", appl |-> 0]
    /\ recvbuffer = Packet("OTHER", 0, TRUE, 0)
    /\ applmap_rtl = [r \in Ids |-> 0] /\ applmap_ltr = [a \in Ids |-> 0]
    /\ c2p_shutdown = FALSE
    /\ link = "up" /\ toServer = <<>> /\ toClient = <<>>
    /\ regs = {} /\ waits = [r \in Ids |-> 0]
    /\ inbox = [r \in Ids |-> <<>>] /\ sent = 0
    /\ home = [r \in Appls |-> 0] /\ misled = {}
    /\ polls = [r \in Ids |-> 0] /\ last = [r \in Ids |-> 0]
    /\ again = FALSE /\ swallowed = FALSE

-----------------------------------------------------------------------------
(* The daemon's socket. *)

(* send(): a peer that has closed answers with a reset, sooner or later;   *)
(* after it the next send() kills the daemon with SIGPIPE.                 *)
Send(type, appl, next) ==
    \/ /\ link = "up"
       /\ toServer' = Append(toServer, [type |-> type, appl |-> appl])
       /\ daemon' = next
       /\ UNCHANGED link
    \/ /\ link = "eof"
       /\ daemon' = next
       /\ link' \in {"eof", "reset"}
       /\ UNCHANGED toServer
    \/ /\ link \in {"reset", "dead"}
       /\ daemon' = [daemon EXCEPT !.pc = "close"]
       /\ UNCHANGED <<link, toServer>>

(* recv() with something to read: one answer or several, of which only the *)
(* first is looked at.                                                     *)
Receives ==
    /\ toClient # <<>>
    /\ recvbuffer' = Head(toClient)
    /\ \E n \in 1 .. (IF Coalesce THEN Len(toClient) ELSE 1) :
          /\ toClient' = SubSeq(toClient, n + 1, Len(toClient))
          /\ swallowed' = (swallowed \/ n > 1)

(* recv() that returns 0, or -1 once after a reset: the buffer stays. *)
AtEnd == toClient = <<>> /\ link \in {"eof", "dead"}

Fails ==
    /\ toClient = <<>> /\ link = "reset"
    /\ link' = "dead"
    /\ UNCHANGED <<recvbuffer, toServer, toClient, swallowed>>

(* What the header in the buffer may be taken for: a message of an         *)
(* application has overwritten it, or not.                                 *)
Stale ==
    IF recvbuffer.type # "GARBLED" THEN {recvbuffer}
    ELSE [type : {"WAITFORSIGNAL", "GETMESSAGE", "OTHER"}, appl : Ids,
          ok : BOOLEAN, msg : {0}, whole : {FALSE}]

-----------------------------------------------------------------------------
(* Packets that no request waits for. *)

remote_waitforsignal(appl, next) == Send("WAITFORSIGNAL", appl, next)

remote_get_message(appl, next) == Send("GETMESSAGE", appl, next)

(* The module takes the message if the card is running.  A message goes to *)
(* applmap_rtl of the number it carries; an answer without one is written  *)
(* with length 0.                                                          *)
send_to_module(p) ==
    IF p.msg # 0 /\ p.whole /\ capiproxy_write(node)
    THEN /\ last' = [last EXCEPT ![p.appl] = p.msg]
         /\ again' = (again \/ p.msg <= last[p.appl])
    ELSE UNCHANGED <<last, again>>

handle_serverpacket(p, next) ==
    \/ /\ p.type = "WAITFORSIGNAL"
       /\ remote_get_message(p.appl, next)
       /\ UNCHANGED <<last, again>>
    \/ /\ p.type = "GETMESSAGE"
       /\ send_to_module(p)
       /\ remote_waitforsignal(p.appl, next)
    \/ /\ p.type = "GETMESSAGE" /\ ~ p.whole    \* memcpy of a stale length
       /\ daemon' = [daemon EXCEPT !.pc = "close"]
       /\ UNCHANGED <<link, toServer, last, again>>
    \/ /\ p.type \notin {"WAITFORSIGNAL", "GETMESSAGE"}
       /\ daemon' = next
       /\ UNCHANGED <<link, toServer, last, again>>

(* Mutant: the end of a release is reported like a failed registration. *)
AfterWait_Released(job) ==
    CASE job = "RELEASE" -> "regfail" [] job = "PUTMESSAGE" -> "loop" [] OTHER -> "done"

(* The outcome of a release or of a message interests nobody. *)
AfterWait(job) == IF job \in {"RELEASE", "PUTMESSAGE"} THEN "loop" ELSE "done"

(* Mutant: packets of other types are thrown away. *)
wait_for_answer_Discards ==
    LET p    == Head(toClient)
        done == [daemon EXCEPT !.pc = AfterWait(daemon.job)]
    IN  /\ daemon.pc = "wait"
        /\ Receives
        /\ daemon' = IF daemon.job = "HELO" \/ p.type = daemon.job THEN done ELSE daemon
        /\ UNCHANGED <<link, toServer, last, again>>
        /\ UNCHANGED <<vars, applmap_rtl, applmap_ltr, c2p_shutdown, serverVars, polls>>

(* Blocks until an answer of the type asked for arrives or the connection  *)
(* has ended.  HELO takes what comes first.                                *)
wait_for_answer ==
    LET p    == Head(toClient)
        done == [daemon EXCEPT !.pc = AfterWait(daemon.job)]
    IN  /\ daemon.pc = "wait"
        /\ \/ /\ Receives
              /\ \/ /\ daemon.job = "HELO" \/ p.type = daemon.job
                    /\ daemon' = done
                    /\ UNCHANGED <<link, toServer, last, again>>
                 \/ /\ daemon.job # "HELO" /\ p.type # daemon.job
                    /\ handle_serverpacket(p, daemon)
           \/ /\ AtEnd
              /\ daemon' = done
              /\ UNCHANGED <<recvbuffer, linkVars, last, again, swallowed>>
           \/ /\ Fails
              /\ daemon' = done
              /\ UNCHANGED <<last, again>>
        /\ UNCHANGED <<vars, applmap_rtl, applmap_ltr, c2p_shutdown, serverVars, polls>>

-----------------------------------------------------------------------------
(* Requests that are waited for. *)

Ask(job, appl, local) == Send(job, appl, [pc |-> "wait", job |-> job, appl |-> local])

init_socket             == Ask("HELO", 0, 0)
remote_get_manufacturer == Ask("MANUFACTURER", 0, 0)
remote_get_version      == Ask("VERSION", 0, 0)
remote_get_serial       == Ask("SERIAL", 0, 0)
remote_get_profile      == Ask("PROFILE", 0, 0)

remote_register_appl(local) == Ask("REGISTER", 0, local)

remote_release_appl(appl) == Ask("RELEASE", appl, appl)

(* The number is passed on as the module knows it. *)
local_release_appl(appl) == remote_release_appl(appl)

send_to_server(local) == Ask("PUTMESSAGE", applmap_ltr[local], local)

(* init_socket and init_module: main() ignores whether they succeed.       *)
(* Without the four answers the device is not opened and the daemon goes   *)
(* on with node = 0, reading its standard input.                           *)
init_module ==
    /\ \/ /\ daemon.pc = "start"
          /\ init_socket
       \/ /\ daemon.pc = "done" /\ daemon.job = "HELO"
          /\ remote_get_manufacturer
       \/ /\ daemon.pc = "done"
          /\ \E p \in Stale :
                /\ p.ok
                /\ \/ daemon.job = "MANUFACTURER" /\ remote_get_version
                   \/ daemon.job = "VERSION" /\ remote_get_serial
                   \/ daemon.job = "SERIAL" /\ remote_get_profile
                   \/ /\ daemon.job = "PROFILE"
                      /\ daemon' = [daemon EXCEPT !.pc = "open"]
                      /\ UNCHANGED <<link, toServer>>
       \/ /\ daemon.pc = "done" /\ daemon.job \in StartJobs \ {"HELO"}
          /\ \E p \in Stale : ~ p.ok
          /\ daemon' = [daemon EXCEPT !.pc = "nodevice"]
          /\ UNCHANGED <<link, toServer>>
    /\ UNCHANGED <<vars, recvbuffer, applmap_rtl, applmap_ltr, c2p_shutdown,
                   toClient, serverVars, historyVars>>

(* open() and IOCTL_SET_DATA. *)
OpenNode ==
    /\ \/ /\ daemon.pc = "open"
          /\ capiproxy_open(node)
          /\ daemon' = [daemon EXCEPT !.pc = "set"]
       \/ /\ daemon.pc = "set"
          /\ OpenAttach(node)
          /\ UNCHANGED daemon
       \/ /\ daemon.pc = "set"
          /\ IOCTL_SET_DATA(node)
          /\ daemon' = [daemon EXCEPT !.pc = "loop"]
    /\ UNCHANGED <<recvbuffer, applmap_rtl, applmap_ltr, c2p_shutdown, linkVars,
                   serverVars, historyVars>>

(* Mutant: a number that was mapped before keeps its old application. *)
local_register_appl_Once ==
    /\ daemon.pc = "done" /\ daemon.job = "REGISTER"
    /\ \E p \in Stale :
          \/ /\ p.ok
             /\ applmap_rtl' = [applmap_rtl EXCEPT ![p.appl] =
                                   IF @ = 0 THEN daemon.appl ELSE @]
             /\ applmap_ltr' = [applmap_ltr EXCEPT ![daemon.appl] = p.appl]
             /\ polls' = [polls EXCEPT ![p.appl] = IF link = "up" THEN @ + 1 ELSE @]
             /\ remote_waitforsignal(p.appl, [daemon EXCEPT !.pc = "registered"])
          \/ /\ ~ p.ok
             /\ daemon' = [daemon EXCEPT !.pc = "regfail"]
             /\ UNCHANGED <<applmap_rtl, applmap_ltr, polls, link, toServer>>
    /\ UNCHANGED <<vars, recvbuffer, c2p_shutdown, toClient, serverVars, last,
                   again, swallowed>>

(* Mutant: a failure is not reported to the module. *)
local_register_appl_Quiet ==
    /\ daemon.pc = "done" /\ daemon.job = "REGISTER"
    /\ \E p \in Stale :
          \/ /\ p.ok
             /\ applmap_rtl' = [applmap_rtl EXCEPT ![p.appl] = daemon.appl]
             /\ applmap_ltr' = [applmap_ltr EXCEPT ![daemon.appl] = p.appl]
             /\ polls' = [polls EXCEPT ![p.appl] = IF link = "up" THEN @ + 1 ELSE @]
             /\ remote_waitforsignal(p.appl, [daemon EXCEPT !.pc = "registered"])
          \/ /\ ~ p.ok
             /\ daemon' = [daemon EXCEPT !.pc = "loop"]
             /\ UNCHANGED <<applmap_rtl, applmap_ltr, polls, link, toServer>>
    /\ UNCHANGED <<vars, recvbuffer, c2p_shutdown, toClient, serverVars, last,
                   again, swallowed>>

(* The answer to REGISTER, or what the buffer holds if none came.          *)
(* capi_error is not looked at.                                            *)
local_register_appl ==
    /\ daemon.pc = "done" /\ daemon.job = "REGISTER"
    /\ \E p \in Stale :
          \/ /\ p.ok
             /\ applmap_rtl' = [applmap_rtl EXCEPT ![p.appl] = daemon.appl]
             /\ applmap_ltr' = [applmap_ltr EXCEPT ![daemon.appl] = p.appl]
             /\ polls' = [polls EXCEPT ![p.appl] = IF link = "up" THEN @ + 1 ELSE @]
             /\ remote_waitforsignal(p.appl, [daemon EXCEPT !.pc = "registered"])
          \/ /\ ~ p.ok
             /\ daemon' = [daemon EXCEPT !.pc = "regfail"]
             /\ UNCHANGED <<applmap_rtl, applmap_ltr, polls, link, toServer>>
    /\ UNCHANGED <<vars, recvbuffer, c2p_shutdown, toClient, serverVars, last,
                   again, swallowed>>

-----------------------------------------------------------------------------
(* main *)

Loop == [daemon EXCEPT !.pc = "loop"]

(* Mutant: a message in the buffer is given to the module once more when   *)
(* there is nothing to receive.                                            *)
PollSocket_Retries ==
    LET next == [daemon EXCEPT !.pc = "read"] IN
    /\ daemon.pc = "loop" /\ ~ c2p_shutdown
    /\ \/ Receives /\ handle_serverpacket(Head(toClient), next)
       \/ /\ toClient = <<>> /\ recvbuffer.type = "GETMESSAGE"
          /\ send_to_module(recvbuffer)
          /\ daemon' = next
          /\ UNCHANGED <<recvbuffer, linkVars, swallowed>>
    /\ UNCHANGED <<vars, applmap_rtl, applmap_ltr, c2p_shutdown, serverVars, polls>>

(* recv() without waiting, if there is something to receive; at the end of *)
(* the connection it returns 0 and what the buffer holds is handled again. *)
PollSocket ==
    LET next == [daemon EXCEPT !.pc = "read"] IN
    /\ daemon.pc = "loop" /\ ~ c2p_shutdown
    /\ \/ Receives /\ handle_serverpacket(Head(toClient), next)
       \/ /\ AtEnd
          /\ \E p \in Stale : handle_serverpacket(p, next)
          /\ UNCHANGED <<recvbuffer, toClient, swallowed>>
       \/ /\ Fails
          /\ daemon' = next
          /\ UNCHANGED <<last, again>>
    /\ UNCHANGED <<vars, applmap_rtl, applmap_ltr, c2p_shutdown, serverVars, polls>>

(* What is done with a message of the module.  It overwrites the start of  *)
(* the buffer; a control message leaves type, number and error in place.   *)
Dispatch(m) ==
    /\ \/ m.kind = "REGISTER_APP" /\ remote_register_appl(m.appl) /\ UNCHANGED c2p_shutdown
       \/ m.kind = "RELEASE_APP" /\ local_release_appl(m.appl) /\ UNCHANGED c2p_shutdown
       \/ m.kind = "MESSAGE" /\ send_to_server(m.appl) /\ UNCHANGED c2p_shutdown
       \/ /\ m.kind = "SHUTDOWN"
          /\ c2p_shutdown' = TRUE
          /\ daemon' = Loop
          /\ UNCHANGED <<link, toServer>>
    /\ recvbuffer' \in
          {[recvbuffer EXCEPT !.whole = FALSE]} \cup
          (IF m.kind = "MESSAGE"
           THEN {[recvbuffer EXCEPT !.type = "GARBLED", !.whole = FALSE]} ELSE {})

Polled ==
    \/ daemon.pc = "read"
    \/ daemon.pc = "loop" /\ ~ c2p_shutdown /\ toClient = <<>> /\ link = "up"

(* read() from the device, which is opened with O_NONBLOCK, in the steps   *)
(* of the module.                                                          *)
ReadNode ==
    /\ \/ /\ Polled
          /\ capiproxy_read(node)
          /\ daemon' = IF file'[node].pc = "idle" THEN Loop
                       ELSE [daemon EXCEPT !.pc = "reading"]
          /\ UNCHANGED <<recvbuffer, c2p_shutdown, link, toServer>>
       \/ /\ daemon.pc = "reading"
          /\ ReadDequeue(node, {"count"})
          /\ UNCHANGED <<daemon, recvbuffer, c2p_shutdown, link, toServer>>
       \/ /\ daemon.pc = "reading"
          /\ ReadCount(node)
          /\ Dispatch(file[node].msg)
    /\ UNCHANGED <<applmap_rtl, applmap_ltr, toClient, serverVars, historyVars>>

(* The outcome of a registration is reported to the module. *)
Report ==
    /\ \/ daemon.pc = "registered" /\ IOCTL_APPL_REGISTERED(node, daemon.appl)
       \/ daemon.pc = "regfail" /\ IOCTL_ERROR_REGFAIL(node, daemon.appl)
    /\ daemon' = Loop
    /\ UNCHANGED <<recvbuffer, applmap_rtl, applmap_ltr, c2p_shutdown, linkVars,
                   serverVars, historyVars>>

(* The process ends, at the end of main() or killed: close(node) and       *)
(* close(sc).  What it and the server kept for each other is forgotten at  *)
(* once, for nothing reads it any more.                                    *)
Forget ==
    /\ recvbuffer' = Packet("OTHER", 0, TRUE, 0)
    /\ applmap_rtl' = [r \in Ids |-> 0] /\ applmap_ltr' = [a \in Ids |-> 0]
    /\ link' = "dead" /\ toServer' = <<>> /\ toClient' = <<>>
    /\ regs' = {} /\ waits' = [r \in Ids |-> 0]
    /\ inbox' = [r \in Ids |-> <<>>] /\ sent' = MaxIn
    /\ home' = [r \in Appls |-> 0] /\ misled' = {}
    /\ polls' = [r \in Ids |-> 0] /\ last' = [r \in Ids |-> 0]
    /\ again' = FALSE /\ swallowed' = FALSE

Shutdown ==
    /\ \/ /\ daemon.pc = "loop" /\ c2p_shutdown
          /\ daemon' = [daemon EXCEPT !.pc = "close"]
          /\ UNCHANGED <<vars, recvbuffer, applmap_rtl, applmap_ltr, linkVars,
                         serverVars, historyVars>>
       \/ /\ daemon.pc = "close"
          /\ IF file[node].pc = "idle" THEN capiproxy_release(node) ELSE UNCHANGED vars
          /\ Forget
          /\ daemon' = [pc |-> "closing", job |-> "HELO", appl |-> 0]
       \/ /\ daemon.pc = "closing"
          /\ ReleaseFlush(node) \/ ReleaseDetach(node)
          /\ UNCHANGED <<daemon, recvbuffer, applmap_rtl, applmap_ltr, linkVars,
                         serverVars, historyVars>>
    /\ UNCHANGED c2p_shutdown

(* SIGINT only sets the flag that the loop tests, so it may as well come   *)
(* just before the test.                                                   *)
sighandler ==
    /\ daemon.pc = "loop" /\ ~ c2p_shutdown
    /\ c2p_shutdown' = TRUE
    /\ UNCHANGED <<vars, daemon, recvbuffer, applmap_rtl, applmap_ltr, linkVars,
                   serverVars, historyVars>>

DaemonStep ==
    \/ init_module \/ OpenNode
    \/ wait_for_answer \/ local_register_appl
    \/ PollSocket \/ ReadNode \/ Report \/ Shutdown

-----------------------------------------------------------------------------
(* The server. *)

Answer(type, appl, ok, msg) == toClient' = Append(toClient, Packet(type, appl, ok, msg))

(* If the CAPI refuses, proxy_error is PERROR_NONE all the same and the    *)
(* number one that an earlier registration left behind, or 0.              *)
LeftBehind ==
    LET given == {r \in Remotes : home[r] # 0} IN IF given = {} THEN {0} ELSE given

ServerRegisters ==
    \/ \E r \in Remotes \ regs :
          /\ regs' = regs \cup {r}
          /\ home' = [home EXCEPT ![r] = daemon.appl]
          /\ misled' = misled \ {r}
          /\ Answer("REGISTER", r, TRUE, 0)
    \/ \E r \in LeftBehind :
          /\ misled' = misled \cup {r}
          /\ Answer("REGISTER", r, TRUE, 0)
          /\ UNCHANGED <<regs, home>>
    \/ /\ Answer("REGISTER", 0, FALSE, 0)
       /\ UNCHANGED <<regs, home, misled>>

ServerAnswers ==
    LET q == Head(toServer)
        r == q.appl
    IN  /\ link = "up" /\ toServer # <<>>
        /\ toServer' = Tail(toServer)
        /\ \/ /\ q.type \in StartJobs \cup {"PUTMESSAGE"}
              /\ \E ok \in BOOLEAN \ (IF q.type = "PUTMESSAGE" THEN {FALSE} ELSE {}) :
                    Answer(q.type, r, ok, 0)
              /\ UNCHANGED <<regs, waits, inbox, home, misled>>
           \/ /\ q.type = "REGISTER"
              /\ ServerRegisters
              /\ UNCHANGED <<waits, inbox>>
           \/ /\ q.type = "RELEASE"
              /\ regs' = regs \ {r}
              /\ inbox' = [inbox EXCEPT ![r] = <<>>]
              /\ Answer("RELEASE", r, TRUE, 0)
              /\ UNCHANGED <<waits, home, misled>>
           \/ /\ q.type = "WAITFORSIGNAL"
              /\ waits' = [waits EXCEPT ![r] = @ + 1]
              /\ UNCHANGED <<toClient, regs, inbox, home, misled>>
           \/ /\ q.type = "GETMESSAGE"
              /\ IF inbox[r] # <<>>
                 THEN /\ Answer("GETMESSAGE", r, TRUE, Head(inbox[r]))
                      /\ inbox' = [inbox EXCEPT ![r] = Tail(@)]
                 ELSE /\ Answer("GETMESSAGE", r, TRUE, 0)
                      /\ UNCHANGED inbox
              /\ UNCHANGED <<regs, waits, home, misled>>
        /\ UNCHANGED <<vars, daemonVars, link, sent, historyVars>>

(* A WAITFORSIGNAL is answered when there is a message, or nothing to wait *)
(* for.                                                                    *)
ServerWakes(r) ==
    /\ link = "up" /\ waits[r] > 0
    /\ r \notin regs \/ inbox[r] # <<>>
    /\ waits' = [waits EXCEPT ![r] = @ - 1]
    /\ Answer("WAITFORSIGNAL", r, TRUE, 0)
    /\ UNCHANGED <<vars, daemonVars, link, toServer, regs, inbox, sent, home, misled,
                   historyVars>>

MessageArrives(r) ==
    /\ link = "up" /\ r \in regs /\ sent < MaxIn
    /\ sent' = sent + 1
    /\ inbox' = [inbox EXCEPT ![r] = Append(@, sent')]
    /\ UNCHANGED <<vars, daemonVars, linkVars, regs, waits, home, misled, historyVars>>

(* Closing with requests unread resets the connection. *)
ServerCloses ==
    /\ link = "up"
    /\ link' = IF toServer = <<>> THEN "eof" ELSE "reset"
    /\ toServer' = <<>>
    /\ regs' = {}
    /\ waits' = [r \in Ids |-> 0]
    /\ inbox' = [r \in Ids |-> <<>>]
    /\ home' = [r \in Appls |-> 0] /\ misled' = {}
    /\ polls' = [r \in Ids |-> 0]
    /\ sent' = MaxIn
    /\ swallowed' = FALSE
    /\ UNCHANGED <<vars, daemonVars, toClient, last, again>>

ServerStep == ServerAnswers \/ \E r \in Ids : ServerWakes(r)

-----------------------------------------------------------------------------
(* Bound: kernelcapi gives out the smallest number that is free; its first *)
(* call registers an application that is older than the controller, if     *)
(* there is one, and smaller numbers may have become free since.           *)
InOrder ==
    \A k \in Cards : \A a \in kappl'[k] \ kappl[k] :
        IF calls = 0 /\ Older # {} THEN a \in Older ELSE 1 .. a - 1 \subseteq kappl[k]

(* kernelcapi.  No reader ever sleeps, so the bottom half has nobody to    *)
(* wake and is left out.                                                   *)
ModuleStep ==
    /\ \E t \in Threads : KcapiCalls(t) \/ CallStep(t)
    /\ InOrder
    /\ UNCHANGED clientVars

ClientNext ==
    /\ ~ oops
    /\ \/ ModuleStep \/ DaemonStep \/ sighandler
       \/ ServerStep \/ ServerCloses
       \/ \E r \in Remotes : MessageArrives(r)

ClientSpec == ClientInit /\ [][ClientNext]_allVars

(* The kernel runs threads and processes; the server takes the requests.   *)
(* kernelcapi need not call, and no WAITFORSIGNAL need ever be answered.   *)
ClientFairSpec ==
    /\ ClientSpec
    /\ \A t \in Threads : WF_allVars(~ oops /\ CallStep(t) /\ UNCHANGED clientVars)
    /\ WF_allVars(~ oops /\ DaemonStep)
    /\ WF_allVars(~ oops /\ ServerAnswers)

-----------------------------------------------------------------------------
(* Properties. *)

Registering == daemon.job = "REGISTER" /\ daemon.pc \in {"wait", "done"}

(* A message for an application of the server reaches the local            *)
(* application it was registered for: applmap_rtl, which no release ever   *)
(* clears, is right for every number the server has registered, however    *)
(* often numbers were released and given out again.  Only a registration   *)
(* that failed, which the daemon takes for a success, can redirect one.    *)
MapsAgree ==
    link = "up" => \A r \in regs \ misled :
        applmap_rtl[r] = home[r] \/ (Registering /\ home[r] = daemon.appl)

PollsIn(q, r) ==
    Cardinality({i \in 1 .. Len(q) : q[i].type \in {"WAITFORSIGNAL", "GETMESSAGE"}
                                     /\ q[i].appl = r})

Polls(r) == PollsIn(toServer, r) + waits[r] + PollsIn(toClient, r)

(* No chain of polls is broken or doubled, although its answers arrive in  *)
(* the middle of other requests: each registration starts one, and every   *)
(* application of the server has one, unless an answer was swallowed by a  *)
(* recv() that took two.  (Chains of released applications go on.)         *)
PollsKept ==
    link = "up" =>
        /\ \A r \in Ids : Polls(r) <= polls[r]
        /\ ~ swallowed => \A r \in Ids : Polls(r) = polls[r]
        /\ ~ swallowed => \A r \in regs :
              Polls(r) > 0 \/ (Registering /\ home[r] = daemon.appl)

(* No message is given to the module twice or out of order while the       *)
(* connection stands; only its end makes the daemon handle the packet in   *)
(* its buffer again.                                                       *)
DeliveredOnce == again => link # "up"

(* The daemon's ioctl does not look at the state of the application.  A    *)
(* number that kernelcapi has released comes back to life only by an       *)
(* answer that arrives before the daemon has read the release.  (It needs  *)
(* a queue that loses no release: below its limit, memory for the message, *)
(* no reset_ctr.)                                                          *)
RevivedOnlyLate ==
    [][\A k \in Cards, a \in Appls :
          (/\ applications[k][a] = "FREE" /\ applications'[k][a] # "FREE"
           /\ kctr[k] = "ready" /\ a \notin kappl[k])
          => \E i \in 1 .. Len(queue[k]) :
                queue[k][i] = [kind |-> "RELEASE_APP", appl |-> a]]_allVars

Trouble ==
    link # "up" \/ swallowed \/ c2p_shutdown \/ kctr[0] # "ready" \/ oops

(* Every registration that kernelcapi asks for is answered through the     *)
(* ioctl, however many applications the daemon polls meanwhile, unless the *)
(* connection, the daemon or the controller ends or an answer is lost.     *)
RegisterAnswered ==
    \A a \in Appls :
        (\E i \in 1 .. Len(queue[0]) : queue[0][i] = [kind |-> "REGISTER_APP", appl |-> a])
        ~> (ack[0][a] # "none" \/ Trouble)

(* What the comment on read() says, "The daemon shall handle mapping the   *)
(* application identifiers known to this (CLIENT's) CAPI with the          *)
(* application identifiers known to the SERVER's CAPI": a registration     *)
(* with the server ends only when its own application is released.         *)
ReleasesOwn ==
    [][link' = "up" => \A r \in regs \ regs' : home[r] = daemon.appl]_allVars
=============================================================================
