# capi20proxy: a TLA+ model

capi20proxy makes an ISDN card reachable over TCP. A *server* runs next to the
card and makes CAPI 2.0 calls for remote applications; a *client* offers the
CAPI to local applications and forwards every call to the server. There is a
client and a server for Win32 and for Linux, all speaking the protocol of
`protocol.h`.

This directory holds TLA+ modules that model both servers and both clients, TLC
configurations that check them on small instances, and proofs, checked by TLAPS, of
all but one of the safety invariants the runs check, for every value of the constants.

    tlc -workers 2 -config MC_CapiFwd_sessions.cfg MC_CapiFwd
    tlapm CapiFwdProofs.tla         # and the other modules named *Proofs

## 1. The system

| Component | Code | State it keeps | Operations | Correct when |
|---|---|---|---|---|
| Wire protocol | `*/protocol.h` | none | headers, types, error codes | an answer names its request by `message_id` |
| Linux server `capifwd` | `linux-server/src` | listener: `sessionID`, sockets; per handler process: `registered_apps`, `in_packet`, `out_packet`; waiting children | accept/fork, 13 request handlers, `release_all`, signals | sessions are distinct, every request is answered once by its own handler, what a client registered is given back when it goes |
| Win32 server `capi20server` | `win32-server/capi20server.cpp` | `run`, `pause`, `sockets[]`; per session thread: socket, `registered_apps`; waiter threads | accept, session loop, request handlers, control handler, `ServiceExit` | a slot belongs to one session, applications are given back, stopping stops everything |
| Win32 client `capi2032.dll` | `win32-client/capi2032.cpp` | `socke`, `session_id`, `msg_id`, list of awaited answers, list of applications with their last message | load, 10 exported functions, receiver thread, unload | a call returns the answer to its own request; memory is freed once |
| Linux client, kernel module | `linux-client/module/capi20proxy.c` | cards, application states, `sk_buff` queue, `sk_pending` | driver operations called by kernelcapi, device open/read/write/ioctl/release, bottom half | an open file owns its card; queue, counter and limit move together; registrations are answered |
| Linux client, daemon | `linux-client/daemon/src/c2pclient.c` | socket, device, `recvbuffer`, maps between local and remote application numbers | start-up requests, polling loop, requests with a nested wait for their answer | maps agree with the server, every application is polled by one chain, no message is repeated |
| Control panels, old server | `*/CPL`, `linux-server/src/old` | registry values; not built | | not modelled |

How they interact: a client connects, says HELO and learns a session id, may send
AUTH, and then makes CAPI calls. A call is a request with a message id of the
client's choice; the server answers with the same id, in order except for
WAITFORSIGNAL, whose answer comes from a child process (Linux) or thread (Win32)
at any later time on the same socket. Neither side retries or has a timeout. On
Linux the client is in two parts: kernelcapi calls the kernel module in any number
of threads, the module queues control messages (register, release, shutdown) and
messages of applications for the daemon, which reads them from `/dev/capiproxy`, asks
the server, and reports back with `ioctl` and `write`.

What is hard here: several processes or threads write to one socket; the Win32
client matches answers to callers in a linked list that callers and the receiver
change concurrently; the kernel module empties its queue without the lock that
senders take; the daemon, one thread, serves the polls of all applications while it
waits for the answer to something else; `recv()` boundaries are taken for message boundaries; a
broken connection, a signal or a stop request may come at any point and must not
lose registered applications; tables and descriptors run out. `PROJECT.json`
lists these hazards at their lines with the properties aimed at them.

## 2. Modules

| Module | Models | Extends |
|---|---|---|
| `CapiProtocol` | message types, error codes, requests and answers | |
| `AppRegistry` | abstract: who holds which application number | |
| `CapiFwd` | the Linux server | `CapiProtocol`; instantiates `AppRegistry` |
| `CapiFwdProofs` | theorems about `CapiFwd`: sessions, applications, refinement | `CapiFwd` |
| `CapiFwdAnswersProofs` | theorems about its answers | `CapiFwdProofs` |
| `Capi20Server` | the Win32 server | `CapiProtocol` |
| `Capi20ServerProofs` | theorems about `Capi20Server` | `Capi20Server` |
| `Capi2032` | the Win32 client | `CapiProtocol` |
| `Capi2032Proofs` | theorems about `Capi2032` with any number of threads: types, answers, buffers | `Capi2032` |
| `Capi2032ListProofs` | the same, for the list of awaited answers | `Capi2032Proofs` |
| `Capi2032SerialProofs` | theorems about `Capi2032` with one thread | `Capi2032ListProofs` |
| `Capi20Proxy` | the kernel module of the Linux client | |
| `Capi20ProxyProofs` | theorems about `Capi20Proxy` | `Capi20Proxy` |
| `C2pClient` | the daemon, composed with the kernel module and a server | `Capi20Proxy` |
| `C2pClientProofs` | theorems about `C2pClient` | `C2pClient`, `Capi20ProxyProofs` |
| `MC_*` | instances for TLC | the module they are named after |

Operators named `X_Y`, marked "Mutant" in their comment, are `X` with a plausible
mistake. No specification uses them; replacing `X` by `X_Y` makes TLC report the
property that watches over `X`.

### CapiFwd

One handler process per connection is a value of `handler[c]`, from `"serving"` over
`"releasing"` (in `release_all`) to `"exited"`, or `"sigpipe"`/`"sigterm"` when a
signal ended it. `asked[c]` is the byte stream from the client as a log of requests,
`taken[c]` how far the handler has read, `answers[c]` what the client received.
`sess`, `registered_apps` and `out_packet` are the process's copies after `fork()`.
`owner` and `inbox` are the CAPI driver, external code: an application number
belongs to the process that registered it, and a driver takes back what a dead
process held once no child of it is left (`Reap`).

`HandleRequest(c)` is one turn of the loop in `main()`: read the header, read the
remainder, check the session, call an `exec_*` function, which makes the CAPI call
and sends. Details of the code that the model keeps because properties depend on
them:

* a request without remainder makes `recvn()` return 0, which is taken for a
  disconnect: the handler goes to `release_all()`;
* a CAPI request with another session id is dropped without an answer;
* `out_packet` is one static buffer: a failed REGISTER reports the application
  number an earlier answer left there;
* `listening` ends for good when `accept()` or `fork()` fails, and the listener
  never closes its copy of a connection's socket (`fds`), so that with the descriptors
  used up `accept()` fails. Nothing is claimed of a server that has come to that;
* nothing handles SIGPIPE: a handler that answers a reset connection may die in
  `send()`. A waiting child that dies so is the same as one that is killed.

`registered_apps`, a `char` array indexed from 1 to `CAPI_MAXAPPL` inclusive, is a
set; it has one byte less than that loop reads, and the model treats the last
number as an ordinary entry.

### Capi20Server

`thread[c]` is the session thread started for connection `c`, with its slot `sess`
and the socket it found in `sockets[]`, which is not `c` when two threads share a
slot. All sessions are one process to the CAPI, so `apps` has no owners: any
session may release any number. `getfirst_app` is modelled as written: its loop
does not increment `i`, so a session that ends releases application 1 if it lists
it and then never ends; the `closesocket()` and `freeSession()` that follow are not
reached and have no action. `recv()` may return several requests (`Coalesce`), of
which only the first is seen. A session id is a slot's number plus 0x10000, so a
client may also use one that an earlier connection was told (`OldIds`).

`ServiceExit` waits for `RunningThread`, which is set only when the server runs in a
console; as a service the wait fails at once and the service thread goes on, so that
it may accept a connection after all sockets have been closed. The model has both
cases. Nothing follows the stop: the end of the process is not modelled.

### Capi2032

A call of thread `t` is `<<t, n>>`; this pair also names the list node it allocates,
the stack variable the node points to and the message buffer it may keep. The
steps of a call are cut where another thread can come between a read and its use:
load and store of `msg_id`, read of `hash_start` before `EnterCriticalSection`, the
locked part of `addToHash`, send, return. The receiver's steps are cut likewise.
`CAPI_GET_MESSAGE` has one more cut: it passes the start of the application list by
value to `setdata_app`, which then takes the lock (`GetMessage_copies`, state `"keep"`,
`GetMessage_keeps`). If the first application was released in between, the walk begins
in freed memory: it may find the application, or none, lose the message, or fault. The
copy of a message whose lengths are wrong is never freed (`GetMessage_malformed`); a
copy for which there is no memory is not made (`GetMessage_fails`).
Memory errors set `wild`, after which the process takes no step: storing through a
NULL pointer or into a returned frame, or following a freed node. A stale node is
undefined behaviour, so `addToHash` then links the entry, loses it or faults.
Unloading shuts the socket down for receiving, closes it when the receiver has ended or
has not noticed for two seconds, and marks the entries of calls that wait. An answer the
receiver has begun to hand over is taken to be handed over by then, and
`Sleep(500)` in `DllMain` to be long enough for calls that have been woken
to return (`FreeApps`). The handshake (`initConnection`, `do_auth`) is one step with
its possible outcomes; one is that `do_auth` is refused, closes the socket, and
loading succeeds all the same. The server is the environment: it answers, in any
order, or refuses.

### Capi20Proxy

`status`, `applications`, `queue` and `sk_pending` are the fields of `cards[]`.
`call[t]` is the driver operation that thread `t` of kernelcapi is in, `file[f]` the
system call of the process that has opened `f`. A call is cut where it reads shared
state another actor may change before it is used: between the checks of
`send_message` and its locked part; between a read's test of the counter, its
`skb_dequeue` and its decrement; at every turn of `flush_queue`, which tests `qlen`,
dequeues and frees without the lock; and between the queueing of a control message
and the change of the application's state, which comes after it. `oops` is set when
the kernel would follow a NULL pointer (`kfree_skb(NULL)` of a flush that lost the
last buffer, a read that finds the queue empty, code that was unloaded); nothing
happens after it.

kernelcapi is external: it registers an application with a controller and releases
it in one thread at a time, sends messages from any, and stops sending *new* ones
after `suspend_output`. Notes on the code:

* `open()` runs under the kernel's lock for opening devices (2.4), so two opens do not
  interleave, but driver calls begun before the last close may still go on. It reads
  `card->ctrl` of an uninitialised `card`; the value is not used. A failure of
  `attach_ctr` is not checked in the code and not modelled.
* `owner: THIS_MODULE` keeps the module loaded while a file is open, so
  `capiproxy_exit` never meets a controller to remove.
* The cases for `CAPI_DISCONNECT_B3_RESP` and its like compare an 8-bit command with
  16-bit constants and are never taken.
* `remove_ctr` may write REMOVING after the file was closed and the card set free:
  the card is then never handed out again. A blocking reader misses a wake-up between
  its test and `interruptible_sleep_on`. Both happen in the model; no property
  excludes them.
* `write()` counts lengths twice (`skb->len` and `skb_put`); lengths are not modelled.
* Two places are coarser than the code. `open()` flushes what a late sender left in the
  queue, sets the card up and resets `ctrl_lock` in one step, so an oops of that flush
  and a sender that holds the lock meanwhile are missed. The last two writes of
  `release()` (status, then `ctrl`) are one step; an `open()` between them would lose
  its controller. No property speaks of either.
* `handle_send_msg()` in `capiproxy_exit` finds nothing to wake, since no file is open
  then, and is left out.

### C2pClient

`daemon` is where the one thread of `c2pclient` is: starting (HELO and the four
requests of `init_module`), in `wait_for_answer`, polling socket and device in turn,
reporting a registration, closing. `recvbuffer` is the answer header in the receive
buffer, which is read again when nothing was received: after the end of the
connection `recv()` returns 0 and the old packet is handled once more. What the
module's message overwrote there is a choice over what the bytes may be taken for
(`Stale`). A device call of the daemon takes the steps of `Capi20Proxy`, with
kernelcapi's threads in between.

`toServer`, `toClient` and `link` are the connection; one `recv()` may take several
answers, of which the first is looked at (`Coalesce`). A peer that has closed may
reset the connection, after which the next `send()` kills the daemon (SIGPIPE).

The server is the environment and keeps to the protocol: requests are answered in
order, WAITFORSIGNAL when the application has a message or is not known. A REGISTER
that the CAPI refuses is answered with `PERROR_NONE` and a left-over number, as both
servers of this repository do; the daemon takes it for a success. In other respects
neither of them is a peer this daemon gets along with: `capifwd` answers its HELO with
AUTH_REQUIRED, takes its requests without body for a disconnect, and the Win32 server
leaves `app_id` of WAITFORSIGNAL and GETMESSAGE answers unset. That is why the
composition assumes a server and is not made with `CapiFwd` or `Capi20Server`.

An answer without a message makes `send_to_module` look the application number up in
what an earlier message left in `sendbuffer`; the module takes nothing from the write
of length 0 that follows, so the model leaves the lookup out.

`home`, `misled`, `polls`, `last`, `again` and `swallowed` are history for the
properties. `Forget` resets what nobody reads any more once the process has ended,
to keep the state space small. A start that fails leaves `node = 0`, standard input;
the model stops at `"nodevice"`. The daemon starts connected: without a connection
its first `send()` ends it.

## 3. What TLC checks

All runs finish within five minutes with two workers. Deadlock checking is off in
all of them: the instances end when the bounded number of requests has been made and
everybody has gone.

| Run | Instance | Shows |
|---|---|---|
| `MC_CapiFwd_sessions` | 2 connections, 1 application number, 4 requests in all, 2 descriptors | `SessionsDistinct`, `AppsAccounted`, `TakenOnlyByOwner`, `RegistrySpec` |
| `MC_CapiFwd_all` | 1 connection, 3 requests of every type, with and without remainder, every branch of the length checks | `TypeOK`, `AnswersRouted` |
| `MC_CapiFwd_live` | 1 connection, 2 numbers, 4 requests, 2 in flight, waiting children | `AnsweredOnce`, `DisconnectReleases`, `RequestsServed` under `FairSpec` |
| `MC_Capi2032_serial` | 1 thread, 4 calls of every kind, 2 numbers | `TypeOK`, `MemorySafe`, `AppsAgree`, `MessageReadable`, `CallsReturn`, `DetachWakes` under `FairSpec` |
| `MC_Capi2032_threads` | 2 threads, 3 calls in all of REGISTER, RELEASE, GET_MESSAGE, `malloc` may fail, answers may coalesce | `HashSound`, `BuffersOwned`, `SuccessIsAnswered` |
| `MC_Capi2032_crossed` | 2 threads, 1 call each | violation of `OwnAnswer` |
| `MC_Capi20Server_slots` | 3 connections, 2 slots, 2 requests of every type, coalescing | `TypeOK`, `SlotsShared`, `AnsweredOnce` |
| `MC_Capi20Server_stop` | 2 connections in 1 slot, 1 number, 3 REGISTERs and RELEASEs, pause and stop | `Accounted`, `StopEndsSessions` under `FairSpec` |
| `MC_Capi20Server_release` | 1 connection, 2 numbers | violation of `AutoRelease` under `FairSpec` |
| `MC_Capi20Proxy_queue` | 1 card, 2 files, 2 threads, 3 calls of kernelcapi, removal, reset, failing `alloc_skb`, `MAX_SK_PENDING` 0 | `TypeOK`, `CardsOwned`, `PendingBounded`, `CounterKept` |
| `MC_C2pClient_polls` | 2 local numbers, 1 number at the server that they use in turn, 1 thread, 3 calls of kernelcapi, removal, 1 message, coalescing | `DaemonTypeOK`, `MapsAgree`, `PollsKept`, `DeliveredOnce`, `RevivedOnlyLate`, `RegisterAnswered` under `ClientFairSpec` |
| `MC_C2pClient_release` | as `polls`, local number 1 first | violation of `ReleasesOwn` |

Every property is stated in words above its definition. Some remarks:

* `AppsAccounted` and `RegistrySpec` are the heart of the Linux server: a handler's
  list is exactly what the CAPI holds for it, whatever mix of failed and successful
  calls went before, so that `release_all()` gives everything back.
* `SuccessIsAnswered` is what remains of "a call returns its own answer" for two
  threads: ids may be equal and answers exchanged (`OwnAnswer` is violated), but a
  call reports success only on an answer of its own type and id.
* `MemorySafe` is checked with one thread. With two, a stale `hash_start` leads to
  memory errors; `HashSound` shows that until one happens the list that walkers see
  holds allocated nodes of live calls only.
* `BuffersOwned` is about freeing messages once. With two threads a message may be lost
  (its copy leaks) or handed out after it was freed, but what an entry keeps is always
  allocated and kept nowhere else. That a message handed out with success can be read
  (`MessageReadable`) holds with one thread: another thread that releases the
  application makes `setdata_app` free it.
* `Accounted` is what one process to the CAPI leaves of a session's own list: lists may
  hold numbers that others have released and registered again, but no registered number
  is in no list.
* `CallsReturn` excepts calls of a library whose receiver has ended; `DetachWakes` says
  that unloading ends those too.
* `SlotsShared` says how far the defect of a full session table reaches: slot 0 only,
  and only while no slot is free.
* `CounterKept` is an action property because the counter and the queue are *not*
  equal in general: a flush or an open that races a sender leaves them apart for good.
  It says that nothing else does: senders and readers move both, in whatever order.
* `PendingBounded` gives the limit the code really keeps: `MAX_SK_PENDING`, one for
  `>` in place of `>=`, and one for each further thread past the check.
* `MapsAgree` has an exception, numbers that a refused registration has named
  (`misled`): the daemon does not look at `capi_error`, so such a number is mapped to
  the application that failed. Without one the maps are right although releases never
  clear them: in the run number 2 of the server is released by one local application
  and given to the other.
* `DeliveredOnce` holds while the connection stands; at its end the last message is
  handled again. The run has one message; that several stay in order is proved.
* `PollsKept` counts requests, waits and answers of a number along the whole loop
  between daemon and server: as many as registrations named it. After a release the
  chain goes on, since the server answers for unknown numbers too, and a number that is
  registered again has two. `swallowed` is the one way to lose one.
* `RevivedOnlyLate` is what remains of "only registered applications are confirmed":
  the ioctl looks at nothing, but the daemon works in the order of the queue. It holds
  in an instance where the queue loses nothing: a RELEASE_APP that is dropped at
  `MAX_SK_PENDING`, for want of memory or by `reset_ctr` leaves the number to be revived.

### Bounds

Two connections are the fewest for which one session can meet another's ids and
numbers; three for two slots overfill the Win32 table. One application number makes
connections compete for it; two are used where the order of `release_all` matters.
Four requests suffice for HELO, REGISTER, RELEASE (or WAITFORSIGNAL) and one more
that finds the state they leave. One waiting child per request can be outstanding,
with a second request in flight (`MaxPipeline = 2`). In `MC_Capi20Server_stop` clients
use the id of slot 0 from the start, so three requests are enough for a session to
register an application, another to release it and either to register it again; both
sessions of the slot read them from one socket. Three calls of two threads
include two racing calls and one that comes when their entries are freed, and a
message that is got while the other thread, having registered, releases its application. The
bounds `MaxReq`, `MaxTotal`, `MaxCalls`, `MaxPipeline`, `MaxInbox` are guards of the
environment's actions and the calls, never of the server's steps; `MaxFds` is the
process's descriptor limit. For the kernel module two threads are needed to race a
check against the lock and two flushes against each other, and two files to hand a card
over; one card makes them compete for it. In `MC_C2pClient_polls` the only number at the server
is 2. Its first user is local application 2, older than the controller (`Older`); `InOrder`
makes kernelcapi give out the smallest free number from then on, so three calls are enough
to release it and to give it to local application 1. In `MC_C2pClient_release` local
application 1 has it first, and application 2 fails to register and is released. `MaxIn`
bounds messages arriving at the server.
SIGINT comes at the test of `c2p_shutdown`, the only place that reads it. The bottom
half is left out of `C2pClient`, where no reader sleeps. Symmetry is used in runs without liveness only.

### Fairness

`CapiFwd`: weak fairness of each process's own steps (accept, read and handle, release,
exit, wake when a message is there): the kernel runs runnable processes. Clients,
signals, failures and the driver promise nothing. `Capi2032`: weak fairness of each
caller, of the receiver, of unloading once begun, and of the server answering, which
is an assumption on the peer; the application need not call and the network may break.
`Capi20Server`: weak fairness of the service thread, of `ServiceExit` and of the
session threads.
`C2pClient`: weak fairness of kernelcapi calls in progress and of the daemon (the
kernel runs them; the daemon never blocks but in `recv()`, where it has no step), and of
the server taking and answering requests, an assumption on the peer. No WAITFORSIGNAL
need ever be answered, kernelcapi need not call, the server may close at any time.

### Findings

Three runs show a statement of the code's comments or log that the code does not keep
(`findings` in `PROJECT.json`): `++msg_id` is not atomic, so answers are exchanged
between threads; `getfirst_app` on Win32 loops for ever on anything but application 1;
the daemon releases applications at the server by their local number. Two more
defects are part of the models, and the properties that hold say how far they reach:
SIGPIPE at a handler of `capifwd` skips `release_all()` (`AppsAccounted`: only
handlers that a signal ended leave anything registered), and `allocSession` returns 0, a valid
slot, when the table is full (`SlotsShared`).

## 4. What is proved

Each proof module proves its theorems for every value of the constants that satisfies
the named `ASSUME` of the modules it extends; the only further hypothesis is `Serial`, in
two theorems. The arguments below name the inductive invariants and say why the
property alone is not one.

### The Linux server

| Theorem of `CapiFwdProofs` | States |
|---|---|
| `TypeCorrect` | `Spec => []TypeOK` |
| `AppsCorrect` | `Spec => []AppsAccounted` |
| `SessionsCorrect` | `Spec => []SessionsDistinct` |
| `OnlyOwnReleaseTakes` | `Spec => TakenOnlyByOwner`, an action property |
| `RefinesRegistry` | `Spec => RegistrySpec`, i.e. `CapiFwd` implements `AppRegistry` |

| Theorem of `CapiFwdAnswersProofs` | States |
|---|---|
| `AnswersCorrect` | `Spec => []AnswersRouted` |
| `OnceCorrect` | `Spec => []AnsweredOnce` |

`TypeOK` is inductive; what it takes is that the request read from the stream is one
the client sent, that an answer built from it is well formed, and that a failed
registration copies a well-typed number from `out_packet`. `AppsAccounted` is
not inductive: its first conjunct speaks of running handlers, and a connection that has
not been accepted must not hold anything when its handler starts. The inductive
invariant `AppsInv` is `AppsAccounted` together with: a connection without a handler
has an empty list. Its second conjunct (only a running handler, or one a signal ended,
leaves a number held) then says that such a connection holds nothing either. The
refinement then needs `AppsInv` in two places: `HandlerExits` may map to `Finish` only
if the empty list means nothing is held, and `release_all` maps to `Drain` because what
is listed is held. `Phase` maps handler states to session phases; every other step
leaves `phase` and `holder` alone.

`SessionsDistinct` becomes inductive with the lower bound of the counter
(`SessionsInv`); `SessionStep` says that only `accept` starts a handler and gives out
a number. `OnlyOwnReleaseTakes` needs `TypeOK` only: `DispatchEffect` lists what
serving a request may do to the applications, and the other steps that release
(`release_all`, `Reap`) apply to handlers that no longer serve.

`AnswersRouted` speaks of answers already sent; a waiting child answers later from what
it copied at `fork()`. `RoutedInv` therefore says of every child that the request it
waits for is one its handler has read, of the right type, application and session, and
that ids number the requests of a connection. `AnsweredOnce` is inductive on top of it
with: no two children wait for one request; the id of the next request is then larger
than any that was answered or is waited for.

### The Win32 server

| Theorem of `Capi20ServerProofs` | States |
|---|---|
| `TypeCorrect` | `Spec => []TypeOK` |
| `SlotsCorrect` | `Spec => []SlotsShared` |
| `AppsCorrect` | `Spec => []Accounted` |
| `OnceCorrect` | `Spec => []AnsweredOnce` |

Here `TypeOK` is not inductive: a thread reads from the connection it finds in its slot,
which must be one. `BaseInv` adds that the slot of every started thread is in use
(`ThreadsBound`). `SlotsShared` follows since a slot, once in use, stays so: threads that
share one were started with the table full. `OnceInv` has the same parts as for
the Linux server, and must also tell the notices of a shutdown, which have id 0, from
answers. Several threads may read one socket and one `recv()` may swallow requests;
neither reads a request twice.

### The Win32 client

| Theorem | States |
|---|---|
| `Capi2032Proofs!TypeCorrect` | `Spec => []TypeOK` |
| `Capi2032Proofs!SuccessCorrect` | `Spec => []SuccessIsAnswered` |
| `Capi2032Proofs!BuffersCorrect` | `Spec => []BuffersOwned` |
| `Capi2032ListProofs!HashCorrect` | `Spec => []HashSound` |
| `Capi2032SerialProofs!MemoryCorrect` | `Serial` implies `Spec => []MemorySafe` |
| `Capi2032SerialProofs!AppsAgreeCorrect` | `Serial` implies `Spec => []AppsAgree` |

The list of awaited answers is walked by a recursive function, which is defined only if
the list has no cycle. `Chained` says so with a rank that falls along `next`; that
it holds although callers link their node behind whatever stale start they read is the core
of `ClientInv`: a node is entered once, at an end, by the call it is named
after (`AddedFirst`). What a walk returns is then shown by taking a node of least rank
for which it would be wrong (`LeastNat`, `ChainInduction`), a proof by least
counterexample, since induction schemes cannot be instantiated here. `SuccessIsAnswered`
needs that the entry the receiver found has the id of the answer it stores, even if
another call took the same id (`ReceiverInv`, `CallOK`). `BuffersOwned` is not inductive:
between its copy and its entry a message is held by a call alone. `AppsInv` adds those
calls (`Keepers`): their messages are allocated and no entry has them, entries have
different ones (`Kept`), and every buffer has the name of a call that was made, so that a
new copy is a new buffer (`BuffersOld`). It is preserved whatever the walk of `setdata_app`
from a freed start comes to, for each outcome puts the message in one place or in none.

`HashSound` speaks of the nodes reachable from `hash_start`; reachability is not
something the provers can follow through a change of `next`. `ListInv` says instead that some
set of nodes (`LiveSet`) is closed under `next`, holds the start, and consists of
allocated nodes whose calls wait; each step names the new set: with the node that was
entered, or without the one that was unlinked.

`Serial` is one thread and no failing `malloc`. With two threads neither property holds:
they may store the same `msg_id`, and a REGISTER gets the answer to a RELEASE. Without
memory for its entry the answer to a call is stored through NULL. With `Serial`,
`SerialInv` says that at most one request is in flight, with the
server, on the wire or with the receiver (`InFlight`), that its call waits and the walk for
its id leads to its node (`Found`); a store through the node therefore hits a frame
that is still there. `KeepFresh` says that the start of the application list which
`setdata_app` gets is still in it, since the one thread cannot release meanwhile.
`AppsFollow` says how the client's list differs from the server's: by
exactly what the answer on its way will make the call do (`Settles`, `Carries`).

### The Linux client

| Theorem of `Capi20ProxyProofs` | States |
|---|---|
| `TypeCorrect` | `Spec => []TypeOK` |
| `CardsCorrect` | `Spec => []CardsOwned` |
| `PendingCorrect` | `Spec => []PendingBounded` |
| `CounterCorrect` | `Spec => CounterKept`, an action property |

| Theorem of `C2pClientProofs` | States |
|---|---|
| `DaemonTypeCorrect` | `ClientSpec => []DaemonTypeOK` |
| `ModuleImplemented` | `ClientSpec => Spec`: the module in the composition is the module |
| `DeliveredCorrect` | `ClientSpec => []DeliveredOnce` |
| `MapsCorrect` | `ClientSpec => []MapsAgree` |
| `PollsCorrect` | `ClientSpec => []PollsKept` |

Of the kernel module `TypeOK` is inductive, with its conjunct that a process has a card
exactly from `open()` to the end of `release()`: the other steps of a process index
`cards[]` by it. `CardsOwned` is inductive given `TypeOK`; `OwnershipStep` says that only
`open()` and the last step of `release()` change which card a process has.
`PendingBounded` is not inductive: a thread that has passed the test in `send_message`
will still count its buffer. `PendingInv` adds those threads (`Putting`) to the counter; a
thread enters only while the counter is within the limit, and then leaves one place per
thread. `CounterKept` needs `TypeOK` only: in each step the buffers that leave the queue
are matched by a change of the counter or by a reader that still holds one (`Holders`),
and counting those is the work of `SkewKept`.

`ModuleImplemented` is why the composition may be read as one: every step of daemon and
kernelcapi in `C2pClient` is a step of the module's own specification or leaves it alone,
so the four theorems above hold there too. It rests on `BaseInv`, the inductive form of
`DaemonTypeOK`: where the daemon's system call on the device is while the daemon is where
it is (`Positions`), and that what it reports by `ioctl` are local application numbers,
which holds because only such are queued as REGISTER_APP (`Local`, `MsgsSound`).

The three other proofs look at the steps while the connection stands (`UpCases`).
`DeliveredInv` orders the numbers of an application's messages along their way: last
given to the module, on the wire, at the server. `RegisterInv` says that at most one
REGISTER is under way, as a request, an answer or in the buffer (`Exclusive`);
that the map lags by exactly the one registration whose answer is still to be looked at
(`Mapped`, `Fresh`), and that this answer names the application the daemon is registering
(`Named`). `PollsInv` counts: polls in both directions and at the server are as many as
were begun, or fewer once an answer was swallowed (`Counted`); a packet that ends a
nested wait is never a poll, since its type is that of the request, and HELO, which takes
anything, is asked before the first poll (`Hello`). `PollsTake` and `PollsAppend`
say what receiving and sending do to the count.

### What stays with TLC

* All liveness properties: `DisconnectReleases`, `RequestsServed`, `CallsReturn`,
  `DetachWakes`, `StopEndsSessions`, `RegisterAnswered`. Fairness and `ENABLED` are beyond
  the prover.
* `RevivedOnlyLate`, which needs a queue that loses nothing (see section 3), and
  `MessageReadable`.
* The three violations.

## 5. What is not modelled

* Of the Linux client: `/proc` output, message counters, the firmware stub, the clamping
  of registration parameters, message lengths, and `become_daemon`, which nothing calls.
* `capifwd` in debug mode (it does not fork), its command line and daemonisation, and
  functions nothing calls (`quit`, `xquit`, its `exec_proxy_shutdown`). Requests whose
  `message_len` is smaller than their header. Wrap-around of the session counter and of
  message ids, which needs 2^32 steps.
* A message split over several `recv()` calls of the Win32 programs. The contents of
  CAPI messages beyond the lengths that are checked; texts, profiles, serial numbers.
* Win32 service installation, tray dialog, registry access, starting the service
  a second time in one process, deletion of the critical sections when unloading.
* The control panels (dialogs over registry values) and `linux-server/src/old`
  (not built).

## 6. Plan

1. *Done*: `CapiProtocol`, `CapiFwd`, `AppRegistry`, the refinement and its proof;
   `Capi2032`; `Capi20Server`.
2. *Done*: `Capi20Proxy`, the kernel module, and `C2pClient`, which composes it with
   the daemon and a server.
3. Proofs. *Done*: every invariant the runs check but `MessageReadable`, the refinement of `AppRegistry`, the
   action properties `TakenOnlyByOwner` and `CounterKept`, and that the composition
   implements the kernel module. To do: `RevivedOnlyLate` for a queue that is
   large enough, with the order of REGISTER_APP and RELEASE_APP in the queue as
   its invariant.
4. A composition of the Win32 client's handshake with both servers: what session id
   and authentication each pair agrees on.
