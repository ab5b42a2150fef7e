------------------------- MODULE Capi20ProxyProofs --------------------------
(***************************************************************************)
(* Theorems about the kernel module for any number of cards, applications, *)
(* threads, open files and calls.                                          *)
(***************************************************************************)
EXTENDS Capi20Proxy, FiniteSetTheorems, TLAPS

(* The parts of TypeOK. *)
CardTypes ==
    /\ status \in [Cards -> CardStates]
    /\ applications \in [Cards -> [Appls -> ApplStates]]
    /\ queue \in [Cards -> Seq(Msgs)]
    /\ sk_pending \in [Cards -> Int]

CallTypes ==
    call \in [Threads -> [pc : CallPcs,
                          op : {"send", "register", "release", "remove", "reset"},
                          card : Cards, msg : Msgs]]

FileTypes ==
    /\ file \in [Files -> [pc : FilePcs, card : Cards \cup {NoCard}, msg : Msgs]]
    /\ \A f \in Files : (file[f].card = NoCard) <=> (file[f].pc \in {"closed", "gone"})

FlagTypes == bh \in BOOLEAN /\ loaded \in BOOLEAN /\ oops \in BOOLEAN

KcapiTypes ==
    /\ kctr \in [Cards -> {"none", "attached", "ready", "suspended"}]
    /\ kappl \in [Cards -> SUBSET Appls]
    /\ ack \in [Cards -> [Appls -> {"none", "registered", "released"}]]

(* TypeOK is its parts. *)
LEMMA TypeParts ==
    TypeOK <=> /\ CardTypes /\ CallTypes /\ FileTypes /\ FlagTypes /\ KcapiTypes
               /\ calls \in Nat
BY DEF TypeOK, CardTypes, CallTypes, FileTypes, FlagTypes, KcapiTypes

(* TypeOK of the next state follows from its parts. *)
LEMMA TypePartsNext ==
    ASSUME CardTypes', CallTypes', FileTypes', FlagTypes', KcapiTypes', calls' \in Nat
    PROVE  TypeOK'
BY DEF TypeOK, CardTypes, CallTypes, FileTypes, FlagTypes, KcapiTypes

(* The constants of the records. *)
LEMMA ConstantTypes ==
    /\ None \in Msgs
    /\ 0 \in Cards
    /\ Idle \in [pc : CallPcs, op : {"send", "register", "release", "remove", "reset"},
                 card : Cards, msg : Msgs]
    /\ Closed \in [pc : FilePcs, card : Cards \cup {NoCard}, msg : Msgs]
    /\ Closed.card = NoCard /\ Closed.pc = "closed"
    /\ NoCard \notin Cards
    /\ \A a \in Appls : \A kind \in {"REGISTER_APP", "RELEASE_APP"} \cup Payloads :
          [kind |-> kind, appl |-> a] \in Msgs
<1>1. None \in Msgs
  BY Capi20ProxyAssumption DEF None, Msgs
<1>2. 0 \in Cards
  BY Capi20ProxyAssumption DEF Cards
<1>3. Idle \in [pc : CallPcs, op : {"send", "register", "release", "remove", "reset"},
                card : Cards, msg : Msgs]
  BY <1>1, <1>2 DEF Idle, CallPcs
<1>4. Closed \in [pc : FilePcs, card : Cards \cup {NoCard}, msg : Msgs]
  BY <1>1 DEF Closed, FilePcs
<1>5. Closed.card = NoCard /\ Closed.pc = "closed"
  BY DEF Closed
<1>6. NoCard \notin Cards
  BY Capi20ProxyAssumption DEF Cards
<1>7. ASSUME NEW a \in Appls, NEW kind \in {"REGISTER_APP", "RELEASE_APP"} \cup Payloads
      PROVE  [kind |-> kind, appl |-> a] \in Msgs
  <2>1. kind \in {"REGISTER_APP", "RELEASE_APP", "MESSAGE", "RUNT"}
    BY Capi20ProxyAssumption
  <2>2. a \in 0 .. CAPI_MAXAPPL
    BY Capi20ProxyAssumption DEF Appls
  <2>3. QED
    BY <2>1, <2>2 DEF Msgs
<1>8. QED
  BY <1>1, <1>2, <1>3, <1>4, <1>5, <1>6, <1>7

(* Changing what a card has for one application keeps the type. *)
LEMMA UpdateAppl ==
    ASSUME NEW S, NEW g \in [Cards -> [Appls -> S]], NEW k \in Cards, NEW a, NEW v \in S
    PROVE  [g EXCEPT ![k][a] = v] \in [Cards -> [Appls -> S]]
<1>1. [g[k] EXCEPT ![a] = v] \in [Appls -> S]
  OBVIOUS
<1>2. QED
  BY <1>1

-----------------------------------------------------------------------------
(* Setting where a call or a system call is keeps the types. *)
LEMMA BeginType ==
    ASSUME CallTypes, calls \in Nat, NEW t \in Threads, NEW pc \in CallPcs,
           NEW op \in {"send", "register", "release", "remove", "reset"},
           NEW k \in Cards, NEW msg \in Msgs, Begin(t, pc, op, k, msg)
    PROVE  CallTypes' /\ calls' \in Nat
BY ConstantTypes DEF CallTypes, Begin

(* So does moving a call to its next point. *)
LEMMA GotoType ==
    ASSUME CallTypes, NEW t \in Threads, NEW pc \in CallPcs, Goto(t, pc)
    PROVE  CallTypes'
BY ConstantTypes DEF CallTypes, Goto

(* So does moving a system call to its next point. *)
LEMMA StepType ==
    ASSUME FileTypes, NEW f \in Files, NEW pc \in FilePcs \ {"closed", "gone"},
           file[f].pc \notin {"closed", "gone"}, Step(f, pc)
    PROVE  FileTypes'
BY DEF FileTypes, Step, FilePcs

(* So does a step of read() that takes or gives up a buffer. *)
LEMMA HoldType ==
    ASSUME FileTypes, NEW f \in Files, NEW pc \in FilePcs \ {"closed", "gone"},
           NEW m \in Msgs, file[f].pc \notin {"closed", "gone"},
           file' = [file EXCEPT ![f].pc = pc, ![f].msg = m]
    PROVE  FileTypes'
<1>1. /\ file'[f] = [file[f] EXCEPT !.pc = pc, !.msg = m]
      /\ \A g \in Files \ {f} : file'[g] = file[g]
      /\ DOMAIN file' = Files
  BY DEF FileTypes
<1>2. file' \in [Files -> [pc : FilePcs, card : Cards \cup {NoCard}, msg : Msgs]]
  BY DEF FileTypes
<1>3. file'[f].card = file[f].card /\ file'[f].pc = pc
  BY <1>1 DEF FileTypes
<1>4. QED
  BY <1>1, <1>2, <1>3 DEF FileTypes

(* A turn of flush_queue keeps the types. *)
LEMMA FlushType ==
    ASSUME CardTypes, FlagTypes, NEW k \in Cards,
           \/ UNCHANGED <<queue, sk_pending, oops>>
           \/ FlushDrop(k) \/ FlushZero(k)
    PROVE  /\ queue' \in [Cards -> Seq(Msgs)]
           /\ sk_pending' \in [Cards -> Int]
           /\ oops' \in BOOLEAN
<1>1. CASE UNCHANGED <<queue, sk_pending, oops>>
  BY <1>1 DEF CardTypes, FlagTypes
<1>2. CASE FlushDrop(k)
  <2>1. queue[k] \in Seq(Msgs)
    BY DEF CardTypes
  <2>2. (IF queue[k] = <<>> THEN queue[k] ELSE Tail(queue[k])) \in Seq(Msgs)
    BY <2>1
  <2>3. oops' \in BOOLEAN
    BY <1>2, Zenon DEF FlushDrop
  <2>4. QED
    BY <1>2, <2>2, <2>3 DEF FlushDrop, CardTypes
<1>3. CASE FlushZero(k)
  BY <1>3 DEF FlushZero, CardTypes, FlagTypes
<1>4. QED
  BY <1>1, <1>2, <1>3

(* A process in a system call, or between two of them, has a card. *)
LEMMA OpenHasCard ==
    ASSUME FileTypes, NEW f \in Files, file[f].pc \notin {"closed", "gone"}
    PROVE  file[f].card \in Cards
BY DEF FileTypes

-----------------------------------------------------------------------------
(* The initial state is well typed. *)
LEMMA InitType == Init => TypeOK
<1> SUFFICES ASSUME Init PROVE TypeOK
  OBVIOUS
<1>1. CardTypes
  BY DEF Init, CardTypes, CardStates, ApplStates
<1>2. CallTypes
  BY ConstantTypes DEF Init, CallTypes
<1>3. FileTypes
  BY ConstantTypes DEF Init, FileTypes
<1>4. FlagTypes /\ KcapiTypes /\ calls \in Nat
  BY DEF Init, FlagTypes, KcapiTypes
<1>5. QED
  BY <1>1, <1>2, <1>3, <1>4, TypeParts

(* The calls of kernelcapi keep the types. *)
LEMMA KcapiCallsType ==
    ASSUME TypeOK, NEW t \in Threads, KcapiCalls(t)
    PROVE  TypeOK'
<1>0. CardTypes /\ CallTypes /\ FileTypes /\ FlagTypes /\ KcapiTypes /\ calls \in Nat
  BY TypeParts
<1>1. PICK k \in Cards :
        \/ \E a \in Appls : \/ capiproxy_register_appl(t, k, a)
                            \/ capiproxy_release_appl(t, k, a)
                            \/ capiproxy_send_message(t, k, a)
        \/ capiproxy_remove_ctr(t, k)
        \/ capiproxy_reset_ctr(t, k)
  BY DEF KcapiCalls
<1>2. ASSUME NEW a \in Appls, capiproxy_register_appl(t, k, a)
      PROVE  TypeOK'
  <2>1. CallTypes' /\ calls' \in Nat
    <3>1. PICK ok \in Allocated :
            Begin(t, IF status[k] = "FREE" \/ applications[k][a] # "FREE" THEN "idle"
                     ELSE IF ok THEN "check" ELSE "mark",
                  "register", k, [kind |-> "REGISTER_APP", appl |-> a])
      BY <1>2 DEF capiproxy_register_appl
    <3> DEFINE pc == IF status[k] = "FREE" \/ applications[k][a] # "FREE" THEN "idle"
                     ELSE IF ok THEN "check" ELSE "mark"
    <3>2. pc \in CallPcs
      BY DEF CallPcs
    <3>3. Begin(t, pc, "register", k, [kind |-> "REGISTER_APP", appl |-> a])
      BY <3>1
    <3> HIDE DEF pc
    <3>4. [kind |-> "REGISTER_APP", appl |-> a] \in Msgs
      BY ConstantTypes
    <3>5. QED
      BY <1>0, <3>2, <3>3, <3>4, BeginType
  <2>2. KcapiTypes'
    BY <1>0, <1>2 DEF capiproxy_register_appl, KcapiTypes
  <2>3. CardTypes' /\ FileTypes' /\ FlagTypes'
    BY <1>0, <1>2 DEF capiproxy_register_appl, CardTypes, FileTypes, FlagTypes, cardVars
  <2>4. QED
    BY <2>1, <2>2, <2>3, TypePartsNext
<1>3. ASSUME NEW a \in Appls, capiproxy_release_appl(t, k, a)
      PROVE  TypeOK'
  <2>1. CallTypes' /\ calls' \in Nat
    <3>1. CASE applications[k][a] = "FREE"
      <4>1. Begin(t, "idle", "release", k, None)
        BY <1>3, <3>1 DEF capiproxy_release_appl
      <4>2. "idle" \in CallPcs
        BY DEF CallPcs
      <4>3. QED
        BY <1>0, <4>1, <4>2, ConstantTypes, BeginType
    <3>2. CASE applications[k][a] # "FREE"
      <4>1. PICK ok \in Allocated :
              Begin(t, IF ok THEN "check" ELSE "mark", "release", k,
                    [kind |-> "RELEASE_APP", appl |-> a])
        BY <1>3, <3>2 DEF capiproxy_release_appl
      <4> DEFINE pc == IF ok THEN "check" ELSE "mark"
      <4>2. pc \in CallPcs
        BY DEF CallPcs
      <4>3. Begin(t, pc, "release", k, [kind |-> "RELEASE_APP", appl |-> a])
        BY <4>1
      <4> HIDE DEF pc
      <4>4. [kind |-> "RELEASE_APP", appl |-> a] \in Msgs
        BY ConstantTypes
      <4>5. QED
        BY <1>0, <4>2, <4>3, <4>4, BeginType
    <3>3. QED
      BY <3>1, <3>2
  <2>2. KcapiTypes'
    <3> DEFINE A == {"none", "registered", "released"}
    <3>1. ack \in [Cards -> [Appls -> A]] /\ "released" \in A
      BY <1>0 DEF KcapiTypes
    <3>2. [ack EXCEPT ![k][a] = "released"] \in [Cards -> [Appls -> A]]
      BY <3>1, UpdateAppl
    <3>3. QED
      BY <1>0, <1>3, <3>2 DEF capiproxy_release_appl, appl_released, KcapiTypes
  <2>3. CardTypes' /\ FileTypes' /\ FlagTypes'
    BY <1>0, <1>3 DEF capiproxy_release_appl, CardTypes, FileTypes, FlagTypes, cardVars
  <2>4. QED
    BY <2>1, <2>2, <2>3, TypePartsNext
<1>4. ASSUME NEW a \in Appls, capiproxy_send_message(t, k, a)
      PROVE  TypeOK'
  <2>1. PICK kind \in Payloads :
          Begin(t, "check", "send", k, [kind |-> kind, appl |-> a])
    BY <1>4 DEF capiproxy_send_message
  <2>2. "check" \in CallPcs /\ [kind |-> kind, appl |-> a] \in Msgs
    BY ConstantTypes DEF CallPcs
  <2>3. CallTypes' /\ calls' \in Nat
    BY <1>0, <2>1, <2>2, BeginType
  <2>4. CardTypes' /\ FileTypes' /\ FlagTypes' /\ KcapiTypes'
    BY <1>0, <1>4 DEF capiproxy_send_message, CardTypes, FileTypes, FlagTypes,
                      KcapiTypes, cardVars, kcapiVars
  <2>5. QED
    BY <2>3, <2>4, TypePartsNext
<1>5. CASE capiproxy_remove_ctr(t, k)
  <2>1. PICK ok \in Allocated :
          /\ Begin(t, IF ok THEN "test" ELSE "idle", "remove", k, None)
          /\ IF ok THEN suspend_output(k) ELSE UNCHANGED kctr
    BY <1>5 DEF capiproxy_remove_ctr
  <2> DEFINE pc == IF ok THEN "test" ELSE "idle"
  <2>2. pc \in CallPcs
    BY DEF CallPcs
  <2>3. Begin(t, pc, "remove", k, None)
    BY <2>1
  <2> HIDE DEF pc
  <2>4. CallTypes' /\ calls' \in Nat
    BY <1>0, <2>2, <2>3, ConstantTypes, BeginType
  <2>5. KcapiTypes'
    BY <1>0, <1>5, <2>1 DEF capiproxy_remove_ctr, suspend_output, KcapiTypes
  <2>6. CardTypes' /\ FileTypes' /\ FlagTypes'
    BY <1>0, <1>5 DEF capiproxy_remove_ctr, CardTypes, FileTypes, FlagTypes, cardVars
  <2>7. QED
    BY <2>4, <2>5, <2>6, TypePartsNext
<1>6. CASE capiproxy_reset_ctr(t, k)
  <2>1. Begin(t, "test", "reset", k, None) /\ "test" \in CallPcs
    BY <1>6 DEF capiproxy_reset_ctr, CallPcs
  <2>2. CallTypes' /\ calls' \in Nat
    BY <1>0, <2>1, ConstantTypes, BeginType
  <2>3. CardTypes' /\ FileTypes' /\ FlagTypes' /\ KcapiTypes'
    BY <1>0, <1>6 DEF capiproxy_reset_ctr, CardTypes, FileTypes, FlagTypes,
                      KcapiTypes, cardVars, kcapiVars
  <2>4. QED
    BY <2>2, <2>3, TypePartsNext
<1>7. QED
  BY <1>1, <1>2, <1>3, <1>4, <1>5, <1>6

(* The steps of a call in progress keep the types. *)
LEMMA CallStepType ==
    ASSUME TypeOK, NEW t \in Threads, CallStep(t)
    PROVE  TypeOK'
<1>0. CardTypes /\ CallTypes /\ FileTypes /\ FlagTypes /\ KcapiTypes /\ calls \in Nat
  BY TypeParts
<1>a. call[t].card \in Cards /\ call[t].msg \in Msgs
  BY <1>0 DEF CallTypes
<1>b. AfterSend(t) \in CallPcs
  BY DEF AfterSend, CallPcs
<1>1. CASE SendCheck(t)
  <2> DEFINE pc == IF Dropped(call[t].card) THEN AfterSend(t) ELSE "put"
  <2>1. pc \in CallPcs
    BY <1>b DEF CallPcs
  <2>2. Goto(t, pc)
    BY <1>1 DEF SendCheck
  <2> HIDE DEF pc
  <2>3. CallTypes'
    BY <1>0, <2>1, <2>2, GotoType
  <2>4. CardTypes' /\ FileTypes' /\ FlagTypes' /\ KcapiTypes' /\ calls' \in Nat
    BY <1>0, <1>1 DEF SendCheck, CardTypes, FileTypes, FlagTypes, KcapiTypes,
                      cardVars, kcapiVars
  <2>5. QED
    BY <2>3, <2>4, TypePartsNext
<1>2. CASE SendPut(t)
  <2>1. CallTypes'
    BY <1>0, <1>2, <1>b, GotoType DEF SendPut
  <2>2. CardTypes'
    BY <1>0, <1>2, <1>a DEF SendPut, CardTypes
  <2>3. FileTypes' /\ FlagTypes' /\ KcapiTypes' /\ calls' \in Nat
    BY <1>0, <1>2 DEF SendPut, FileTypes, FlagTypes, KcapiTypes, kcapiVars
  <2>4. QED
    BY <2>1, <2>2, <2>3, TypePartsNext
<1>3. CASE Mark(t)
  <2>1. CallTypes'
    BY <1>0, <1>3, GotoType DEF Mark, CallPcs
  <2>2. CardTypes'
    <3>1. \A v \in ApplStates : [applications EXCEPT ![call[t].card][call[t].msg.appl] = v]
                                 \in [Cards -> [Appls -> ApplStates]]
      BY <1>0, <1>a, UpdateAppl DEF CardTypes
    <3>2. "WAITING" \in ApplStates /\ "FREE" \in ApplStates
      BY DEF ApplStates
    <3>3. applications' \in [Cards -> [Appls -> ApplStates]]
      BY <1>3, <3>1, <3>2 DEF Mark
    <3>4. QED
      BY <1>0, <1>3, <3>3 DEF Mark, CardTypes
  <2>3. KcapiTypes'
    <3> DEFINE A == {"none", "registered", "released"}
    <3>1. ack \in [Cards -> [Appls -> A]] /\ "released" \in A
      BY <1>0 DEF KcapiTypes
    <3>2. [ack EXCEPT ![call[t].card][call[t].msg.appl] = "released"] \in [Cards -> [Appls -> A]]
      BY <1>a, <3>1, UpdateAppl
    <3>3. ack' \in [Cards -> [Appls -> A]]
      BY <1>3, <3>1, <3>2 DEF Mark, appl_released
    <3>4. QED
      BY <1>0, <1>3, <3>3 DEF Mark, KcapiTypes
  <2>4. FileTypes' /\ FlagTypes' /\ calls' \in Nat
    BY <1>0, <1>3 DEF Mark, FileTypes, FlagTypes
  <2>5. QED
    BY <2>1, <2>2, <2>3, <2>4, TypePartsNext
<1>4. CASE CallFlush(t)
  <2>1. CallTypes'
    <3>1. "test" \in CallPcs /\ "flushed" \in CallPcs /\ FlushTestPc(call[t].card) \in CallPcs
      BY DEF CallPcs, FlushTestPc
    <3>2. QED
      BY <1>0, <1>4, <3>1, GotoType DEF CallFlush
  <2>2. CardTypes' /\ oops' \in BOOLEAN
    <3>1. \/ UNCHANGED <<queue, sk_pending, oops>>
          \/ FlushDrop(call[t].card) \/ FlushZero(call[t].card)
      BY <1>4 DEF CallFlush
    <3>2. QED
      BY <1>0, <1>4, <1>a, <3>1, FlushType DEF CallFlush, CardTypes
  <2>3. FileTypes' /\ KcapiTypes' /\ calls' \in Nat
    BY <1>0, <1>4 DEF CallFlush, FileTypes, KcapiTypes, kcapiVars
  <2>4. FlagTypes'
    BY <1>0, <1>4, <2>2 DEF CallFlush, FlagTypes
  <2>5. QED
    BY <2>1, <2>2, <2>3, <2>4, TypePartsNext
<1>5. CASE RemoveFlushed(t)
  <2>1. CallTypes'
    BY <1>0, <1>5, GotoType DEF RemoveFlushed, CallPcs
  <2>2. CardTypes'
    BY <1>0, <1>5, <1>a DEF RemoveFlushed, CardTypes, CardStates
  <2>3. FileTypes' /\ FlagTypes' /\ KcapiTypes' /\ calls' \in Nat
    BY <1>0, <1>5 DEF RemoveFlushed, FileTypes, FlagTypes, KcapiTypes, kcapiVars
  <2>4. QED
    BY <2>1, <2>2, <2>3, TypePartsNext
<1>6. CASE ResetFlushed(t)
  <2>1. CallTypes'
    BY <1>0, <1>6, GotoType DEF ResetFlushed, CallPcs
  <2>2. KcapiTypes'
    BY <1>0, <1>6, <1>a DEF ResetFlushed, KcapiTypes
  <2>3. CardTypes' /\ FileTypes' /\ FlagTypes' /\ calls' \in Nat
    BY <1>0, <1>6 DEF ResetFlushed, CardTypes, FileTypes, FlagTypes, cardVars
  <2>4. QED
    BY <2>1, <2>2, <2>3, TypePartsNext
<1>7. QED
  BY <1>1, <1>2, <1>3, <1>4, <1>5, <1>6 DEF CallStep

(* A process that opens, configures, reads or closes keeps the types. *)
LEMMA FileTypeStep ==
    ASSUME TypeOK, NEW f \in Files, FileCalls(f) \/ FileStep(f)
    PROVE  TypeOK'
<1>0. CardTypes /\ CallTypes /\ FileTypes /\ FlagTypes /\ KcapiTypes /\ calls \in Nat
  BY TypeParts
<1>a. ASSUME NEW pc \in {"init", "idle", "begin", "sleep", "asleep", "woken", "dequeue",
                         "back", "short", "count", "test", "drop", "zero", "flushed"},
             NEW new \in {"init", "idle", "begin", "sleep", "asleep", "woken", "dequeue",
                          "back", "short", "count", "test", "drop", "zero", "flushed"},
             file[f].pc = pc, Step(f, new)
      PROVE  FileTypes'
  BY <1>0, <1>a, StepType DEF FilePcs
<1>b. ASSUME file[f].pc \notin {"closed", "gone"}
      PROVE  file[f].card \in Cards
  BY <1>0, <1>b, OpenHasCard
<1>1. CASE capiproxy_open(f)
  <2>1. CASE FreeCards = {} /\ Step(f, "gone") /\ UNCHANGED cardVars
    <3>1. FileTypes'
      BY <1>0, <1>1, <2>1 DEF capiproxy_open, Step, FileTypes, FilePcs
    <3>2. QED
      BY <1>0, <1>1, <2>1, <3>1, TypePartsNext
         DEF capiproxy_open, CardTypes, CallTypes, FlagTypes, KcapiTypes, cardVars, kcapiVars
  <2>2. ASSUME NEW k \in Cards,
               applications' = [applications EXCEPT ![k] = [a \in Appls |-> "FREE"]],
               queue' = [queue EXCEPT ![k] = <<>>],
               sk_pending' = [sk_pending EXCEPT ![k] = 0],
               status' = [status EXCEPT ![k] = "NOT_READY"],
               file' = [file EXCEPT ![f] = [pc |-> "init", card |-> k, msg |-> None]]
        PROVE  TypeOK'
    <3>1. FileTypes'
      BY <1>0, <2>2, ConstantTypes DEF FileTypes, FilePcs
    <3>2. CardTypes'
      BY <1>0, <2>2 DEF CardTypes, CardStates, ApplStates
    <3>3. QED
      BY <1>0, <1>1, <3>1, <3>2, TypePartsNext
         DEF capiproxy_open, CallTypes, FlagTypes, KcapiTypes, kcapiVars
  <2>3. QED
    BY <1>1, <2>1, <2>2 DEF capiproxy_open
<1>2. CASE capiproxy_release(f)
  <2>1. FileTypes'
    BY <1>2, <1>a DEF capiproxy_release
  <2>2. KcapiTypes'
    BY <1>0, <1>2 DEF capiproxy_release, suspend_output, KcapiTypes
  <2>3. QED
    BY <1>0, <1>2, <2>1, <2>2, TypePartsNext
       DEF capiproxy_release, CardTypes, CallTypes, FlagTypes, cardVars
<1>3. CASE IOCTL_SET_DATA(f)
  <2>1. CardTypes' /\ KcapiTypes'
    BY <1>0, <1>3 DEF IOCTL_SET_DATA, CardTypes, KcapiTypes, CardStates
  <2>2. QED
    BY <1>0, <1>3, <2>1, TypePartsNext DEF IOCTL_SET_DATA, CallTypes, FileTypes, FlagTypes
<1>4. ASSUME NEW a \in Appls, IOCTL_ERROR_REGFAIL(f, a) \/ IOCTL_APPL_REGISTERED(f, a)
      PROVE  TypeOK'
  <2> DEFINE k == file[f].card
             A == {"none", "registered", "released"}
  <2>1. k \in Cards
    BY <1>4, <1>b DEF IOCTL_ERROR_REGFAIL, IOCTL_APPL_REGISTERED
  <2>2. \A v \in ApplStates : [applications EXCEPT ![k][a] = v]
                               \in [Cards -> [Appls -> ApplStates]]
    BY <1>0, <2>1, UpdateAppl DEF CardTypes
  <2>3. ack \in [Cards -> [Appls -> A]]
    BY <1>0 DEF KcapiTypes
  <2>4. \A v \in A : [ack EXCEPT ![k][a] = v] \in [Cards -> [Appls -> A]]
    <3> HIDE DEF A, k
    <3>1. QED
      BY <2>1, <2>3, UpdateAppl
  <2>5. applications' \in [Cards -> [Appls -> ApplStates]]
    BY <1>4, <2>2 DEF IOCTL_ERROR_REGFAIL, IOCTL_APPL_REGISTERED, ApplStates
  <2>6. ack' \in [Cards -> [Appls -> A]]
    BY <1>4, <2>4 DEF IOCTL_ERROR_REGFAIL, IOCTL_APPL_REGISTERED, appl_released, appl_registered
  <2>7. CardTypes' /\ KcapiTypes'
    BY <1>0, <1>4, <2>5, <2>6
       DEF IOCTL_ERROR_REGFAIL, IOCTL_APPL_REGISTERED, CardTypes, KcapiTypes
  <2>8. QED
    BY <1>0, <1>4, <2>7, TypePartsNext
       DEF IOCTL_ERROR_REGFAIL, IOCTL_APPL_REGISTERED, CallTypes, FileTypes, FlagTypes
<1>5. CASE capiproxy_read(f) \/ ReadSleep(f) \/ ReadWoken(f) \/ ReadSignal(f)
  <2>1. FileTypes'
    BY <1>5, <1>a DEF capiproxy_read, ReadSleep, ReadWoken, ReadSignal
  <2>2. QED
    BY <1>0, <1>5, <2>1, TypePartsNext
       DEF capiproxy_read, ReadSleep, ReadWoken, ReadSignal, CardTypes, CallTypes, FlagTypes,
           KcapiTypes, cardVars, kcapiVars
<1>6. CASE OpenAttach(f)
  <2>1. FileTypes'
    BY <1>6, <1>a DEF OpenAttach
  <2>2. CardTypes'
    <3>1. queue' = [queue EXCEPT ![file[f].card] = <<>>]
          /\ UNCHANGED <<status, applications, sk_pending>>
      BY <1>6 DEF OpenAttach
    <3>2. <<>> \in Seq(Msgs) /\ queue \in [Cards -> Seq(Msgs)]
      BY <1>0 DEF CardTypes
    <3>3. queue' \in [Cards -> Seq(Msgs)]
      BY <3>1, <3>2, Zenon
    <3>4. QED
      BY <1>0, <3>1, <3>3 DEF CardTypes
  <2> DEFINE A == {"none", "registered", "released"}
             unset == [a \in Appls |-> "none"]
  <2>3. unset \in [Appls -> A] /\ ack \in [Cards -> [Appls -> A]]
    BY <1>0 DEF KcapiTypes
  <2>4. ack' = [ack EXCEPT ![file[f].card] = unset]
    BY <1>6 DEF OpenAttach
  <2>5. ack' \in [Cards -> [Appls -> A]]
    <3> HIDE DEF A, unset
    <3>1. QED
      BY <2>3, <2>4
  <2>6. KcapiTypes'
    BY <1>0, <1>6, <2>5 DEF OpenAttach, KcapiTypes
  <2>7. QED
    BY <1>0, <1>6, <2>1, <2>2, <2>6, TypePartsNext DEF OpenAttach, CallTypes, FlagTypes
<1>7. CASE ReadDequeue(f, {"back", "count"})
  <2> DEFINE k == file[f].card
  <2>1. k \in Cards
    BY <1>7, <1>b DEF ReadDequeue
  <2>2. CASE queue[k] = <<>> /\ oops' = TRUE /\ UNCHANGED <<queue, file>>
    BY <1>0, <1>7, <2>2, TypePartsNext
       DEF ReadDequeue, CardTypes, CallTypes, FileTypes, FlagTypes, KcapiTypes, kcapiVars
  <2>3. ASSUME queue[k] # <<>>, queue' = [queue EXCEPT ![k] = Tail(@)],
               NEW pc \in {"short", "back", "count"},
               file' = [file EXCEPT ![f].pc = pc, ![f].msg = Head(queue[k])],
               UNCHANGED oops
        PROVE  TypeOK'
    <3>1. queue[k] \in Seq(Msgs)
      BY <1>0, <2>1 DEF CardTypes
    <3>2. Head(queue[k]) \in Msgs /\ Tail(queue[k]) \in Seq(Msgs)
      BY <2>3, <3>1
    <3>3. queue' \in [Cards -> Seq(Msgs)]
      BY <1>0, <2>3, <3>2 DEF CardTypes
    <3>4. FileTypes'
      <4>1. file[f].pc = "dequeue"
        BY <1>7 DEF ReadDequeue
      <4>2. pc \in FilePcs \ {"closed", "gone"} /\ file[f].pc \notin {"closed", "gone"}
        BY <2>3, <4>1 DEF FilePcs
      <4>3. QED
        BY <1>0, <2>3, <3>2, <4>2, HoldType
    <3>5. QED
      BY <1>0, <1>7, <2>3, <3>3, <3>4, TypePartsNext
         DEF ReadDequeue, CardTypes, CallTypes, FlagTypes, KcapiTypes, kcapiVars
  <2>4. QED
    BY <1>7, <2>2, <2>3 DEF ReadDequeue
<1>8. CASE ReadBack(f)
  <2>1. FileTypes'
    <3>1. file' = [file EXCEPT ![f].pc = "idle", ![f].msg = None]
      BY <1>8 DEF ReadBack
    <3>2. "idle" \in FilePcs \ {"closed", "gone"} /\ file[f].pc \notin {"closed", "gone"}
      BY <1>8 DEF ReadBack, FilePcs
    <3>3. QED
      BY <1>0, <3>1, <3>2, ConstantTypes, HoldType
  <2>2. file[f].card \in Cards /\ file[f].msg \in Msgs
    BY <1>0, <1>8, <1>b DEF ReadBack, FileTypes
  <2>3. <<file[f].msg>> \o queue[file[f].card] \in Seq(Msgs)
    BY <1>0, <2>2 DEF CardTypes
  <2>4. CardTypes'
    BY <1>0, <1>8, <2>3 DEF ReadBack, CardTypes
  <2>5. QED
    BY <1>0, <1>8, <2>1, <2>4, TypePartsNext
       DEF ReadBack, CallTypes, FlagTypes, KcapiTypes, kcapiVars
<1>9. CASE ReadCount(f)
  <2>1. FileTypes'
    <3> DEFINE pc == IF file[f].pc = "short" THEN "begin" ELSE "idle"
    <3>1. file' = [file EXCEPT ![f].pc = pc, ![f].msg = None]
      BY <1>9 DEF ReadCount
    <3>2. pc \in FilePcs \ {"closed", "gone"} /\ file[f].pc \notin {"closed", "gone"}
      BY <1>9 DEF ReadCount, FilePcs
    <3> HIDE DEF pc
    <3>3. QED
      BY <1>0, <3>1, <3>2, ConstantTypes, HoldType
  <2>2. file[f].card \in Cards
    BY <1>9, <1>b DEF ReadCount
  <2>3. CardTypes'
    BY <1>0, <1>9, <2>2 DEF ReadCount, CardTypes
  <2>4. QED
    BY <1>0, <1>9, <2>1, <2>3, TypePartsNext
       DEF ReadCount, CallTypes, FlagTypes, KcapiTypes, kcapiVars
<1>10. CASE ReleaseFlush(f)
  <2>1. FileTypes'
    BY <1>10, <1>a DEF ReleaseFlush, FlushTestPc
  <2>2. file[f].card \in Cards
    BY <1>10, <1>b DEF ReleaseFlush
  <2>3. \/ UNCHANGED <<queue, sk_pending, oops>>
        \/ FlushDrop(file[f].card) \/ FlushZero(file[f].card)
    BY <1>10 DEF ReleaseFlush
  <2>4. /\ queue' \in [Cards -> Seq(Msgs)] /\ sk_pending' \in [Cards -> Int]
        /\ oops' \in BOOLEAN
    BY <1>0, <2>2, <2>3, FlushType
  <2>5. QED
    BY <1>0, <1>10, <2>1, <2>4, TypePartsNext
       DEF ReleaseFlush, CardTypes, CallTypes, FlagTypes, KcapiTypes, kcapiVars
<1>11. CASE ReleaseDetach(f)
  <2>1. FileTypes'
    BY <1>0, <1>11, ConstantTypes DEF ReleaseDetach, FileTypes, FilePcs
  <2>2. CardTypes' /\ KcapiTypes'
    BY <1>0, <1>11 DEF ReleaseDetach, CardTypes, KcapiTypes, CardStates
  <2>3. QED
    BY <1>0, <1>11, <2>1, <2>2, TypePartsNext DEF ReleaseDetach, CallTypes, FlagTypes
<1>12. QED
  BY <1>1, <1>2, <1>3, <1>4, <1>5, <1>6, <1>7, <1>8, <1>9, <1>10, <1>11 DEF FileCalls, FileStep

(* Every step keeps the types. *)
LEMMA NextType ==
    ASSUME TypeOK, [Next]_vars
    PROVE  TypeOK'
<1>0. CardTypes /\ CallTypes /\ FileTypes /\ FlagTypes /\ KcapiTypes /\ calls \in Nat
  BY TypeParts
<1>1. CASE \E t \in Threads : KcapiCalls(t) \/ CallStep(t)
  BY <1>1, KcapiCallsType, CallStepType
<1>2. CASE \E f \in Files : FileCalls(f) \/ FileStep(f)
  BY <1>2, FileTypeStep
<1>3. CASE handle_send_msg
  <2>1. FileTypes'
    BY <1>0, <1>3 DEF handle_send_msg, FileTypes, FilePcs
  <2>2. QED
    BY <1>0, <1>3, <2>1, TypePartsNext
       DEF handle_send_msg, CardTypes, CallTypes, FlagTypes, KcapiTypes, cardVars, kcapiVars
<1>4. CASE capiproxy_exit
  <2>1. loaded' \in BOOLEAN /\ oops' \in BOOLEAN /\ bh' \in BOOLEAN
    BY <1>0, <1>4, Zenon DEF capiproxy_exit, FlagTypes
  <2>2. QED
    BY <1>0, <1>4, <2>1, TypePartsNext
       DEF capiproxy_exit, CardTypes, CallTypes, FileTypes, FlagTypes, KcapiTypes, cardVars,
           kcapiVars
<1>5. CASE UNCHANGED vars
  BY <1>0, <1>5, TypePartsNext
     DEF vars, CardTypes, CallTypes, FileTypes, FlagTypes, KcapiTypes, cardVars, kcapiVars
<1>6. QED
  BY <1>1, <1>2, <1>3, <1>4, <1>5 DEF Next

(* The state of the kernel module is always well typed: in particular a    *)
(* process has a card exactly from open() to the end of release(), so that *)
(* private_data is never NULL in a system call.                            *)
THEOREM TypeCorrect == Spec => []TypeOK
BY InitType, NextType, PTL DEF Spec

-----------------------------------------------------------------------------
(* A driver call that begins touches no card and no file. *)
LEMMA KcapiCallsQuiet ==
    ASSUME NEW t \in Threads, KcapiCalls(t)
    PROVE  UNCHANGED <<status, applications, queue, sk_pending, file>>
<1>1. UNCHANGED <<cardVars, file>>
  BY Zenon DEF KcapiCalls, capiproxy_register_appl, capiproxy_release_appl,
               capiproxy_send_message, capiproxy_remove_ctr, capiproxy_reset_ctr
<1>2. QED
  BY <1>1 DEF cardVars

(* Only open() and the end of release() change which card a file has, and  *)
(* only the latter sets a card free.                                       *)
LEMMA OwnershipStep ==
    ASSUME TypeOK, [Next]_vars
    PROVE  \/ \E f \in Files, k \in FreeCards :
                 /\ file' = [file EXCEPT ![f] = [pc |-> "init", card |-> k, msg |-> None]]
                 /\ status' = [status EXCEPT ![k] = "NOT_READY"]
           \/ \E f \in Files : ReleaseDetach(f)
           \/ /\ \A f \in Files : file'[f].card = file[f].card
              /\ \A k \in Cards : status'[k] = "FREE" => status[k] = "FREE"
<1> DEFINE Kept == /\ \A f \in Files : file'[f].card = file[f].card
                   /\ \A k \in Cards : status'[k] = "FREE" => status[k] = "FREE"
<1>0. /\ file \in [Files -> [pc : FilePcs, card : Cards \cup {NoCard}, msg : Msgs]]
      /\ status \in [Cards -> CardStates]
  BY DEF TypeOK
<1>1. CASE \E t \in Threads : KcapiCalls(t)
  BY <1>1, KcapiCallsQuiet
<1>2. ASSUME NEW t \in Threads, CallStep(t)
      PROVE  Kept
  <2>1. CASE RemoveFlushed(t)
    BY <1>0, <2>1 DEF RemoveFlushed
  <2>2. CASE SendCheck(t) \/ SendPut(t) \/ Mark(t) \/ CallFlush(t) \/ ResetFlushed(t)
    BY <2>2 DEF SendCheck, SendPut, Mark, CallFlush, ResetFlushed, cardVars
  <2>3. QED
    BY <1>2, <2>1, <2>2 DEF CallStep
<1>3. ASSUME NEW f \in Files, FileCalls(f) \/ FileStep(f)
      PROVE  \/ \E k \in FreeCards :
                   /\ file' = [file EXCEPT ![f] = [pc |-> "init", card |-> k, msg |-> None]]
                   /\ status' = [status EXCEPT ![k] = "NOT_READY"]
             \/ ReleaseDetach(f)
             \/ Kept
  <2>1. CASE capiproxy_open(f)
    <3>1. CASE FreeCards = {}
      BY <1>0, <2>1, <3>1 DEF capiproxy_open, Step, cardVars
    <3>2. CASE FreeCards # {}
      BY <2>1, <3>2 DEF capiproxy_open, capiproxy_find_free_id
    <3>3. QED
      BY <3>1, <3>2
  <2>2. CASE IOCTL_SET_DATA(f)
    BY <1>0, <2>2 DEF IOCTL_SET_DATA
  <2>3. CASE \E a \in Appls : IOCTL_ERROR_REGFAIL(f, a) \/ IOCTL_APPL_REGISTERED(f, a)
    BY <2>3 DEF IOCTL_ERROR_REGFAIL, IOCTL_APPL_REGISTERED
  <2>4. CASE \/ capiproxy_release(f) \/ capiproxy_read(f) \/ ReadSignal(f)
             \/ ReadSleep(f) \/ ReadWoken(f)
    <3>1. status' = status /\ \E pc : Step(f, pc)
      BY <2>4 DEF capiproxy_release, capiproxy_read, ReadSignal, ReadSleep, ReadWoken, cardVars
    <3>2. QED
      BY <1>0, <3>1 DEF Step
  <2>5. CASE OpenAttach(f) \/ ReleaseFlush(f)
    <3>1. status' = status /\ \E pc : Step(f, pc)
      BY <2>5 DEF OpenAttach, ReleaseFlush
    <3>2. QED
      BY <1>0, <3>1 DEF Step
  <2>6. CASE ReadDequeue(f, {"back", "count"})
    <3>1. /\ status' = status
          /\ \/ file' = file
             \/ \E pc, m : file' = [file EXCEPT ![f].pc = pc, ![f].msg = m]
      BY <2>6, Zenon DEF ReadDequeue
    <3>2. ASSUME NEW pc, NEW m, file' = [file EXCEPT ![f].pc = pc, ![f].msg = m]
          PROVE  \A g \in Files : file'[g].card = file[g].card
      <4>1. \A g \in Files \ {f} : file'[g] = file[g]
        BY <1>0, <3>2
      <4>2. file'[f] = [file[f] EXCEPT !.pc = pc, !.msg = m]
        BY <1>0, <3>2
      <4>3. file'[f].card = file[f].card
        BY <4>2
      <4>4. QED
        BY <4>1, <4>3, Zenon
    <3>3. QED
      BY <3>1, <3>2
  <2>7. CASE ReadBack(f) \/ ReadCount(f)
    <3>1. status' = status /\ \E pc : file' = [file EXCEPT ![f].pc = pc, ![f].msg = None]
      BY <2>7 DEF ReadBack, ReadCount
    <3>2. QED
      BY <1>0, <3>1
  <2>8. QED
    BY <1>3, <2>1, <2>2, <2>3, <2>4, <2>5, <2>6, <2>7 DEF FileCalls, FileStep
<1>4. CASE handle_send_msg
  BY <1>0, <1>4 DEF handle_send_msg, cardVars
<1>5. CASE capiproxy_exit \/ UNCHANGED vars
  BY <1>5 DEF capiproxy_exit, vars, cardVars
<1>6. QED
  BY <1>1, <1>2, <1>3, <1>4, <1>5 DEF Next

(* Ownership is kept by every step. *)
LEMMA CardsOwnedStep ==
    ASSUME TypeOK, TypeOK', CardsOwned, [Next]_vars
    PROVE  CardsOwned'
<1>0. /\ file \in [Files -> [pc : FilePcs, card : Cards \cup {NoCard}, msg : Msgs]]
      /\ status \in [Cards -> CardStates]
      /\ \A f \in Files : file[f].card # NoCard => file[f].card \in Cards
  BY DEF TypeOK
<1>1. ASSUME NEW f \in Files, NEW k \in FreeCards,
             file' = [file EXCEPT ![f] = [pc |-> "init", card |-> k, msg |-> None]],
             status' = [status EXCEPT ![k] = "NOT_READY"]
      PROVE  CardsOwned'
  <2>1. k \in Cards /\ status[k] = "FREE"
    BY DEF FreeCards
  <2>2. \A g \in Files : file[g].card # k
    BY <2>1, ConstantTypes DEF CardsOwned
  <2>3. file'[f].card = k /\ \A g \in Files \ {f} : file'[g].card = file[g].card
    BY <1>0, <1>1
  <2>4. status'[k] # "FREE" /\ \A j \in Cards \ {k} : status'[j] = status[j]
    BY <1>0, <1>1, <2>1
  <2>5. QED
    BY <1>0, <2>1, <2>2, <2>3, <2>4 DEF CardsOwned
<1>2. ASSUME NEW f \in Files, ReleaseDetach(f)
      PROVE  CardsOwned'
  <2>1. file'[f].card = NoCard /\ \A g \in Files \ {f} : file'[g].card = file[g].card
    BY <1>0, <1>2, ConstantTypes DEF ReleaseDetach, Closed
  <2>2. file[f].pc = "flushed" /\ file[f].card # NoCard
    BY <1>2 DEF ReleaseDetach, TypeOK
  <2>3. \A j \in Cards \ {file[f].card} : status'[j] = status[j]
    BY <1>0, <1>2 DEF ReleaseDetach
  <2>4. QED
    BY <1>0, <2>1, <2>2, <2>3 DEF CardsOwned
<1>3. ASSUME \A f \in Files : file'[f].card = file[f].card,
             \A k \in Cards : status'[k] = "FREE" => status[k] = "FREE"
      PROVE  CardsOwned'
  BY <1>0, <1>3 DEF CardsOwned
<1>4. QED
  BY <1>1, <1>2, <1>3, OwnershipStep

(* Two open files never share a card, and open() never hands out the card  *)
(* of an open file, for any number of cards, whatever remove_ctr, reset_ctr *)
(* and unfinished calls do to the cards meanwhile.                         *)
THEOREM CardsCorrect == Spec => []CardsOwned
<1>1. Init => CardsOwned
  BY ConstantTypes DEF Init, CardsOwned, Closed
<1>2. TypeOK /\ TypeOK' /\ CardsOwned /\ [Next]_vars => CardsOwned'
  BY CardsOwnedStep
<1>3. QED
  BY <1>1, <1>2, TypeCorrect, PTL DEF Spec

-----------------------------------------------------------------------------
(* The threads between send_message's check and its lock. *)
Putting(k) == {t \in Threads : call[t].pc = "put" /\ call[t].card = k}

(* The inductive form of PendingBounded: every such thread still has its   *)
(* place below the bound.                                                  *)
PendingInv ==
    \A k \in Cards :
        sk_pending[k] + Cardinality(Putting(k)) <= MAX_SK_PENDING + Cardinality(Threads)

(* The threads about to queue for a card are finitely many, and one that is *)
(* not among them leaves room for itself below the number of threads.      *)
LEMMA PuttingFinite ==
    ASSUME NEW k
    PROVE  /\ IsFiniteSet(Threads) /\ Cardinality(Threads) \in Nat
           /\ IsFiniteSet(Putting(k)) /\ Cardinality(Putting(k)) \in Nat
           /\ Cardinality(Putting(k)) <= Cardinality(Threads)
           /\ \A t \in Threads \ Putting(k) : Cardinality(Putting(k)) + 1 <= Cardinality(Threads)
<1>1. IsFiniteSet(Threads) /\ Cardinality(Threads) \in Nat
  BY Capi20ProxyAssumption, FS_CardinalityType
<1>2. Putting(k) \in SUBSET Threads
  BY DEF Putting
<1>3. IsFiniteSet(Putting(k)) /\ Cardinality(Putting(k)) <= Cardinality(Threads)
  BY <1>1, <1>2, FS_Subset
<1>4. Cardinality(Putting(k)) \in Nat
  BY <1>3, FS_CardinalityType
<1>5. ASSUME NEW t \in Threads \ Putting(k)
      PROVE  Cardinality(Putting(k)) + 1 <= Cardinality(Threads)
  <2>1. Cardinality(Putting(k) \cup {t}) = Cardinality(Putting(k)) + 1
    BY <1>3, <1>4, <1>5, FS_AddElement
  <2>2. Putting(k) \cup {t} \in SUBSET Threads
    BY <1>2
  <2>3. QED
    BY <1>1, <2>1, <2>2, FS_Subset
<1>6. QED
  BY <1>1, <1>3, <1>4, <1>5

(* What a step may do to a counter and to the threads about to raise it:   *)
(* lower or reset the one, take threads from the other, or one of the two  *)
(* steps of send_message.                                                  *)
LEMMA PendingStep ==
    ASSUME TypeOK, TypeOK', [Next]_vars, NEW k \in Cards
    PROVE  \/ sk_pending'[k] <= sk_pending[k] /\ Putting(k)' \subseteq Putting(k)
           \/ sk_pending'[k] = 0
           \/ /\ sk_pending'[k] = sk_pending[k] /\ sk_pending[k] <= MAX_SK_PENDING
              /\ \E t \in Threads \ Putting(k) : Putting(k)' = Putting(k) \cup {t}
           \/ /\ sk_pending'[k] = sk_pending[k] + 1
              /\ \E t \in Putting(k) : Putting(k)' = Putting(k) \ {t}
<1> DEFINE Lower == sk_pending'[k] <= sk_pending[k] /\ Putting(k)' \subseteq Putting(k)
<1>0. /\ sk_pending \in [Cards -> Int] /\ sk_pending[k] \in Int
      /\ call \in [Threads -> [pc : CallPcs,
                               op : {"send", "register", "release", "remove", "reset"},
                               card : Cards, msg : Msgs]]
      /\ MAX_SK_PENDING \in Nat
  BY Capi20ProxyAssumption DEF TypeOK
<1>1. ASSUME NEW t \in Threads, KcapiCalls(t)
      PROVE  Lower
  <2> DEFINE Begun == \E pc, op, j, msg : pc # "put" /\ Begin(t, pc, op, j, msg)
  <2>1. Begun
    <3>1. ASSUME NEW j \in Cards, NEW a \in Appls, capiproxy_register_appl(t, j, a)
          PROVE  Begun
      BY <3>1 DEF capiproxy_register_appl
    <3>2. ASSUME NEW j \in Cards, NEW a \in Appls, capiproxy_release_appl(t, j, a)
          PROVE  Begun
      BY <3>2 DEF capiproxy_release_appl
    <3>3. ASSUME NEW j \in Cards, NEW a \in Appls, capiproxy_send_message(t, j, a)
          PROVE  Begun
      BY <3>3 DEF capiproxy_send_message
    <3>4. ASSUME NEW j \in Cards, capiproxy_remove_ctr(t, j) \/ capiproxy_reset_ctr(t, j)
          PROVE  Begun
      BY <3>4 DEF capiproxy_remove_ctr, capiproxy_reset_ctr
    <3>5. QED
      BY <1>1, <3>1, <3>2, <3>3, <3>4, Zenon DEF KcapiCalls
  <2>2. PICK new : new.pc # "put" /\ call' = [call EXCEPT ![t] = new]
    BY <2>1 DEF Begin, Idle
  <2>3. Putting(k)' \subseteq Putting(k)
    BY <1>0, <2>2 DEF Putting
  <2>4. QED
    BY <1>0, <1>1, <2>3, KcapiCallsQuiet
<1>2. ASSUME NEW t \in Threads, NEW pc \in CallPcs \ {"put"}, Goto(t, pc)
      PROVE  /\ Putting(k)' \subseteq Putting(k)
             /\ Putting(k)' = Putting(k) \ {t}
  BY <1>0, <1>2 DEF Goto, Idle, Putting
<1>3. ASSUME NEW t \in Threads, SendCheck(t)
      PROVE  \/ Lower
             \/ /\ sk_pending'[k] = sk_pending[k] /\ sk_pending[k] <= MAX_SK_PENDING
                /\ \E u \in Threads \ Putting(k) : Putting(k)' = Putting(k) \cup {u}
  <2>0. sk_pending' = sk_pending
    BY <1>3 DEF SendCheck, cardVars
  <2>1. CASE Dropped(call[t].card)
    <3>1. AfterSend(t) \in CallPcs \ {"put"} /\ Goto(t, AfterSend(t))
      BY <1>3, <2>1 DEF SendCheck, AfterSend, CallPcs
    <3>2. QED
      BY <1>0, <1>2, <2>0, <3>1
  <2>2. CASE ~ Dropped(call[t].card)
    <3>1. call' = [call EXCEPT ![t] = [@ EXCEPT !.pc = "put"]] /\ call[t].pc = "check"
      BY <1>3, <2>2 DEF SendCheck, Goto
    <3>2. CASE call[t].card = k
      <4>1. sk_pending[k] <= MAX_SK_PENDING
        BY <1>0, <2>2, <3>2 DEF Dropped
      <4>2. Putting(k)' = Putting(k) \cup {t} /\ t \notin Putting(k)
        BY <1>0, <3>1, <3>2 DEF Putting
      <4>3. QED
        BY <2>0, <4>1, <4>2
    <3>3. CASE call[t].card # k
      <4>1. Putting(k)' \subseteq Putting(k)
        BY <1>0, <3>1, <3>3 DEF Putting
      <4>2. QED
        BY <1>0, <2>0, <4>1
    <3>4. QED
      BY <3>2, <3>3
  <2>3. QED
    BY <2>1, <2>2
<1>4. ASSUME NEW t \in Threads, SendPut(t)
      PROVE  \/ Lower
             \/ /\ sk_pending'[k] = sk_pending[k] + 1
                /\ \E u \in Putting(k) : Putting(k)' = Putting(k) \ {u}
  <2>1. AfterSend(t) \in CallPcs \ {"put"} /\ Goto(t, AfterSend(t))
    BY <1>4 DEF SendPut, AfterSend, CallPcs
  <2>2. CASE call[t].card = k
    <3>1. t \in Putting(k)
      BY <1>4, <2>2 DEF SendPut, Putting
    <3>2. sk_pending'[k] = sk_pending[k] + 1
      BY <1>0, <1>4, <2>2 DEF SendPut
    <3>3. QED
      BY <1>2, <2>1, <3>1, <3>2
  <2>3. CASE call[t].card # k
    <3>1. sk_pending'[k] = sk_pending[k]
      BY <1>0, <1>4, <2>3 DEF SendPut
    <3>2. QED
      BY <1>0, <1>2, <2>1, <3>1
  <2>4. QED
    BY <2>2, <2>3
<1>5. ASSUME NEW t \in Threads,
             Mark(t) \/ CallFlush(t) \/ RemoveFlushed(t) \/ ResetFlushed(t)
      PROVE  Lower \/ sk_pending'[k] = 0
  <2>1. \E pc \in CallPcs \ {"put"} : Goto(t, pc)
    BY <1>5 DEF Mark, CallFlush, RemoveFlushed, ResetFlushed, FlushTestPc, CallPcs
  <2>2. sk_pending'[k] = sk_pending[k] \/ sk_pending'[k] = 0
    BY <1>0, <1>5 DEF Mark, CallFlush, FlushDrop, FlushZero, RemoveFlushed, ResetFlushed, cardVars
  <2>3. QED
    BY <1>0, <1>2, <2>1, <2>2
<1>6. ASSUME NEW f \in Files, FileCalls(f) \/ FileStep(f)
      PROVE  Lower \/ sk_pending'[k] = 0
  <2>1. call' = call
    BY <1>6 DEF FileCalls, FileStep, capiproxy_open, capiproxy_release, IOCTL_SET_DATA,
                IOCTL_ERROR_REGFAIL, IOCTL_APPL_REGISTERED, capiproxy_read, ReadSignal,
                OpenAttach, ReadSleep, ReadWoken, ReadDequeue, ReadBack, ReadCount,
                ReleaseFlush, ReleaseDetach
  <2>2. Putting(k)' \subseteq Putting(k)
    BY <2>1 DEF Putting
  <2>3. CASE ReadCount(f)
    BY <1>0, <2>2, <2>3 DEF ReadCount
  <2>4. CASE capiproxy_open(f)
    BY <1>0, <2>2, <2>4 DEF capiproxy_open, cardVars
  <2>5. CASE ReleaseFlush(f)
    BY <1>0, <2>2, <2>5 DEF ReleaseFlush, FlushDrop, FlushZero
  <2>6. CASE ~ ReadCount(f) /\ ~ capiproxy_open(f) /\ ~ ReleaseFlush(f)
    <3>1. sk_pending' = sk_pending
      BY <1>6, <2>6 DEF FileCalls, FileStep, capiproxy_release, IOCTL_SET_DATA,
                IOCTL_ERROR_REGFAIL, IOCTL_APPL_REGISTERED, capiproxy_read, ReadSignal,
                OpenAttach, ReadSleep, ReadWoken, ReadDequeue, ReadBack, ReleaseDetach, cardVars
    <3>2. QED
      BY <1>0, <2>2, <3>1
  <2>7. QED
    BY <2>3, <2>4, <2>5, <2>6
<1>7. CASE handle_send_msg \/ capiproxy_exit \/ UNCHANGED vars
  <2>1. sk_pending' = sk_pending /\ call' = call
    BY <1>7 DEF handle_send_msg, capiproxy_exit, vars, cardVars
  <2>2. QED
    BY <1>0, <2>1 DEF Putting
<1>8. QED
  BY <1>1, <1>3, <1>4, <1>5, <1>6, <1>7 DEF Next, CallStep

(* The counter of a card passes MAX_SK_PENDING by at most one for every    *)
(* thread of kernelcapi, for any number of threads and any limit.          *)
THEOREM PendingCorrect == Spec => []PendingBounded
<1>1. Init => PendingInv
  <2> SUFFICES ASSUME Init, NEW k \in Cards
               PROVE  sk_pending[k] + Cardinality(Putting(k))
                        <= MAX_SK_PENDING + Cardinality(Threads)
    BY DEF PendingInv
  <2>1. sk_pending[k] = 0
    BY DEF Init
  <2>2. QED
    BY <2>1, PuttingFinite, Capi20ProxyAssumption
<1>2. TypeOK /\ TypeOK' /\ PendingInv /\ [Next]_vars => PendingInv'
  <2> SUFFICES ASSUME TypeOK, TypeOK', PendingInv, [Next]_vars, NEW k \in Cards
               PROVE  sk_pending'[k] + Cardinality(Putting(k)')
                        <= MAX_SK_PENDING + Cardinality(Threads)
    BY DEF PendingInv
  <2>0. /\ sk_pending[k] \in Int /\ sk_pending'[k] \in Int
        /\ MAX_SK_PENDING \in Nat /\ Cardinality(Threads) \in Nat
        /\ sk_pending[k] + Cardinality(Putting(k)) <= MAX_SK_PENDING + Cardinality(Threads)
    BY Capi20ProxyAssumption, PuttingFinite DEF TypeOK, PendingInv
  <2>1. /\ Cardinality(Putting(k)) \in Nat /\ IsFiniteSet(Putting(k))
        /\ \A t \in Threads \ Putting(k) : Cardinality(Putting(k)) + 1 <= Cardinality(Threads)
    BY PuttingFinite
  <2>2. /\ Putting(k)' \in SUBSET Threads
        /\ IsFiniteSet(Threads)
    BY PuttingFinite DEF Putting
  <2>3. /\ Cardinality(Putting(k)') \in Nat /\ Cardinality(Putting(k)') <= Cardinality(Threads)
    BY <2>2, FS_Subset, FS_CardinalityType
  <2>4. CASE sk_pending'[k] <= sk_pending[k] /\ Putting(k)' \subseteq Putting(k)
    <3>1. Cardinality(Putting(k)') <= Cardinality(Putting(k))
      BY <2>1, <2>4, FS_Subset
    <3>2. QED
      BY <2>0, <2>1, <2>3, <2>4, <3>1
  <2>5. CASE sk_pending'[k] = 0
    BY <2>0, <2>3, <2>5
  <2>6. ASSUME sk_pending'[k] = sk_pending[k], sk_pending[k] <= MAX_SK_PENDING,
               NEW t \in Threads \ Putting(k), Putting(k)' = Putting(k) \cup {t}
        PROVE  sk_pending'[k] + Cardinality(Putting(k)') <= MAX_SK_PENDING + Cardinality(Threads)
    <3>1. Cardinality(Putting(k)') = Cardinality(Putting(k)) + 1
      BY <2>1, <2>6, FS_AddElement
    <3>2. QED
      BY <2>0, <2>1, <2>6, <3>1
  <2>7. ASSUME sk_pending'[k] = sk_pending[k] + 1,
               NEW t \in Putting(k), Putting(k)' = Putting(k) \ {t}
        PROVE  sk_pending'[k] + Cardinality(Putting(k)') <= MAX_SK_PENDING + Cardinality(Threads)
    <3>1. Cardinality(Putting(k)') = Cardinality(Putting(k)) - 1
      BY <2>1, <2>7, FS_RemoveElement
    <3>2. QED
      BY <2>0, <2>1, <2>7, <3>1
  <2>8. QED
    BY <2>4, <2>5, <2>6, <2>7, PendingStep
<1>3. TypeOK /\ PendingInv => PendingBounded
  <2> SUFFICES ASSUME TypeOK, PendingInv, NEW k \in Cards
               PROVE  sk_pending[k] <= MAX_SK_PENDING + Cardinality(Threads)
    BY DEF PendingBounded
  <2>1. sk_pending[k] \in Int /\ MAX_SK_PENDING \in Nat
    BY Capi20ProxyAssumption DEF TypeOK
  <2>2. QED
    BY <2>1, PuttingFinite DEF PendingInv
<1>4. QED
  BY <1>1, <1>2, <1>3, TypeCorrect, PTL DEF Spec

-----------------------------------------------------------------------------
(* The readers that hold a buffer of a card. *)
Holders(k) == {f \in Files : file[f].card = k /\ file[f].pc \in {"back", "short", "count"}}

(* The readers that hold a buffer are finitely many. *)
LEMMA HoldersFinite ==
    ASSUME NEW k
    PROVE  IsFiniteSet(Holders(k)) /\ Cardinality(Holders(k)) \in Nat
<1>1. Holders(k) \in SUBSET Files /\ IsFiniteSet(Files)
  BY Capi20ProxyAssumption DEF Holders
<1>2. QED
  BY <1>1, FS_Subset, FS_CardinalityType

(* A system call that moves between two points at which it holds no buffer *)
(* leaves the holders as they are.                                         *)
LEMMA StepHolders ==
    ASSUME FileTypes, NEW k \in Cards, NEW f \in Files, NEW pc,
           file[f].pc \notin {"back", "short", "count"}, pc \notin {"back", "short", "count"},
           Step(f, pc)
    PROVE  Holders(k)' = Holders(k)
<1>1. \A g \in Files \ {f} : file'[g] = file[g]
  BY DEF FileTypes, Step
<1>2. file'[f].pc = pc
  BY DEF FileTypes, Step
<1>3. QED
  BY <1>1, <1>2 DEF Holders

(* A step at which flush_queue runs on a card, or open() takes it. *)
Excused(k) == Flushing(k) \/ \E f \in Files : file[f].card # k /\ file'[f].card = k

(* If queue, counter and holders of a card stay, or change in step, so     *)
(* does what the counter misses.                                           *)
LEMMA SkewKept ==
    ASSUME TypeOK, TypeOK', NEW k \in Cards,
           \/ queue'[k] = queue[k] /\ sk_pending'[k] = sk_pending[k] /\ Holders(k)' = Holders(k)
           \/ /\ Len(queue'[k]) = Len(queue[k]) + 1 /\ sk_pending'[k] = sk_pending[k] + 1
              /\ Holders(k)' = Holders(k)
           \/ /\ Len(queue'[k]) = Len(queue[k]) - 1 /\ sk_pending'[k] = sk_pending[k]
              /\ \E f : f \notin Holders(k) /\ Holders(k)' = Holders(k) \cup {f}
           \/ /\ Len(queue'[k]) = Len(queue[k]) + 1 /\ sk_pending'[k] = sk_pending[k]
              /\ \E f \in Holders(k) : Holders(k)' = Holders(k) \ {f}
           \/ /\ queue'[k] = queue[k] /\ sk_pending'[k] = sk_pending[k] - 1
              /\ \E f \in Holders(k) : Holders(k)' = Holders(k) \ {f}
    PROVE  Skew(k)' = Skew(k)
<1>0. /\ sk_pending[k] \in Int /\ sk_pending'[k] \in Int
      /\ queue[k] \in Seq(Msgs) /\ queue'[k] \in Seq(Msgs)
      /\ Len(queue[k]) \in Nat /\ Len(queue'[k]) \in Nat
  BY DEF TypeOK
<1>1. IsFiniteSet(Holders(k)) /\ Cardinality(Holders(k)) \in Nat
  BY HoldersFinite
<1>2. /\ \A f \in Holders(k) : Cardinality(Holders(k) \ {f}) = Cardinality(Holders(k)) - 1
      /\ \A f : f \notin Holders(k) =>
            Cardinality(Holders(k) \cup {f}) = Cardinality(Holders(k)) + 1
  BY <1>1, FS_AddElement, FS_RemoveElement
<1>3. /\ Skew(k) = Len(queue[k]) + Cardinality(Holders(k)) - sk_pending[k]
      /\ Skew(k)' = Len(queue'[k]) + Cardinality(Holders(k)') - sk_pending'[k]
  BY DEF Skew, Held, Holders
<1>4. Cardinality(Holders(k)') \in Nat
  <2>1. Holders(k)' \in SUBSET Files /\ IsFiniteSet(Files)
    BY Capi20ProxyAssumption DEF Holders
  <2>2. QED
    BY <2>1, FS_Subset, FS_CardinalityType
<1>5. PICK l \in Nat, m \in Nat, h \in Nat, i \in Nat, p \in Int, q \in Int :
        /\ l = Len(queue[k]) /\ m = Len(queue'[k])
        /\ h = Cardinality(Holders(k)) /\ i = Cardinality(Holders(k)')
        /\ p = sk_pending[k] /\ q = sk_pending'[k]
  BY <1>0, <1>1, <1>4
<1>6. \/ m = l /\ q = p /\ i = h
      \/ m = l + 1 /\ q = p + 1 /\ i = h
      \/ m = l - 1 /\ q = p /\ i = h + 1
      \/ m = l + 1 /\ q = p /\ i = h - 1
      \/ m = l /\ q = p - 1 /\ i = h - 1
  BY <1>2, <1>5
<1>7. m + i - q = l + h - p
  BY <1>6
<1>8. QED
  BY <1>3, <1>5, <1>7

(* A turn of flush_queue on one card leaves the other cards alone. *)
LEMMA FlushOther ==
    ASSUME CardTypes, NEW k \in Cards, NEW j \in Cards, j # k, FlushDrop(j) \/ FlushZero(j)
    PROVE  queue'[k] = queue[k] /\ sk_pending'[k] = sk_pending[k]
BY DEF CardTypes, FlushDrop, FlushZero

(* Every step keeps the skew of a card, but for the excused ones. *)
LEMMA CounterStep ==
    ASSUME TypeOK, TypeOK', [Next]_vars, NEW k \in Cards, ~ Excused(k)
    PROVE  Skew(k)' = Skew(k)
<1> DEFINE Same == queue'[k] = queue[k] /\ sk_pending'[k] = sk_pending[k]
<1>0. CardTypes /\ CallTypes /\ FileTypes
  BY TypeParts
<1>a. ASSUME Same, Holders(k)' = Holders(k)
      PROVE  Skew(k)' = Skew(k)
  BY <1>a, SkewKept
<1>b. ASSUME file' = file
      PROVE  Holders(k)' = Holders(k)
  BY <1>b DEF Holders
<1>1. CASE \E t \in Threads : KcapiCalls(t)
  BY <1>1, <1>a, <1>b, KcapiCallsQuiet
<1>2. ASSUME NEW t \in Threads, CallStep(t)
      PROVE  Skew(k)' = Skew(k)
  <2>1. call[t].card \in Cards /\ call[t].msg \in Msgs
    BY <1>0 DEF CallTypes
  <2>2. file' = file
    BY <1>2 DEF CallStep, SendCheck, SendPut, Mark, CallFlush, RemoveFlushed, ResetFlushed
  <2>3. CASE SendCheck(t) \/ Mark(t) \/ RemoveFlushed(t) \/ ResetFlushed(t)
    <3>1. Same
      BY <2>3 DEF SendCheck, Mark, RemoveFlushed, ResetFlushed, cardVars
    <3>2. QED
      BY <2>2, <3>1, <1>a, <1>b
  <2>4. CASE SendPut(t)
    <3>1. CASE call[t].card = k
      <4>1. queue[k] \in Seq(Msgs)
        BY <1>0 DEF CardTypes
      <4>2. queue'[k] = Append(queue[k], call[t].msg) /\ sk_pending'[k] = sk_pending[k] + 1
        BY <1>0, <2>4, <3>1 DEF SendPut, CardTypes
      <4>3. Len(queue'[k]) = Len(queue[k]) + 1
        BY <2>1, <4>1, <4>2
      <4>4. QED
        BY <2>2, <4>2, <4>3, <1>b, SkewKept
    <3>2. CASE call[t].card # k
      BY <1>0, <2>2, <2>4, <3>2, <1>a, <1>b DEF SendPut, CardTypes
    <3>3. QED
      BY <3>1, <3>2
  <2>5. CASE CallFlush(t)
    <3>1. CASE UNCHANGED <<queue, sk_pending, oops>>
      BY <2>2, <3>1, <1>a, <1>b
    <3>2. CASE /\ call[t].pc \in {"drop", "zero"}
               /\ FlushDrop(call[t].card) \/ FlushZero(call[t].card)
      <4>1. call[t].card # k
        BY <3>2 DEF Excused, Flushing
      <4>2. QED
        BY <1>0, <2>1, <2>2, <3>2, <4>1, <1>a, <1>b, FlushOther
    <3>3. QED
      BY <2>5, <3>1, <3>2 DEF CallFlush
  <2>6. QED
    BY <1>2, <2>3, <2>4, <2>5 DEF CallStep
<1>3. ASSUME NEW f \in Files, FileCalls(f) \/ FileStep(f)
      PROVE  Skew(k)' = Skew(k)
  <2>0. file[f] \in [pc : FilePcs, card : Cards \cup {NoCard}, msg : Msgs]
    BY <1>0 DEF FileTypes
  <2>1. CASE capiproxy_open(f)
    <3>1. CASE FreeCards = {}
      <4>1. Step(f, "gone") /\ file[f].pc = "closed" /\ UNCHANGED cardVars
        BY <2>1, <3>1 DEF capiproxy_open
      <4>2. Holders(k)' = Holders(k)
        BY <1>0, <4>1, StepHolders
      <4>3. QED
        BY <4>1, <4>2, <1>a DEF cardVars
    <3>2. ASSUME NEW j \in Cards,
                 queue' = [queue EXCEPT ![j] = <<>>],
                 sk_pending' = [sk_pending EXCEPT ![j] = 0],
                 file' = [file EXCEPT ![f] = [pc |-> "init", card |-> j, msg |-> None]]
          PROVE  Skew(k)' = Skew(k)
      <4>1. file[f].card = NoCard /\ file[f].pc = "closed"
        BY <1>0, <2>1 DEF capiproxy_open, FileTypes
      <4>2. file'[f].card = j /\ file'[f].pc = "init" /\ \A g \in Files \ {f} : file'[g] = file[g]
        BY <1>0, <3>2 DEF FileTypes
      <4>3. j # k
        BY <4>1, <4>2, ConstantTypes DEF Excused
      <4>4. Same
        BY <1>0, <3>2, <4>3 DEF CardTypes
      <4>5. Holders(k)' = Holders(k)
        BY <4>1, <4>2 DEF Holders
      <4>6. QED
        BY <4>4, <4>5, <1>a
    <3>3. QED
      BY <2>1, <3>1, <3>2 DEF capiproxy_open
  <2>2. CASE \/ IOCTL_SET_DATA(f)
             \/ \E a \in Appls : IOCTL_ERROR_REGFAIL(f, a) \/ IOCTL_APPL_REGISTERED(f, a)
    <3>1. Same /\ file' = file
      BY <2>2 DEF IOCTL_SET_DATA, IOCTL_ERROR_REGFAIL, IOCTL_APPL_REGISTERED
    <3>2. QED
      BY <3>1, <1>a, <1>b
  <2>3. CASE \/ capiproxy_release(f) \/ capiproxy_read(f) \/ ReadSignal(f)
             \/ ReadSleep(f) \/ ReadWoken(f)
    <3>1. /\ Same
          /\ file[f].pc \notin {"back", "short", "count"}
          /\ \E pc \in {"test", "dequeue", "sleep", "idle", "asleep"} : Step(f, pc)
      BY <2>3 DEF capiproxy_release, capiproxy_read, ReadSignal, ReadSleep, ReadWoken, cardVars
    <3>2. QED
      BY <1>0, <3>1, <1>a, StepHolders
  <2>4. CASE OpenAttach(f)
    <3>1. file[f].card # k
      BY <2>4 DEF Excused, Flushing, OpenAttach
    <3>2. Same
      BY <1>0, <2>4, <3>1 DEF OpenAttach, CardTypes
    <3>3. Holders(k)' = Holders(k)
      BY <1>0, <2>4, StepHolders DEF OpenAttach
    <3>4. QED
      BY <3>2, <3>3, <1>a
  <2>5. CASE ReadDequeue(f, {"back", "count"})
    <3> DEFINE j == file[f].card
    <3>0. j \in Cards /\ file[f].pc = "dequeue" /\ sk_pending' = sk_pending
      BY <1>0, <2>5, OpenHasCard DEF ReadDequeue
    <3>1. CASE UNCHANGED <<queue, file>>
      BY <3>0, <3>1, <1>a, <1>b
    <3>2. ASSUME queue[j] # <<>>, queue' = [queue EXCEPT ![j] = Tail(@)],
                 NEW pc \in {"short", "back", "count"},
                 file' = [file EXCEPT ![f].pc = pc, ![f].msg = Head(queue[j])]
          PROVE  Skew(k)' = Skew(k)
      <4>1. \A g \in Files \ {f} : file'[g] = file[g]
        BY <1>0, <3>2 DEF FileTypes
      <4>2. file'[f] = [file[f] EXCEPT !.pc = pc, !.msg = Head(queue[j])]
        BY <1>0, <3>2 DEF FileTypes
      <4>3. file'[f].card = j /\ file'[f].pc = pc
        BY <2>0, <4>2
      <4>4. CASE j = k
        <5>1. f \notin Holders(k) /\ Holders(k)' = Holders(k) \cup {f}
          BY <3>0, <4>1, <4>3, <4>4 DEF Holders
        <5>2. queue[k] \in Seq(Msgs) /\ queue[k] # <<>> /\ queue'[k] = Tail(queue[k])
          BY <1>0, <3>2, <4>4 DEF CardTypes
        <5>3. Len(queue'[k]) = Len(queue[k]) - 1
          BY <5>2
        <5>4. QED
          BY <3>0, <5>1, <5>3, SkewKept
      <4>5. CASE j # k
        <5>1. Holders(k)' = Holders(k)
          BY <4>1, <4>3, <4>5 DEF Holders
        <5>2. Same
          BY <1>0, <3>0, <3>2, <4>5 DEF CardTypes
        <5>3. QED
          BY <5>1, <5>2, <1>a
      <4>6. QED
        BY <4>4, <4>5
    <3>3. QED
      BY <2>5, <3>1, <3>2 DEF ReadDequeue
  <2>6. CASE ReadBack(f) \/ ReadCount(f)
    <3> DEFINE j == file[f].card
    <3>1. PICK pc \in {"idle", "begin"} : file' = [file EXCEPT ![f].pc = pc, ![f].msg = None]
      BY <2>6 DEF ReadBack, ReadCount
    <3>2. \A g \in Files \ {f} : file'[g] = file[g]
      BY <1>0, <3>1 DEF FileTypes
    <3>3. file'[f].pc = pc
      BY <1>0, <3>1 DEF FileTypes
    <3>4. j \in Cards /\ file[f].pc \in {"back", "short", "count"} /\ file[f].msg \in Msgs
      BY <1>0, <2>0, <2>6, OpenHasCard DEF ReadBack, ReadCount
    <3>5. CASE j # k
      <4>1. Holders(k)' = Holders(k)
        BY <3>2, <3>3, <3>5 DEF Holders
      <4>2. Same
        BY <1>0, <2>6, <3>5 DEF ReadBack, ReadCount, CardTypes
      <4>3. QED
        BY <4>1, <4>2, <1>a
    <3>6. CASE j = k
      <4>1. f \in Holders(k) /\ Holders(k)' = Holders(k) \ {f}
        BY <3>2, <3>3, <3>4, <3>6 DEF Holders
      <4>2. CASE ReadBack(f)
        <5>1. /\ queue[k] \in Seq(Msgs) /\ queue'[k] = <<file[f].msg>> \o queue[k]
              /\ sk_pending' = sk_pending
          BY <1>0, <3>6, <4>2 DEF ReadBack, CardTypes
        <5>2. Len(queue'[k]) = Len(queue[k]) + 1
          BY <3>4, <5>1
        <5>3. QED
          BY <4>1, <5>1, <5>2, SkewKept
      <4>3. CASE ReadCount(f)
        <5>1. queue' = queue /\ sk_pending'[k] = sk_pending[k] - 1
          BY <1>0, <3>6, <4>3 DEF ReadCount, CardTypes
        <5>2. QED
          BY <4>1, <5>1, SkewKept
      <4>4. QED
        BY <2>6, <4>2, <4>3
    <3>7. QED
      BY <3>5, <3>6
  <2>7. CASE ReleaseFlush(f)
    <3>1. Holders(k)' = Holders(k)
      <4>1. /\ file[f].pc \in {"test", "drop", "zero"}
            /\ \E pc \in {"test", "drop", "zero", "flushed"} : Step(f, pc)
        BY <2>7 DEF ReleaseFlush, FlushTestPc
      <4>2. QED
        BY <1>0, <4>1, StepHolders
    <3>2. CASE UNCHANGED <<queue, sk_pending, oops>>
      BY <3>1, <3>2, <1>a
    <3>3. CASE /\ file[f].pc \in {"drop", "zero"}
               /\ FlushDrop(file[f].card) \/ FlushZero(file[f].card)
      <4>1. file[f].card # k /\ file[f].card \in Cards
        BY <1>0, <3>3, OpenHasCard DEF Excused, Flushing
      <4>2. QED
        BY <1>0, <3>1, <3>3, <4>1, <1>a, FlushOther
    <3>4. QED
      BY <2>7, <3>2, <3>3 DEF ReleaseFlush
  <2>8. CASE ReleaseDetach(f)
    <3>1. Same /\ file[f].pc = "flushed"
      BY <2>8 DEF ReleaseDetach
    <3>2. file'[f].pc = "gone" /\ \A g \in Files \ {f} : file'[g] = file[g]
      BY <1>0, <2>8 DEF ReleaseDetach, FileTypes, Closed
    <3>3. Holders(k)' = Holders(k)
      BY <3>1, <3>2 DEF Holders
    <3>4. QED
      BY <3>1, <3>3, <1>a
  <2>9. QED
    BY <1>3, <2>1, <2>2, <2>3, <2>4, <2>5, <2>6, <2>7, <2>8 DEF FileCalls, FileStep
<1>4. CASE handle_send_msg
  <2>1. \A f \in Files : \/ file'[f] = file[f]
                         \/ /\ file[f].pc = "asleep"
                            /\ file'[f] = [file[f] EXCEPT !.pc = "woken"]
    BY <1>0, <1>4 DEF handle_send_msg, FileTypes
  <2>2. Holders(k)' = Holders(k)
    <3>1. \A f \in Files : /\ file'[f].card = file[f].card
                           /\ \/ file'[f].pc = file[f].pc
                              \/ file[f].pc = "asleep" /\ file'[f].pc = "woken"
      BY <1>0, <2>1 DEF FileTypes
    <3>2. QED
      BY <3>1 DEF Holders
  <2>3. QED
    BY <1>4, <2>2, <1>a DEF handle_send_msg, cardVars
<1>5. CASE capiproxy_exit \/ UNCHANGED vars
  BY <1>5, <1>a, <1>b DEF capiproxy_exit, vars, cardVars
<1>6. QED
  BY <1>1, <1>2, <1>3, <1>4, <1>5 DEF Next

(* Queue and counter move together in every step of every interleaving of  *)
(* senders and readers; only a flush or an open() of the card can put them *)
(* apart.                                                                  *)
THEOREM CounterCorrect == Spec => CounterKept
<1>1. TypeOK /\ TypeOK' /\ [Next]_vars =>
        \A k \in Cards : Skew(k)' # Skew(k) =>
            Flushing(k) \/ \E f \in Files : file[f].card # k /\ file'[f].card = k
  BY CounterStep DEF Excused
<1>2. QED
  BY <1>1, TypeCorrect, PTL DEF Spec, CounterKept

=============================================================================
