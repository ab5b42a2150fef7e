---------------------------- MODULE AppRegistry -----------------------------
(***************************************************************************)
(* What a CAPI proxy server promises about application numbers, whatever   *)
(* the protocol and the processes behind it: a number is held by at most   *)
(* one session; only a live session takes numbers and only the holder      *)
(* gives them back; a session whose connection breaks gives everything     *)
(* back before it is gone.  A session may be lost (its process is killed); *)
(* the CAPI reclaims what it held.                                         *)
(***************************************************************************)
CONSTANTS Sessions, Apps, None

VARIABLES phase, holder

vars == <<phase, holder>>

Phases == {"idle", "live", "ending", "gone", "lost"}

Held(s) == {a \in Apps : holder[a] = s}

Init ==
    /\ phase = [s \in Sessions |-> "idle"]
    /\ holder = [a \in Apps |-> None]

Open(s) ==
    /\ phase[s] = "idle"
    /\ phase' = [phase EXCEPT ![s] = "live"]
    /\ UNCHANGED holder

(* A session that takes or gives back a number may be lost while it        *)
(* reports it to the client.                                               *)
StaysOrDies(s) ==
    \/ UNCHANGED phase
    \/ phase' = [phase EXCEPT ![s] = "lost"]

Acquire(s, a) ==
    /\ phase[s] = "live"
    /\ holder[a] = None
    /\ holder' = [holder EXCEPT ![a] = s]
    /\ StaysOrDies(s)

GiveBack(s, a) ==
    /\ phase[s] = "live"
    /\ holder[a] = s
    /\ holder' = [holder EXCEPT ![a] = None]
    /\ StaysOrDies(s)

BreakDown(s) ==
    /\ phase[s] = "live"
    /\ phase' = [phase EXCEPT ![s] = "ending"]
    /\ UNCHANGED holder

Drain(s, a) ==
    /\ phase[s] = "ending"
    /\ holder[a] = s
    /\ holder' = [holder EXCEPT ![a] = None]
    /\ UNCHANGED phase

Finish(s) ==
    /\ phase[s] = "ending"
    /\ Held(s) = {}
    /\ phase' = [phase EXCEPT ![s] = "gone"]
    /\ UNCHANGED holder

Die(s) ==
    /\ phase[s] \in {"live", "ending"}
    /\ phase' = [phase EXCEPT ![s] = "lost"]
    /\ UNCHANGED holder

Reclaim(a) ==
    /\ holder[a] # None
    /\ phase[holder[a]] = "lost"
    /\ holder' = [holder EXCEPT ![a] = None]
    /\ UNCHANGED phase

Next ==
    \/ \E s \in Sessions : Open(s) \/ BreakDown(s) \/ Finish(s) \/ Die(s)
    \/ \E s \in Sessions, a \in Apps : Acquire(s, a) \/ GiveBack(s, a) \/ Drain(s, a)
    \/ \E a \in Apps : Reclaim(a)

Spec == Init /\ [][Next]_vars
=============================================================================
