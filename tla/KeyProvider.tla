---------------------------- MODULE KeyProvider ----------------------------
(***************************************************************************)
(* What KeyUtils.__request_platform_kp promises its callers, with no word  *)
(* of queues, ids or threads: a call returns a key that was the            *)
(* application's unlocked platform key at some moment while the call was   *)
(* in progress, or it raises.                                              *)
(***************************************************************************)
CONSTANTS Callers, Keys, None

VARIABLES
    provided,   \* the key the application provides now, None while it is locked
    calling,    \* the callers with a call in progress
    window,     \* per caller in a call: what was provided since the call began
    answer      \* per caller: what its last call returned, None if it raised

vars == <<provided, calling, window, answer>>

Init ==
    /\ provided \in Keys \cup {None}
    /\ calling = {}
    /\ window = [c \in Callers |-> {}]
    /\ answer = [c \in Callers |-> None]

\* The user unlocks a key, or another one.
Provide(k) ==
    /\ provided' = k
    /\ window' = [c \in Callers |-> IF c \in calling THEN window[c] \cup {k} ELSE window[c]]
    /\ UNCHANGED <<calling, answer>>

Begin(c) ==
    /\ c \notin calling
    /\ calling' = calling \cup {c}
    /\ window' = [window EXCEPT ![c] = {provided}]
    /\ answer' = [answer EXCEPT ![c] = None]
    /\ UNCHANGED provided

\* A key of the window, or None: the application was locked, or did not answer.
End(c) ==
    /\ c \in calling
    /\ calling' = calling \ {c}
    /\ \E k \in (window[c] \cap Keys) \cup {None} : answer' = [answer EXCEPT ![c] = k]
    /\ window' = [window EXCEPT ![c] = {}]
    /\ UNCHANGED provided

Next ==
    \/ \E k \in Keys : Provide(k)
    \/ \E c \in Callers : Begin(c) \/ End(c)

Spec == Init /\ [][Next]_vars
=============================================================================
