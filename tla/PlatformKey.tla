---------------------------- MODULE PlatformKey ----------------------------
(***************************************************************************)
(* How the threads that need the platform key get it: KeyUtils.            *)
(* __request_platform_kp and _get_platform_kp in key_pair.py, the two      *)
(* queues of platform/message_queues.py, the worker thread of qt/app.py    *)
(* that serves them, and the settings dialog that creates, deletes and     *)
(* unlocks the keys.                                                       *)
(*                                                                         *)
(* All callers share one response queue.  A caller takes whatever response *)
(* is at its head and drops those of other requests; it looks at the size  *)
(* of the queue and then takes from it, in two steps.                      *)
(***************************************************************************)
EXTENDS Integers, Sequences

CONSTANTS
    Callers,    \* threads: the CBOR handler (one at a time), U2F handlers, the GUI
    Gui,        \* the caller that is the Qt main thread, or None
    Fallback,   \* callers of _get_platform_kp; the others call __request_platform_kp
    FileKeys,   \* keys that platform.key may hold
    TpmKeys,    \* keys that the TPM may hold
    Protected,  \* keys with a password
    MaxCalls,   \* bound: calls per caller
    QueueMax,   \* maxsize of both queues
    AppRuns,    \* FALSE: the device runs without the Qt application (tests)
    None

Keys == FileKeys \cup TpmKeys

ASSUME PlatformKeyAssumption ==
    /\ Fallback \subseteq Callers /\ None \notin Callers /\ None \notin Keys
    /\ FileKeys \cap TpmKeys = {} /\ Protected \subseteq Keys
    /\ MaxCalls \in Nat /\ QueueMax \in Nat \ {0}
    /\ AppRuns \in BOOLEAN

\* A request id (a uuid in the code) names a caller and one of its calls.
Ids == Callers \X (1..MaxCalls)

\* PlatformKeyResponse; error is "Platform key is locked".
Responses == [id : Ids, key : Keys \cup {None}, error : BOOLEAN]

VARIABLES
    file,       \* the key in platform.key, None if there is no such file
    tpm,        \* the key in the TPM, or None
    fresh,      \* keys that creating a file key may still come up with
    saved,      \* key_type in platform.cfg
    pref,       \* key_type in the application's own PlatformConfig, read at start
    appState,   \* SysTrayApp._current_state
    key,        \* SysTrayApp._platform_key
    gui,        \* the settings dialog and what its main thread is at
    pc,         \* per caller
    calls,      \* per caller: how many calls it has made
    answer,     \* per caller: what its last __request_platform_kp returned, or None
    result,     \* per caller: how its last call ended, and where its key came from
    window,     \* history, per caller: what the application provided during its call
    requests,   \* MessageQueue.platform_key_requests
    responses,  \* MessageQueue.platform_key_responses
    worker,     \* _msg_queue_handler: what it is at
    rsp         \* ... and the response it is making, or None

diskVars == <<file, tpm, fresh, saved>>
appVars == <<pref, appState, key>>
callVars == <<pc, calls, answer, result>>
queueVars == <<requests, responses>>
workerVars == <<worker, rsp>>
vars == <<diskVars, appVars, gui, callVars, window, queueVars, workerVars>>

TypeOK ==
    /\ file \in FileKeys \cup {None} /\ tpm \in TpmKeys \cup {None}
    /\ fresh \subseteq FileKeys
    /\ saved \in {"none", "tpm", "file"} /\ pref \in {"none", "tpm", "file"}
    /\ appState \in {"locked", "unlocked"} /\ key \in Keys \cup {None}
    /\ gui \in {"closed", "open", "unlocking", "closing"}
    /\ pc \in [Callers -> {"idle", "put", "look", "get", "sleep", "failed"}]
    /\ calls \in [Callers -> 0..MaxCalls]
    /\ answer \in [Callers -> Keys \cup {None}]
    /\ result \in [Callers -> {"none", "app", "file", "raised"}]
    /\ window \in [Callers -> SUBSET (Keys \cup {None})]
    /\ requests \in Seq(Ids) /\ responses \in Seq(Responses)
    /\ worker \in {"loop", "check", "read", "put"} /\ rsp \in Responses \cup {None}

\* load_tpm_key and load_file_key without a password.
TpmLoads == tpm # None /\ tpm \notin Protected
FileLoads == file # None /\ file \notin Protected

\* PlatformKeyService.auto_load_key gives key k.
AutoLoads(k) ==
    \/ pref \in {"none", "tpm"} /\ TpmLoads /\ k = tpm
    \/ pref = "none" /\ ~TpmLoads /\ FileLoads /\ k = file
    \/ pref = "file" /\ FileLoads /\ k = file

\* SysTrayApp.__init__ loads the key before it starts its worker.
Init ==
    /\ file \in FileKeys \cup {None} /\ tpm \in TpmKeys \cup {None}
    /\ fresh = FileKeys \ {file}
    /\ saved \in {"none", "tpm", "file"} /\ pref = saved
    /\ \/ \E k \in Keys : AutoLoads(k) /\ key = k /\ appState = "unlocked"
       \/ (\A k \in Keys : ~AutoLoads(k)) /\ key = None /\ appState = "locked"
    /\ gui = "closed"
    /\ pc = [c \in Callers |-> "idle"]
    /\ calls = [c \in Callers |-> 0]
    /\ answer = [c \in Callers |-> None]
    /\ result = [c \in Callers |-> "none"]
    /\ window = [c \in Callers |-> {}]
    /\ requests = <<>> /\ responses = <<>>
    /\ worker = "loop" /\ rsp = None

\* Callers inside __request_platform_kp.
Calling == {c \in Callers : pc[c] \in {"put", "look", "get", "sleep"}}

\* What a request handled at this moment is answered with.
Provided == IF appState = "unlocked" THEN key ELSE None

Recorded == window' = [c \in Callers |-> IF c \in Calling THEN window[c] \cup {Provided'}
                                         ELSE window[c]]

-----------------------------------------------------------------------------
(* The Qt main thread.  It is one thread: the dialog stands still while a  *)
(* passkey operation of the dialog waits for the platform key.             *)

DialogIdle == AppRuns /\ gui = "open" /\ (Gui # None => pc[Gui] = "idle")

OpenDialog ==
    /\ AppRuns /\ gui = "closed"
    /\ gui' = "open"
    /\ UNCHANGED <<diskVars, appVars, callVars, window, queueVars, workerVars>>

\* _on_cache_type_changed writes platform.cfg; the application's copy stays.
SelectType(t) ==
    /\ DialogIdle
    /\ saved' = t
    /\ UNCHANGED <<file, tpm, fresh, appVars, gui, callVars, window, queueVars, workerVars>>

CreateFileKey(k) ==
    /\ DialogIdle /\ saved \in {"none", "file"} /\ file = None /\ k \in fresh
    /\ file' = k /\ fresh' = fresh \ {k} /\ saved' = "file"
    /\ UNCHANGED <<tpm, appVars, gui, callVars, window, queueVars, workerVars>>

CreateTpmKey(k) ==
    /\ DialogIdle /\ saved \in {"none", "tpm"} /\ tpm = None
    /\ tpm' = k /\ saved' = "tpm"
    /\ UNCHANGED <<file, fresh, appVars, gui, callVars, window, queueVars, workerVars>>

\* Deleting a key does not take it from the running application.
DeleteKey ==
    /\ DialogIdle
    /\ \/ file # None /\ file' = None /\ UNCHANGED tpm
       \/ tpm # None /\ tpm' = None /\ UNCHANGED file
    /\ UNCHANGED <<fresh, saved, appVars, gui, callVars, window, queueVars, workerVars>>

\* Mutant: the application is unlocked without the key being stored.
UnlockMutant(k) ==
    /\ DialogIdle /\ k \in Protected
    /\ \/ k = file /\ saved \in {"none", "file"}
       \/ k = tpm /\ saved \in {"none", "tpm"}
    /\ appState' = "unlocked" /\ gui' = "unlocking"
    /\ UNCHANGED <<diskVars, pref, key, callVars, queueVars, workerVars>>
    /\ Recorded

\* _handle_unlock_platform_key with the right password stores the key first ...
Unlock(k) ==
    /\ DialogIdle /\ k \in Protected
    /\ \/ k = file /\ saved \in {"none", "file"}
       \/ k = tpm /\ saved \in {"none", "tpm"}
    /\ key' = k /\ gui' = "unlocking"
    /\ UNCHANGED <<diskVars, pref, appState, callVars, queueVars, workerVars>>
    /\ Recorded

\* __handle_dialog_closed loads a key by itself only if platform.key exists and the
\* application is still locked, and then as _auto_load_platform_key does.
CloseDialog ==
    /\ DialogIdle
    /\ IF file # None /\ appState = "locked" /\ \E k \in Keys : AutoLoads(k)
       THEN /\ gui' = "closing"
            /\ \E k \in Keys : AutoLoads(k) /\ key' = k
       ELSE gui' = "closed" /\ UNCHANGED key
    /\ UNCHANGED <<diskVars, pref, appState, callVars, queueVars, workerVars>>
    /\ Recorded

\* ... and says so after that: _set_state(AppState.UNLOCKED).
SetUnlocked ==
    /\ gui \in {"unlocking", "closing"}
    /\ appState' = "unlocked"
    /\ gui' = IF gui = "unlocking" THEN "open" ELSE "closed"
    /\ UNCHANGED <<diskVars, pref, key, callVars, queueVars, workerVars>>
    /\ Recorded

-----------------------------------------------------------------------------
(* A caller.                                                               *)

Goto(c, state) == pc' = [pc EXCEPT ![c] = state]

Begin(c) ==
    /\ pc[c] = "idle" /\ calls[c] < MaxCalls
    /\ c = Gui => gui = "open"
    /\ Goto(c, "put")
    /\ calls' = [calls EXCEPT ![c] = @ + 1]
    /\ window' = [window EXCEPT ![c] = {Provided}]
    /\ answer' = [answer EXCEPT ![c] = None] /\ result' = [result EXCEPT ![c] = "none"]
    /\ UNCHANGED <<diskVars, appVars, gui, queueVars, workerVars>>

\* platform_key_requests.put waits for room without a time limit.
PutRequest(c) ==
    /\ pc[c] = "put" /\ Len(requests) < QueueMax
    /\ requests' = Append(requests, <<c, calls[c]>>)
    /\ Goto(c, "look")
    /\ UNCHANGED <<diskVars, appVars, gui, calls, answer, result, window, responses, workerVars>>

\* platform_key_responses.qsize() > 0?
Look(c) ==
    /\ pc[c] = "look"
    /\ Goto(c, IF responses # <<>> THEN "get" ELSE "sleep")
    /\ UNCHANGED <<diskVars, appVars, gui, calls, answer, result, window, queueVars, workerVars>>

Return(c, k) ==
    /\ Goto(c, "idle")
    /\ answer' = [answer EXCEPT ![c] = k]
    /\ result' = [result EXCEPT ![c] = "app"]
    /\ window' = [window EXCEPT ![c] = {}]

Raise(c) ==
    /\ Goto(c, IF c \in Fallback THEN "failed" ELSE "idle")
    /\ result' = [result EXCEPT ![c] = "raised"]
    /\ window' = [window EXCEPT ![c] = {}]
    /\ UNCHANGED answer

\* Mutant: the request id of the response is not compared.
GetAnyMutant(c) ==
    /\ pc[c] = "get" /\ responses # <<>>
    /\ responses' = Tail(responses)
    /\ LET got == Head(responses)
       IN  \/ ~got.error /\ Return(c, got.key)
           \/ got.error /\ Raise(c)
    /\ UNCHANGED <<diskVars, appVars, gui, calls, requests, workerVars>>

\* Mutant: the response to another request is left in the queue.
GetOwnMutant(c) ==
    /\ pc[c] = "get" /\ responses # <<>>
    /\ LET got == Head(responses)
           own == got.id = <<c, calls[c]>>
       IN  /\ responses' = IF own THEN Tail(responses) ELSE responses
           /\ \/ own /\ ~got.error /\ Return(c, got.key)
              \/ own /\ got.error /\ Raise(c)
              \/ ~own /\ Goto(c, "sleep") /\ UNCHANGED <<answer, result, window>>
    /\ UNCHANGED <<diskVars, appVars, gui, calls, requests, workerVars>>

\* platform_key_responses.get() waits for ever if another caller was quicker.  A
\* response to another request is dropped.
GetResponse(c) ==
    /\ pc[c] = "get" /\ responses # <<>>
    /\ responses' = Tail(responses)
    /\ LET got == Head(responses)
           own == got.id = <<c, calls[c]>>
       IN  \/ own /\ ~got.error /\ Return(c, got.key)
           \/ own /\ got.error /\ Raise(c)
           \/ ~own /\ Goto(c, "sleep") /\ UNCHANGED <<answer, result, window>>
    /\ UNCHANGED <<diskVars, appVars, gui, calls, requests, workerVars>>

\* The loop goes round again ...
Wake(c) ==
    /\ pc[c] = "sleep"
    /\ Goto(c, "look")
    /\ UNCHANGED <<diskVars, appVars, gui, calls, answer, result, window, queueVars, workerVars>>

\* ... until the time is up.
TimeOut(c) ==
    /\ pc[c] = "sleep"
    /\ Raise(c)
    /\ UNCHANGED <<diskVars, appVars, gui, calls, queueVars, workerVars>>

\* _get_platform_kp falls back on platform.key, without a password.
ReadFile(c) ==
    /\ pc[c] = "failed"
    /\ Goto(c, "idle")
    /\ result' = [result EXCEPT ![c] = IF FileLoads THEN "file" ELSE "raised"]
    /\ UNCHANGED <<diskVars, appVars, gui, calls, answer, window, queueVars, workerVars>>

-----------------------------------------------------------------------------
(* The worker thread of the application.                                   *)

WorkerTake ==
    /\ AppRuns /\ worker = "loop" /\ requests # <<>>
    /\ requests' = Tail(requests)
    /\ worker' = "check" /\ rsp' = [id |-> Head(requests), key |-> None, error |-> FALSE]
    /\ UNCHANGED <<diskVars, appVars, gui, callVars, window, responses>>

\* Mutant: the lock is not asked for.
WorkerCheckMutant ==
    /\ worker = "check"
    /\ worker' = "read"
    /\ UNCHANGED <<diskVars, appVars, gui, callVars, window, queueVars, rsp>>

\* _is_locked() and the key are read one after the other.
WorkerCheck ==
    /\ worker = "check"
    /\ worker' = IF appState = "locked" THEN "put" ELSE "read"
    /\ rsp' = [rsp EXCEPT !.error = appState = "locked"]
    /\ UNCHANGED <<diskVars, appVars, gui, callVars, window, queueVars>>

WorkerRead ==
    /\ worker = "read"
    /\ worker' = "put" /\ rsp' = [rsp EXCEPT !.key = key]
    /\ UNCHANGED <<diskVars, appVars, gui, callVars, window, queueVars>>

\* platform_key_responses.put waits for room without a time limit; meanwhile no
\* notification is shown or withdrawn either.
WorkerPut ==
    /\ worker = "put" /\ Len(responses) < QueueMax
    /\ responses' = Append(responses, rsp)
    /\ worker' = "loop" /\ rsp' = None
    /\ UNCHANGED <<diskVars, appVars, gui, callVars, window, requests>>

-----------------------------------------------------------------------------
GuiStep ==
    \/ OpenDialog \/ CloseDialog \/ SetUnlocked \/ DeleteKey
    \/ \E t \in {"tpm", "file"} : SelectType(t)
    \/ \E k \in FileKeys : CreateFileKey(k)
    \/ \E k \in TpmKeys : CreateTpmKey(k)
    \/ \E k \in Keys : Unlock(k)

CallStep(c) == PutRequest(c) \/ Look(c) \/ GetResponse(c) \/ Wake(c) \/ ReadFile(c)

WorkerStep == WorkerTake \/ WorkerCheck \/ WorkerRead \/ WorkerPut

Next ==
    \/ GuiStep \/ WorkerStep
    \/ \E c \in Callers : Begin(c) \/ CallStep(c) \/ TimeOut(c)

Spec == Init /\ [][Next]_vars

\* Threads run.  TimeOut is taken from the sleep of the loop, which comes back again
\* and again while the clock goes on: hence strong fairness.
Fairness ==
    /\ WF_vars(SetUnlocked) /\ WF_vars(WorkerStep)
    /\ \A c \in Callers : WF_vars(CallStep(c)) /\ SF_vars(TimeOut(c))

FairSpec == Spec /\ Fairness
-----------------------------------------------------------------------------
(* Properties.                                                             *)

\* However late, stolen or stale the responses in the shared queue are, a call only
\* returns a key the application provided while that very call was in progress.
Provider == INSTANCE KeyProvider WITH provided <- Provided, calling <- Calling

Implements == Provider!Spec

\* The order of the two assignments that unlock the application matters: no response
\* that says "unlocked" is made, or queued, without a key.
UnlockedHasKey ==
    /\ appState = "unlocked" => key # None
    /\ \A c \in Callers : result[c] = "app" => answer[c] # None

\* A call ends, in a key or in an exception (__request_platform_kp: "we want to fail
\* fast and fall back to file-based key loading"), unless another caller takes the
\* response it has seen in the queue: then it waits in get(), which has no time limit.
Robbed(c) == pc[c] = "get" /\ responses = <<>>
FailsFast == \A c \in Callers : c \in Calling ~> (c \notin Calling \/ Robbed(c))

\* A full response queue stops the worker, and with it the user's notifications, which
\* it serves too; but the next call to look at the queue lets it go on.
CallFreesWorker == \A c \in Callers : worker = "put" /\ pc[c] = "look" ~> worker = "loop"
=============================================================================
