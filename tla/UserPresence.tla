---------------------------- MODULE UserPresence ----------------------------
(***************************************************************************)
(* How a getInfo request asks the user: CBORCommand.gather_user_presence   *)
(* and prompt_for_fprint in ctap/cborcmd.py, the queues notify_auth and    *)
(* notify_sysapp, the application's worker in qt/app.py, the prompts of    *)
(* qt/ux/main_window.py over D-Bus, and close_ev of uhid_device.py.        *)
(*                                                                         *)
(* cids_lock lets one request ask at a time on UHID; on USB/IP this is the *)
(* assumption of Session.  But what a request has started outlives it: its *)
(* prompt, its fingerprint thread, the answers to them in the queues.      *)
(* None of these says in the code which request it is for.                 *)
(***************************************************************************)
EXTENDS Integers, Sequences

CONSTANTS
    Channels,   \* channel ids
    MaxCalls,   \* bound: requests
    MaxCloses,  \* bound: CLOSE events of the UHID device
    AuthMax,    \* maxsize of notify_auth
    SysMax,     \* maxsize of notify_sysapp
    Sensor,     \* a fingerprint reader is available
    AtLaunch,   \* the launch notice may still be on the screen at first
    None

Calls == 1..MaxCalls

\* What may be on the screen: the prompt of a request, or the application's own notice
\* at launch, which stands for every other notification as well.
Notice == 0
Prompts == Calls \cup {Notice}

\* Threads that put into notify_auth: the Qt main thread and those of CLOSE events.
Qt == 0
Putters == 0..MaxCloses

ASSUME UserPresenceAssumption ==
    /\ MaxCalls \in Nat /\ MaxCloses \in Nat
    /\ AuthMax \in Nat \ {0} /\ SysMax \in Nat \ {0} /\ Sensor \in BOOLEAN
    /\ AtLaunch \in BOOLEAN
    /\ None \notin Prompts /\ None \notin Channels

\* "of" is where a message comes from: a prompt, a request, or None.  Only the signals
\* have it in the code; answers and orders are bare kinds there.
Answers == [kind : {"accept", "reject"}, of : Prompts] \cup [kind : {"close"}, of : {None}]
Orders == [kind : {"request", "response"}, of : Calls]
Signals == [kind : {"accept", "reject", "expired", "closed"}, of : Prompts]

ASSUME NoneIsNoAnswer == None \notin Answers

VARIABLES
    call,       \* the last request, numbered from 1
    cid,        \* its channel
    pc,         \* its gather_user_presence
    cached,     \* channels with cached presence
    outcome,    \* per request: what decided it
    by,         \* per request: the one whose prompt the deciding answer is from
    quiet,      \* history: requests that began with nothing of earlier ones under way
    fp,         \* per request: its fingerprint thread
    auth,       \* MessageQueue.notify_auth
    put,        \* per putter: what it is putting into notify_auth, or None
    asleep,     \* putters that wait on the queue's condition, longest first
    closes,     \* CLOSE events so far
    sys,        \* MessageQueue.notify_sysapp
    worker,     \* _msg_queue_handler and the cancel_notification it may be in
    thr,        \* per request: the thread that shows its prompt
    cur,        \* SysTrayMainWindow._current_notification_id
    shown,      \* prompts on the screen
    signals     \* D-Bus signals the Qt main thread has not polled yet

callVars == <<call, cid, pc, cached, outcome, by, quiet>>
authVars == <<auth, put, asleep, closes>>
appVars == <<worker, thr, cur>>
userVars == <<shown, signals>>
vars == <<callVars, fp, authVars, sys, appVars, userVars>>

TypeOK ==
    /\ call \in 0..MaxCalls /\ cid \in Channels \cup {None}
    /\ pc \in {"idle", "clear", "ask", "poll", "dismiss"}
    /\ pc # "idle" => call \in Calls /\ cid \in Channels
    /\ cached \subseteq Channels
    /\ outcome \in [Calls -> {"none", "cached", "finger", "accept", "reject", "close", "timeout"}]
    /\ by \in [Calls -> Prompts \cup {None}] /\ quiet \subseteq Calls
    /\ fp \in [Calls -> {"none", "scan", "match", "result", "matched", "failed"}]
    /\ auth \in Seq(Answers) /\ put \in [Putters -> Answers \cup {None}]
    /\ asleep \in Seq(Putters) /\ closes \in 0..MaxCloses
    /\ sys \in Seq(Orders)
    /\ worker \in {"loop", "close", "forget"}
    /\ thr \in [Calls -> {"none", "send", "reply", "stuck", "over"}]
    /\ cur \in Prompts \cup {None} /\ shown \subseteq Prompts /\ signals \in Seq(Signals)

Init ==
    /\ call = 0 /\ cid = None /\ pc = "idle" /\ cached = {}
    /\ outcome = [c \in Calls |-> "none"] /\ by = [c \in Calls |-> None] /\ quiet = {}
    /\ fp = [c \in Calls |-> "none"]
    /\ auth = <<>> /\ put = [p \in Putters |-> None] /\ asleep = <<>> /\ closes = 0
    /\ sys = <<>> /\ worker = "loop" /\ thr = [c \in Calls |-> "none"]
    /\ cur \in {None} \cup (IF AtLaunch THEN {Notice} ELSE {}) /\ shown = {cur} \ {None} /\ signals = <<>>

-----------------------------------------------------------------------------
(* gather_user_presence, one request at a time.                            *)

\* Nothing that an earlier request has started can still do something, except that
\* notify_auth may hold answers to it.
AllQuiet ==
    /\ shown = {} /\ signals = <<>> /\ put[Qt] = None /\ sys = <<>> /\ worker = "loop"
    /\ \A c \in Calls : thr[c] \notin {"send", "reply"} /\ fp[c] \notin {"scan", "match", "result"}

BeginCached(k) ==
    /\ pc = "idle" /\ call < MaxCalls /\ k \in cached
    /\ call' = call + 1 /\ cid' = k
    /\ outcome' = [outcome EXCEPT ![call + 1] = "cached"]
    /\ UNCHANGED <<pc, cached, by, quiet, fp, authVars, sys, appVars, userVars>>

Begin(k) ==
    /\ pc = "idle" /\ call < MaxCalls /\ k \notin cached
    /\ call' = call + 1 /\ cid' = k /\ pc' = "clear"
    /\ fp' = IF Sensor THEN [fp EXCEPT ![call + 1] = "scan"] ELSE fp
    /\ quiet' = IF AllQuiet THEN quiet \cup {call + 1} ELSE quiet
    /\ UNCHANGED <<cached, outcome, by, authVars, sys, appVars, userVars>>

\* Mutant: what earlier requests were answered stays in the queue.
ClearMutant ==
    /\ pc = "clear"
    /\ pc' = "ask"
    /\ UNCHANGED <<call, cid, cached, outcome, by, quiet, fp, authVars, sys, appVars, userVars>>

\* notify_auth.queue.clear() empties the queue behind its back: no putter is woken.
Clear ==
    /\ pc = "clear"
    /\ auth' = <<>> /\ pc' = "ask"
    /\ UNCHANGED <<call, cid, cached, outcome, by, quiet, fp, put, asleep, closes, sys,
                   appVars, userVars>>

Ordered(kind, c) == Len(sys) < SysMax /\ sys' = Append(sys, [kind |-> kind, of |-> c])

Ask ==
    /\ pc = "ask" /\ Ordered("request", call)
    /\ pc' = "poll"
    /\ UNCHANGED <<call, cid, cached, outcome, by, quiet, fp, authVars, appVars, userVars>>

Decided(o, c) ==
    /\ outcome' = [outcome EXCEPT ![call] = o]
    /\ by' = [by EXCEPT ![call] = c]
    /\ cached' = IF o \in {"finger", "accept"} THEN cached \cup {cid} ELSE cached
    /\ UNCHANGED <<call, cid, quiet>>

PollFinger ==
    /\ pc = "poll" /\ fp[call] = "matched"
    /\ Decided("finger", call) /\ pc' = "idle"
    /\ UNCHANGED <<fp, authVars, sys, appVars, userVars>>

\* Any answer but an accept also tells the application to withdraw the prompt.  get()
\* wakes the putter that has waited longest.
PollAnswer ==
    /\ pc = "poll" /\ auth # <<>>
    /\ auth' = Tail(auth)
    /\ asleep' = IF asleep = <<>> THEN <<>> ELSE Tail(asleep)
    /\ Decided(Head(auth).kind, Head(auth).of)
    /\ pc' = IF Head(auth).kind = "accept" THEN "idle" ELSE "dismiss"
    /\ UNCHANGED <<fp, put, closes, sys, appVars, userVars>>

Dismiss ==
    /\ pc = "dismiss" /\ Ordered("response", call)
    /\ pc' = "idle"
    /\ UNCHANGED <<call, cid, cached, outcome, by, quiet, fp, authVars, appVars, userVars>>

\* Mutant: the time limit is the fingerprint's alone.
TimeOutMutant ==
    /\ pc = "poll" /\ fp[call] = "scan"
    /\ Decided("timeout", None) /\ pc' = "idle"
    /\ UNCHANGED <<fp, authVars, sys, appVars, userVars>>

\* 15 seconds are over: the prompt is left alone, the fingerprint thread too.
TimeOut ==
    /\ pc = "poll"
    /\ Decided("timeout", None) /\ pc' = "idle"
    /\ UNCHANGED <<fp, authVars, sys, appVars, userVars>>

-----------------------------------------------------------------------------
(* prompt_for_fprint: up to three tries of 15 seconds, whatever became of  *)
(* the request.                                                            *)

Scanned(c) ==
    /\ fp[c] = "scan"
    /\ \E r \in {"match", "failed"} : fp' = [fp EXCEPT ![c] = r]
    /\ UNCHANGED <<callVars, authVars, sys, appVars, userVars>>

\* Mutant: the prompt is withdrawn before the result is known.
FingerOrderMutant(c) ==
    /\ fp[c] \in {"scan", "match"} /\ Ordered("response", c)
    /\ fp' = [fp EXCEPT ![c] = IF fp[c] = "scan" THEN "failed" ELSE "result"]
    /\ UNCHANGED <<callVars, authVars, appVars, userVars>>

\* A match first has the prompt withdrawn ...
FingerOrder(c) ==
    /\ fp[c] = "match" /\ Ordered("response", c)
    /\ fp' = [fp EXCEPT ![c] = "result"]
    /\ UNCHANGED <<callVars, authVars, appVars, userVars>>

\* ... and then tells the request.
FingerResult(c) ==
    /\ fp[c] = "result"
    /\ fp' = [fp EXCEPT ![c] = "matched"]
    /\ UNCHANGED <<callVars, authVars, sys, appVars, userVars>>

-----------------------------------------------------------------------------
(* The application's worker and the threads that show prompts.             *)

\* USER_REQUEST starts a thread for the prompt; AUTH_RESPONSE looks for a current one.
WorkerTake ==
    /\ worker = "loop" /\ sys # <<>>
    /\ sys' = Tail(sys)
    /\ IF Head(sys).kind = "request"
       THEN thr' = [thr EXCEPT ![Head(sys).of] = "send"] /\ UNCHANGED worker
       ELSE worker' = (IF cur # None THEN "close" ELSE "loop") /\ UNCHANGED thr
    /\ UNCHANGED <<callVars, fp, authVars, cur, userVars>>

\* CloseNotification of whatever is current by now ...
WorkerClose ==
    /\ worker = "close"
    /\ shown' = shown \ {cur} /\ worker' = "forget"
    /\ signals' = IF cur \in shown THEN Append(signals, [kind |-> "closed", of |-> cur]) ELSE signals
    /\ UNCHANGED <<callVars, fp, authVars, sys, thr, cur>>

\* ... and then it is no longer current.
WorkerForget ==
    /\ worker = "forget"
    /\ cur' = None /\ worker' = "loop"
    /\ UNCHANGED <<callVars, fp, authVars, sys, thr, userVars>>

\* Notify: the prompt is on the screen.
Show(c) ==
    /\ thr[c] = "send"
    /\ shown' = shown \cup {c} /\ thr' = [thr EXCEPT ![c] = "reply"]
    /\ UNCHANGED <<callVars, fp, authVars, sys, worker, cur, signals>>

\* Its id comes back and becomes the current one.
Store(c) ==
    /\ thr[c] = "reply"
    /\ cur' = c /\ thr' = [thr EXCEPT ![c] = "over"]
    /\ UNCHANGED <<callVars, fp, authVars, sys, worker, userVars>>

\* Whoever reads the connection drops what is not for him: the Qt main thread polls
\* signals, a thread of another prompt waits for its own reply.
Reads(r) == thr[r] \in {"reply", "stuck"}

ReplyTaken(c) ==
    /\ thr[c] = "reply" /\ (put[Qt] = None \/ \E r \in Calls \ {c} : Reads(r))
    /\ thr' = [thr EXCEPT ![c] = "stuck"]
    /\ UNCHANGED <<callVars, fp, authVars, sys, worker, cur, userVars>>

\* The reply comes before the signals of the same prompt.
SignalTaken(c) ==
    /\ Reads(c) /\ signals # <<>>
    /\ thr[c] = "reply" => Head(signals).of # c
    /\ signals' = Tail(signals)
    /\ UNCHANGED <<callVars, fp, authVars, sys, appVars, shown>>

-----------------------------------------------------------------------------
(* The user and the notification server (external).                        *)

Click(c, a) ==
    /\ c \in shown \ {Notice}
    /\ shown' = shown \ {c}
    /\ signals' = signals \o <<[kind |-> a, of |-> c], [kind |-> "closed", of |-> c]>>
    /\ UNCHANGED <<callVars, fp, authVars, sys, appVars>>

\* Its time is over (15 seconds for a prompt), or the user waves it away.
Leave(c, how) ==
    /\ c \in shown
    /\ shown' = shown \ {c}
    /\ signals' = Append(signals, [kind |-> how, of |-> c])
    /\ UNCHANGED <<callVars, fp, authVars, sys, appVars>>

-----------------------------------------------------------------------------
(* Putting into notify_auth.                                               *)

\* The Qt main thread polls a signal.  Whose answer it is makes no difference, and
\* whatever expires counts as declined.
QtPoll ==
    /\ put[Qt] = None /\ signals # <<>>
    /\ signals' = Tail(signals)
    /\ LET s == Head(signals)
       IN  /\ put' = CASE s.kind = "closed" -> put
                       [] s.kind = "accept" -> [put EXCEPT ![Qt] = [kind |-> "accept", of |-> s.of]]
                       [] OTHER -> [put EXCEPT ![Qt] = [kind |-> "reject", of |-> s.of]]
           /\ cur' = IF s.kind \in {"closed", "expired"} /\ s.of = cur THEN None ELSE cur
    /\ UNCHANGED <<callVars, fp, auth, asleep, closes, sys, worker, thr, shown>>

\* The client closes the device: close_ev, in a thread of its own.
CloseEvent ==
    /\ closes < MaxCloses
    /\ closes' = closes + 1
    /\ put' = [put EXCEPT ![closes + 1] = [kind |-> "close", of |-> None]]
    /\ UNCHANGED <<callVars, fp, auth, asleep, sys, appVars, userVars>>

Awake(p) == \A i \in 1..Len(asleep) : asleep[i] # p

\* Queue.put: it waits on the condition while the queue is full.
Put(p) ==
    /\ put[p] # None /\ Awake(p)
    /\ IF Len(auth) < AuthMax
       THEN auth' = Append(auth, put[p]) /\ put' = [put EXCEPT ![p] = None] /\ UNCHANGED asleep
       ELSE asleep' = Append(asleep, p) /\ UNCHANGED <<auth, put>>
    /\ UNCHANGED <<callVars, fp, closes, sys, appVars, userVars>>

-----------------------------------------------------------------------------
GatherStep == Clear \/ Ask \/ PollFinger \/ PollAnswer \/ Dismiss \/ TimeOut

FingerStep(c) == Scanned(c) \/ FingerOrder(c) \/ FingerResult(c)

WorkerStep == WorkerTake \/ WorkerClose \/ WorkerForget

PromptStep(c) == Show(c) \/ Store(c) \/ ReplyTaken(c)

UserStep(p) ==
    \/ \E a \in {"accept", "reject"} : Click(p, a)
    \/ \E how \in {"expired", "closed"} : Leave(p, how)

Next ==
    \/ \E k \in Channels : Begin(k) \/ BeginCached(k)
    \/ GatherStep \/ WorkerStep \/ QtPoll \/ CloseEvent
    \/ \E c \in Calls : FingerStep(c) \/ PromptStep(c) \/ SignalTaken(c)
    \/ \E p \in Prompts : UserStep(p)
    \/ \E p \in Putters : Put(p)

Spec == Init /\ [][Next]_vars

\* The request's own thread and the application's worker run, and time passes.  The
\* other threads, the user and the clients owe nothing.
Fairness == WF_vars(GatherStep) /\ WF_vars(WorkerStep) /\ WF_vars(TimeOut)

FairSpec == Spec /\ Fairness
-----------------------------------------------------------------------------
(* Properties.                                                             *)

\* No message names its request.  Still a request that begins with nothing of an
\* earlier one under way is decided by its own prompt and its own fingerprint alone,
\* by a CLOSE event or by time, however late the answers to earlier ones were put.
AnswerIsOwn == \A c \in quiet : by[c] \in {c, None}

\* ... and until it is answered no one withdraws its prompt.
PromptStays ==
    call \in quiet /\ pc = "poll" /\ fp[call] \in {"none", "scan", "failed"} =>
        /\ worker = "loop"
        /\ \A i \in 1..Len(sys) : sys[i].kind = "request"

\* Every request is decided, however many answers and orders are waiting in the queues.
GatherEnds == pc # "idle" ~> pc = "idle"
=============================================================================
