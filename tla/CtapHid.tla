------------------------------ MODULE CtapHid ------------------------------
(***************************************************************************)
(* The CTAPHID transport of the UHID device: platform/passkey_device.py    *)
(* (class CTAPHIDevice), the message assembly of ctap/cborcmd.py (class    *)
(* CBORCommand) and the event loop of platform/uhid_device.py.             *)
(*                                                                         *)
(* uhid_device._maybe_in starts one thread per frame it reads, so the      *)
(* frames of one message are handled by parallel threads that may overtake *)
(* each other.  cids_lock serialises the CBOR and the continuation         *)
(* handlers; CTAPHID_INIT replaces a channel's context without that lock.  *)
(* All threads write their reply frames into one bounded queue.            *)
(***************************************************************************)
EXTENDS Integers, Sequences

CONSTANTS
    Clients,        \* host processes, each opening at most one channel
    Channels,       \* the channel ids ctaphid_init can draw
    Messages,       \* the CTAPHID_CBOR requests (of a known command) they may send
    Controls,       \* the PING, WINK, CANCEL, ERROR, KEEPALIVE frames they may send
    ClientOf,       \* the client that sends a message or a control frame
    Length,         \* the length of a message without its command byte
    Segs,           \* continuation frames the host needs for a message
    FirstPayload,   \* request bytes in a first frame: 64 - 7 header - 1 command
    NextPayload,    \* request bytes in a continuation frame: 64 - 5
    MaxSeq,         \* sequence numbers are 0 .. MaxSeq - 1
    RspMax,         \* bound on the frames of one response
    PendingMax,     \* UserDevice.pending = Queue(maxsize=100)
    None

\* append_segment's completion test once k continuation frames are appended.
Complete(m, k) == FirstPayload + NextPayload * k >= Length[m]

\* CBORCommand.__init__ waits for more frames on >=, not on >.
Segmented(m) == Length[m] >= FirstPayload

ASSUME CtapHidAssumption ==
    /\ FirstPayload \in Nat \ {0} /\ NextPayload \in Nat \ {0}
    /\ MaxSeq \in Nat /\ RspMax \in Nat \ {0} /\ PendingMax \in Nat \ {0}
    /\ Messages \cap Controls = {}
    /\ ClientOf \in [Messages \cup Controls -> Clients]
    /\ Length \in [Messages -> Nat]
    /\ Segs \in [Messages -> 0..MaxSeq]
    /\ \A m \in Messages :
          /\ Complete(m, Segs[m])
          /\ \A k \in 0..(Segs[m] - 1) : ~Complete(m, k)

Frames == UNION {{m} \X (0..Segs[m]) : m \in Messages}

\* A request under assembly.  seg holds the continuation frames that arrived,
\* by sequence number: below next they are part of CBORCommand.request, from
\* next on they are in CBORCommand.sequence_buffer.
Txn == [msg : Messages, seg : [0..(MaxSeq - 1) -> Frames \cup {None}], next : 0..MaxSeq]

NewTxn(m) == [msg |-> m, seg |-> [s \in 0..(MaxSeq - 1) |-> None], next |-> 0]

PC == {"unsent", "ready", "running", "replying", "done",
       "ignored",    \* a command that met a pending transaction
       "dropped",    \* a continuation frame that met no transaction
       "raised"}     \* the handler thread died with an exception

Reply == [msg : Messages, idx : Nat, n : Nat]

ASSUME NoneAssumption ==
    /\ None \notin Channels /\ None \notin Messages /\ None \notin Frames
    /\ None \notin Txn /\ None \notin Reply

Out == [kind : {"rsp", "keepalive", "init", "ack"}, cid : Channels \cup {None},
        src : Messages \cup Clients \cup Controls, idx : Nat, last : BOOLEAN]

VARIABLES
    open,       \* per client: INIT not sent, INIT on its way, or channel usable
    chan,       \* per client: the channel drawn for it
    cur,        \* per client: the message it is waiting on
    abandoned,  \* messages whose client stopped waiting for them
    ctl,        \* per control frame: its handler thread
    pc,         \* per frame: its handler thread
    known,      \* the keys of CTAPHIDevice.cids
    txn,        \* cids[c]['cborCmd']
    lock,       \* the frame whose thread holds cids_lock
    work,       \* the CBORCommand the lock holder is unpacking
    reply,      \* per thread: the response it still has to send
    worker,     \* the KeepAliveWorker of the running handler
    stop,       \* KeepAliveWorker.not_alive
    pending     \* UserDevice.pending: reply frames on their way to the kernel

hostVars == <<open, chan, cur, abandoned, ctl>>
devVars == <<pc, known, txn, lock, work, reply>>
workerVars == <<worker, stop>>
vars == <<hostVars, devVars, workerVars, pending>>

TypeOK ==
    /\ open \in [Clients -> {"idle", "sent", "drawn", "replied", "open"}]
    /\ chan \in [Clients -> Channels \cup {None}]
    /\ cur \in [Clients -> Messages \cup {None}]
    /\ abandoned \in SUBSET Messages
    /\ ctl \in [Controls -> {"unsent", "ready", "more", "done"}]
    /\ pc \in [Frames -> PC]
    /\ known \in SUBSET Channels
    /\ txn \in [Channels -> Txn \cup {None}]
    /\ lock \in Frames \cup {None}
    /\ work \in Txn \cup {None}
    /\ reply \in [Frames -> Reply \cup {None}]
    /\ worker \in {"none", "loop", "sleep", "over"}
    /\ stop \in BOOLEAN
    /\ pending \in Seq(Out)

Init ==
    /\ open = [cl \in Clients |-> "idle"]
    /\ chan = [cl \in Clients |-> None]
    /\ cur = [cl \in Clients |-> None]
    /\ abandoned = {}
    /\ ctl = [x \in Controls |-> "unsent"]
    /\ pc = [f \in Frames |-> "unsent"]
    /\ known = {}
    /\ txn = [c \in Channels |-> None]
    /\ lock = None
    /\ work = None
    /\ reply = [f \in Frames |-> None]
    /\ worker = "none"
    /\ stop = FALSE
    /\ pending = <<>>

ChanOf(f) == chan[ClientOf[f[1]]]

HasRoom == Len(pending) < PendingMax

-----------------------------------------------------------------------------
(* The host (external): client processes that share the device.            *)

\* A client asks for a channel on the broadcast channel.
HostInit(cl) ==
    /\ open[cl] = "idle"
    /\ open' = [open EXCEPT ![cl] = "sent"]
    /\ UNCHANGED <<chan, cur, abandoned, ctl, devVars, workerVars, pending>>

\* A client that goes on using a channel id it was given before the device was
\* restarted, without asking for a new one.
HostReuse(cl) ==
    /\ open[cl] = "idle"
    /\ \E c \in Channels : chan' = [chan EXCEPT ![cl] = c]
    /\ open' = [open EXCEPT ![cl] = "open"]
    /\ UNCHANGED <<cur, abandoned, ctl, devVars, workerVars, pending>>

\* The first frame of a request: uhid_device._maybe_in reads it and starts the
\* thread that will handle it.
HostStart(cl, m) ==
    /\ open[cl] = "open" /\ cur[cl] = None /\ ClientOf[m] = cl
    /\ pc[<<m, 0>>] = "unsent"
    /\ cur' = [cur EXCEPT ![cl] = m]
    /\ pc' = [pc EXCEPT ![<<m, 0>>] = "ready"]
    /\ UNCHANGED <<open, chan, abandoned, ctl, known, txn, lock, work, reply, workerVars, pending>>

\* The next continuation frame, in order, with a thread of its own.
HostContinue(cl, i) ==
    /\ cur[cl] # None
    /\ i \in 1..Segs[cur[cl]]
    /\ pc[<<cur[cl], i>>] = "unsent" /\ pc[<<cur[cl], i - 1>>] # "unsent"
    /\ pc' = [pc EXCEPT ![<<cur[cl], i>>] = "ready"]
    /\ UNCHANGED <<hostVars, known, txn, lock, work, reply, workerVars, pending>>

\* The client gives up on its request (time-out, closed page) and keeps the channel.
HostAbandon(cl) ==
    /\ cur[cl] # None
    /\ abandoned' = abandoned \cup {cur[cl]}
    /\ cur' = [cur EXCEPT ![cl] = None]
    /\ UNCHANGED <<open, chan, ctl, devVars, workerVars, pending>>

HostControl(x) ==
    /\ open[ClientOf[x]] = "open" /\ ctl[x] = "unsent"
    /\ ctl' = [ctl EXCEPT ![x] = "ready"]
    /\ UNCHANGED <<open, chan, cur, abandoned, devVars, workerVars, pending>>

\* uhid_device._maybe_out hands the next reply frame to the kernel and the client
\* it is for reads it.  A client has its answer with the last frame of a response.
Deliver ==
    /\ pending # <<>>
    /\ pending' = Tail(pending)
    /\ LET out == Head(pending)
           served == {cl \in Clients : chan[cl] = out.cid /\ open[cl] = "open"}
       IN  /\ open' = IF out.kind = "init" THEN [open EXCEPT ![out.src] = "open"] ELSE open
           /\ cur' = IF out.kind = "rsp" /\ out.last
                     THEN [cl \in Clients |-> IF cl \in served THEN None ELSE cur[cl]]
                     ELSE cur
    /\ UNCHANGED <<chan, abandoned, ctl, devVars, workerVars>>

-----------------------------------------------------------------------------
(* Handlers that do not take cids_lock.                                    *)

\* ctaphid_init draws an id without looking whether it is in use and gives it a
\* fresh context; a pending transaction of that channel is forgotten.
InitDraw(cl) ==
    /\ open[cl] = "sent"
    /\ \E c \in Channels :
          /\ chan' = [chan EXCEPT ![cl] = c]
          /\ known' = known \cup {c}
          /\ txn' = [txn EXCEPT ![c] = None]
    /\ open' = [open EXCEPT ![cl] = "drawn"]
    /\ UNCHANGED <<cur, abandoned, ctl, pc, lock, work, reply, workerVars, pending>>

\* ... and answers on the channel the request came on, the broadcast channel.
InitReply(cl) ==
    /\ open[cl] = "drawn" /\ HasRoom
    /\ open' = [open EXCEPT ![cl] = "replied"]
    /\ pending' = Append(pending, [kind |-> "init", cid |-> None, src |-> cl,
                                   idx |-> 0, last |-> TRUE])
    /\ UNCHANGED <<chan, cur, abandoned, ctl, devVars, workerVars>>

\* ctaphid_ping, ctaphid_wink, ctaphid_cancel, ctaphid_error, ctaphid_unknown: one
\* frame back, and nothing of the channel is touched (CANCEL cancels nothing).
ControlAck(x) ==
    /\ ctl[x] = "ready" /\ HasRoom
    /\ ctl' = [ctl EXCEPT ![x] = "done"]
    /\ pending' = Append(pending, [kind |-> "ack", cid |-> chan[ClientOf[x]], src |-> x,
                                   idx |-> 0, last |-> TRUE])
    /\ UNCHANGED <<open, chan, cur, abandoned, devVars, workerVars>>

\* ctaphid_msg: a U2F request in one frame, answered without the lock and with no look at the
\* channel.  One frame is as above; two stand for the several of a registration.
MsgReply(x) ==
    /\ ctl[x] \in {"ready", "more"} /\ HasRoom
    /\ ctl' = [ctl EXCEPT ![x] = IF @ = "ready" THEN "more" ELSE "done"]
    /\ pending' = Append(pending, [kind |-> "ack", cid |-> chan[ClientOf[x]], src |-> x,
                                   idx |-> 0, last |-> TRUE])
    /\ UNCHANGED <<open, chan, cur, abandoned, devVars, workerVars>>

\* ctaphid_keepalive: no reply.
ControlIgnore(x) ==
    /\ ctl[x] = "ready"
    /\ ctl' = [ctl EXCEPT ![x] = "done"]
    /\ UNCHANGED <<open, chan, cur, abandoned, devVars, workerVars, pending>>

-----------------------------------------------------------------------------
(* ctaphid_cbor: the thread of a first frame, holding cids_lock throughout. *)

Becomes(f, state) == pc' = [pc EXCEPT ![f] = state]

Starting(m) == pc[<<m, 0>>] = "ready" /\ lock = None

\* The channel has a pending transaction: the new command is dropped, no error.
CborIgnored(m) ==
    /\ Starting(m) /\ txn[ChanOf(<<m, 0>>)] # None
    /\ Becomes(<<m, 0>>, "ignored")
    /\ UNCHANGED <<hostVars, known, txn, lock, work, reply, workerVars, pending>>

\* A segmented message is stored until its other frames have arrived.
CborWait(m) ==
    /\ Starting(m) /\ txn[ChanOf(<<m, 0>>)] = None /\ Segmented(m)
    /\ ChanOf(<<m, 0>>) \in known
    /\ txn' = [txn EXCEPT ![ChanOf(<<m, 0>>)] = NewTxn(m)]
    /\ Becomes(<<m, 0>>, "done")
    /\ UNCHANGED <<hostVars, known, lock, work, reply, workerVars, pending>>

\* ... which on a channel that INIT never drew is a KeyError in the thread.
CborUnknown(m) ==
    /\ Starting(m) /\ txn[ChanOf(<<m, 0>>)] = None /\ Segmented(m)
    /\ ChanOf(<<m, 0>>) \notin known
    /\ Becomes(<<m, 0>>, "raised")
    /\ UNCHANGED <<hostVars, known, txn, lock, work, reply, workerVars, pending>>

\* A message that fits its first frame is executed at once.
CborRun(m) ==
    /\ Starting(m) /\ txn[ChanOf(<<m, 0>>)] = None /\ ~Segmented(m)
    /\ lock' = <<m, 0>>
    /\ work' = NewTxn(m)
    /\ Becomes(<<m, 0>>, "running")
    /\ UNCHANGED <<hostVars, known, txn, reply, workerVars, pending>>

-----------------------------------------------------------------------------
(* _handle_incoming_sequence: the thread of a continuation frame f.        *)

Continuing(f) == f[2] > 0 /\ pc[f] = "ready" /\ lock = None

SeqNum(f) == f[2] - 1

\* t with frame f in place s.
Stored(t, s, f) == [t EXCEPT !.seg[s] = f]

\* No context, or no transaction in it: the frame is lost.
SeqDropped(f) ==
    /\ Continuing(f) /\ txn[ChanOf(f)] = None
    /\ Becomes(f, "dropped")
    /\ UNCHANGED <<hostVars, known, txn, lock, work, reply, workerVars, pending>>

\* Mutant: the frame that is expected is taken for a duplicate.
SeqOldMutant(f) ==
    /\ Continuing(f) /\ txn[ChanOf(f)] # None
    /\ SeqNum(f) <= txn[ChanOf(f)].next
    /\ Becomes(f, "done")
    /\ UNCHANGED <<hostVars, known, txn, lock, work, reply, workerVars, pending>>

\* An old or duplicate sequence number is ignored.
SeqOld(f) ==
    /\ Continuing(f) /\ txn[ChanOf(f)] # None
    /\ SeqNum(f) < txn[ChanOf(f)].next
    /\ Becomes(f, "done")
    /\ UNCHANGED <<hostVars, known, txn, lock, work, reply, workerVars, pending>>

\* A sequence number ahead of the expected one goes to sequence_buffer.
SeqEarly(f) ==
    /\ Continuing(f) /\ txn[ChanOf(f)] # None
    /\ SeqNum(f) > txn[ChanOf(f)].next
    /\ txn' = [txn EXCEPT ![ChanOf(f)] = Stored(@, SeqNum(f), f)]
    /\ Becomes(f, "done")
    /\ UNCHANGED <<hostVars, known, lock, work, reply, workerVars, pending>>

\* t with frame f appended and then every buffered frame that follows in order.
Appended(t, f, n) == [Stored(t, t.next, f) EXCEPT !.next = n]

\* Mutant: the drain also walks over sequence numbers that have not arrived.
DrainsMutant(t, n) == n < MaxSeq => t.seg[n] = None

\* n is the sequence number expected after the buffered frames are drained.
Drains(t, n) ==
    /\ \A s \in (t.next + 1)..(n - 1) : t.seg[s] # None
    /\ n < MaxSeq => t.seg[n] = None

\* The expected frame, with more still to come.
SeqAppend(f) ==
    /\ Continuing(f) /\ txn[ChanOf(f)] # None
    /\ LET t == txn[ChanOf(f)]
       IN  /\ SeqNum(f) = t.next
           /\ \E n \in (t.next + 1)..MaxSeq :
                 /\ Drains(t, n) /\ ~Complete(t.msg, n)
                 /\ txn' = [txn EXCEPT ![ChanOf(f)] = Appended(t, f, n)]
    /\ Becomes(f, "done")
    /\ UNCHANGED <<hostVars, known, lock, work, reply, workerVars, pending>>

\* The expected frame completes the message: it is unpacked under the lock.
SeqRun(f) ==
    /\ Continuing(f) /\ txn[ChanOf(f)] # None
    /\ LET t == txn[ChanOf(f)]
       IN  /\ SeqNum(f) = t.next
           /\ \E n \in (t.next + 1)..MaxSeq :
                 /\ Drains(t, n) /\ Complete(t.msg, n)
                 /\ txn' = [txn EXCEPT ![ChanOf(f)] = Appended(t, f, n)]
                 /\ work' = Appended(t, f, n)
    /\ lock' = f
    /\ Becomes(f, "running")
    /\ UNCHANGED <<hostVars, known, reply, workerVars, pending>>

-----------------------------------------------------------------------------
(* unpack: the CTAP handler runs in the thread of frame f = lock.  While it *)
(* gathers user presence a KeepAliveWorker writes into pending.            *)

Running(f) == lock = f /\ pc[f] = "running"

GatherStart(f) ==
    /\ Running(f) /\ worker = "none"
    /\ worker' = "loop"
    /\ UNCHANGED <<hostVars, devVars, stop, pending>>

\* worker.interrupt(): the answer came, or the 15 seconds are over.
GatherEnd(f) ==
    /\ Running(f) /\ worker \in {"loop", "sleep"} /\ ~stop
    /\ stop' = TRUE
    /\ UNCHANGED <<hostVars, devVars, worker, pending>>

\* The worker looks at not_alive only here, before it sleeps.
WorkerLoop ==
    /\ worker = "loop"
    /\ worker' = IF stop THEN "over" ELSE "sleep"
    /\ UNCHANGED <<hostVars, devVars, stop, pending>>

WorkerPut ==
    /\ worker = "sleep" /\ HasRoom
    /\ worker' = "loop"
    /\ pending' = Append(pending, [kind |-> "keepalive", cid |-> ChanOf(lock), src |-> lock[1],
                                   idx |-> 0, last |-> TRUE])
    /\ UNCHANGED <<hostVars, devVars, stop>>

\* gather_user_presence joins the worker before it returns.
Joined == worker \in {"none", "over"}

LeaveRun == worker' = "none" /\ stop' = FALSE /\ work' = None

\* unpack returned in ctaphid_cbor: the response is sent under the lock.
RunFirst(f, n) ==
    /\ Running(f) /\ Joined /\ f[2] = 0
    /\ reply' = [reply EXCEPT ![f] = [msg |-> work.msg, idx |-> 0, n |-> n]]
    /\ Becomes(f, "replying")
    /\ LeaveRun
    /\ UNCHANGED <<hostVars, known, txn, lock, pending>>

\* unpack returned in _handle_incoming_sequence: the transaction is deleted, the
\* lock released, and the response is sent outside it.
RunLast(f, n) ==
    /\ Running(f) /\ Joined /\ f[2] > 0 /\ txn[ChanOf(f)] # None
    /\ txn' = [txn EXCEPT ![ChanOf(f)] = None]
    /\ lock' = None
    /\ reply' = [reply EXCEPT ![f] = [msg |-> work.msg, idx |-> 0, n |-> n]]
    /\ Becomes(f, "replying")
    /\ LeaveRun
    /\ UNCHANGED <<hostVars, known, pending>>

\* INIT replaced the context meanwhile: the del is a KeyError, the response is lost.
RunOrphan(f) ==
    /\ Running(f) /\ Joined /\ f[2] > 0 /\ txn[ChanOf(f)] = None
    /\ lock' = None
    /\ Becomes(f, "raised")
    /\ LeaveRun
    /\ UNCHANGED <<hostVars, known, txn, reply, pending>>

\* Mutant: the exception leaves the lock held.
RunRaiseMutant(f) ==
    /\ Running(f) /\ Joined
    /\ lock' = lock
    /\ Becomes(f, "raised")
    /\ LeaveRun
    /\ UNCHANGED <<hostVars, known, txn, reply, pending>>

\* The CTAP handler raises: the thread dies, the lock is released, and a stored
\* transaction stays in its channel.
RunRaise(f) ==
    /\ Running(f) /\ Joined
    /\ lock' = None
    /\ Becomes(f, "raised")
    /\ LeaveRun
    /\ UNCHANGED <<hostVars, known, txn, reply, pending>>

\* Mutant: get_rsp_seg does not advance response_segment, so every frame of a
\* response goes out as its first one.
SendSegmentMutant(f) ==
    /\ pc[f] = "replying" /\ HasRoom
    /\ LET r == reply[f]
       IN  \E last \in BOOLEAN :
           /\ pending' = Append(pending, [kind |-> "rsp", cid |-> ChanOf(f), src |-> r.msg,
                                          idx |-> r.idx, last |-> last])
           /\ reply' = [reply EXCEPT ![f] = IF last THEN None ELSE r]
           /\ Becomes(f, IF last THEN "done" ELSE "replying")
           /\ lock' = IF last /\ lock = f THEN None ELSE lock
    /\ UNCHANGED <<hostVars, known, txn, work, workerVars>>

\* send_response_segments: one frame per put; ctaphid_cbor lets go of the lock
\* after the last one.
SendSegment(f) ==
    /\ pc[f] = "replying" /\ HasRoom
    /\ LET r == reply[f]
           last == r.idx + 1 = r.n
       IN  /\ pending' = Append(pending, [kind |-> "rsp", cid |-> ChanOf(f), src |-> r.msg,
                                          idx |-> r.idx, last |-> last])
           /\ reply' = [reply EXCEPT ![f] = IF last THEN None ELSE [r EXCEPT !.idx = @ + 1]]
           /\ Becomes(f, IF last THEN "done" ELSE "replying")
           /\ lock' = IF last /\ lock = f THEN None ELSE lock
    /\ UNCHANGED <<hostVars, known, txn, work, workerVars>>

-----------------------------------------------------------------------------
HostNext ==
    \/ \E cl \in Clients : HostInit(cl) \/ HostReuse(cl) \/ HostAbandon(cl)
    \/ \E cl \in Clients, m \in Messages : HostStart(cl, m)
    \/ \E cl \in Clients, i \in 1..MaxSeq : HostContinue(cl, i)
    \/ \E x \in Controls : HostControl(x)

CborStep(m) == CborIgnored(m) \/ CborWait(m) \/ CborUnknown(m) \/ CborRun(m)

SeqStep(f) == SeqDropped(f) \/ SeqOld(f) \/ SeqEarly(f) \/ SeqAppend(f) \/ SeqRun(f)

RunStep(f) ==
    \/ GatherStart(f) \/ GatherEnd(f) \/ RunOrphan(f) \/ RunRaise(f)
    \/ \E n \in 1..RspMax : RunFirst(f, n) \/ RunLast(f, n)

DeviceNext ==
    \/ Deliver \/ WorkerLoop \/ WorkerPut
    \/ \E cl \in Clients : InitDraw(cl) \/ InitReply(cl)
    \/ \E x \in Controls : ControlAck(x) \/ MsgReply(x) \/ ControlIgnore(x)
    \/ \E m \in Messages : CborStep(m)
    \/ \E f \in Frames : SeqStep(f) \/ RunStep(f) \/ SendSegment(f)

Next == HostNext \/ DeviceNext

Spec == Init /\ [][Next]_vars

\* Every thread the process has started is scheduled, the event loop keeps
\* draining pending, and a gather ends with its 15 second limit.  Clients owe
\* nothing but to finish a message they have started to send.
Fairness ==
    /\ WF_vars(Deliver) /\ WF_vars(WorkerLoop) /\ WF_vars(WorkerPut)
    /\ \A cl \in Clients :
          /\ WF_vars(InitDraw(cl)) /\ WF_vars(InitReply(cl))
          /\ \A i \in 1..MaxSeq : WF_vars(HostContinue(cl, i))
    /\ \A m \in Messages : WF_vars(CborStep(m))
    /\ \A f \in Frames :
          /\ WF_vars(SeqStep(f)) /\ WF_vars(RunStep(f))
          /\ WF_vars(GatherEnd(f)) /\ WF_vars(SendSegment(f))

FairSpec == Spec /\ Fairness
-----------------------------------------------------------------------------
(* Properties.  A channel is clean while one client at most uses it and    *)
(* that client has waited for every answer: what the code can be held to.  *)

Clean(c) ==
    /\ \A cl1, cl2 \in Clients : chan[cl1] = c /\ chan[cl2] = c => cl1 = cl2
    /\ \A m \in abandoned : chan[ClientOf[m]] # c

\* What a CTAP handler is given (bytes(self.request) in unpack) is one message,
\* whole and in order, however the frame threads were scheduled, and its client
\* is still waiting for the answer.
RequestIntegrity ==
    work # None /\ Clean(ChanOf(lock)) =>
        /\ work.next = Segs[work.msg]
        /\ \A s \in 0..(work.next - 1) : work.seg[s] = <<work.msg, s + 1>>
        /\ cur[ClientOf[work.msg]] = work.msg

\* Of two frames queued for a clean channel, no keepalive is behind a response
\* frame (the worker is joined before the response is built) and response frames
\* are of the message the client waits for, in ascending order.
ReplyOrder ==
    \A i, j \in 1..Len(pending) :
        /\ i < j /\ pending[i].cid = pending[j].cid
        /\ pending[i].kind = "rsp" /\ pending[j].kind \in {"rsp", "keepalive"}
        /\ Clean(pending[i].cid)
        => /\ pending[j].kind = "rsp" /\ pending[j].src = pending[i].src
           /\ pending[j].idx > pending[i].idx
           /\ cur[ClientOf[pending[i].src]] = pending[i].src

\* A client that waits alone on its channel gets its answer unless a frame of its
\* message was dropped or refused, its handler raised, or the message fills its
\* first frame exactly: no other schedule of threads loses a request.
Lost(m) ==
    \/ m \in abandoned \/ ~Clean(chan[ClientOf[m]])
    \/ Length[m] = FirstPayload
    \/ \E i \in 0..Segs[m] : pc[<<m, i>>] \in {"dropped", "ignored", "raised"}

Answered ==
    \A m \in Messages : cur[ClientOf[m]] = m ~> (cur[ClientOf[m]] # m \/ Lost(m))

\* cids_lock is always released: a thread never waits for it for ever.
LockReleased == \A f \in Frames : lock = f ~> lock # f

=============================================================================
