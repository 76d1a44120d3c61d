--------------------------- MODULE CtapHid_proofs ---------------------------
(***************************************************************************)
(* The inductive invariant of CtapHid, and the proof that on a clean       *)
(* channel a CTAP handler only ever sees one whole message, in order, of a *)
(* client that waits for it, and that its answer leaves in order.          *)
(***************************************************************************)
EXTENDS CtapHid, SequenceTheorems, TLAPS

Settled == {"done", "ignored", "dropped", "raised"}

\* Who holds cids_lock, and what its holder has in hand.
LockInv ==
    /\ \A f \in Frames : pc[f] = "running" => lock = f
    /\ \A f \in Frames : pc[f] = "replying" =>
          /\ reply[f] # None /\ reply[f].idx < reply[f].n
          /\ f[2] = 0 => lock = f
    /\ lock # None => pc[lock] \in {"running", "replying"}
    /\ work # None <=> lock # None /\ pc[lock] = "running"
    /\ worker # "none" => lock # None /\ pc[lock] = "running"

\* Frames are only sent on a channel the client was given.
SentInv ==
    /\ \A cl \in Clients : chan[cl] = None <=> open[cl] \in {"idle", "sent"}
    /\ \A cl \in Clients : cur[cl] # None => ClientOf[cur[cl]] = cl /\ open[cl] = "open"
    /\ \A f \in Frames : pc[f] # "unsent" => open[ClientOf[f[1]]] = "open"
    /\ \A m \in abandoned : open[ClientOf[m]] = "open"
    /\ \A x \in Controls : ctl[x] # "unsent" => open[ClientOf[x]] = "open"
    /\ \A k \in 1..Len(pending) :
          /\ pending[k].kind = "init" =>
                pending[k].src \in Clients /\ open[pending[k].src] \in {"replied", "open"}
          /\ pending[k].kind # "init" => pending[k].cid # None

\* A frame whose thread is alive belongs to the message its client waits on.
BusyInv ==
    \A f \in Frames :
        pc[f] \in {"ready", "running", "replying"} /\ Clean(ChanOf(f)) =>
            cur[ClientOf[f[1]]] = f[1]

\* A stored transaction holds frames of its own message only, each in its place.
Assembling(c, t) ==
    /\ chan[ClientOf[t.msg]] = c /\ cur[ClientOf[t.msg]] = t.msg
    /\ pc[<<t.msg, 0>>] \in Settled
    /\ \A s \in 0..(MaxSeq - 1) : t.seg[s] # None =>
          /\ s < Segs[t.msg] /\ t.seg[s] = <<t.msg, s + 1>>
          /\ pc[<<t.msg, s + 1>>] \notin {"unsent", "ready"}
    /\ \A s \in 0..(t.next - 1) : t.seg[s] # None

TxnInv == \A c \in Channels : Clean(c) /\ txn[c] # None => Assembling(c, txn[c])

OthersSettled(f) == \A g \in Frames : g[1] = f[1] /\ g # f => pc[g] \in Settled

\* The message being executed is the lock holder's, whole, with no frame left over.
Whole(f, t) ==
    /\ t.msg = f[1] /\ t.next = Segs[t.msg]
    /\ \A s \in 0..(t.next - 1) : t.seg[s] = <<t.msg, s + 1>>

WorkInv ==
    \A f \in Frames : pc[f] = "running" /\ Clean(ChanOf(f)) =>
        Whole(f, work) /\ OthersSettled(f)

\* A thread that answers is the last of its message, and its channel is free.
ReplyInv ==
    \A f \in Frames : pc[f] = "replying" /\ Clean(ChanOf(f)) =>
        /\ reply[f].msg = f[1] /\ OthersSettled(f) /\ txn[ChanOf(f)] = None
        /\ \A k \in 1..Len(pending) :
              pending[k].kind = "rsp" /\ pending[k].cid = ChanOf(f) =>
                  pending[k].idx < reply[f].idx

\* A queued response frame is for the message its client waits on; no frame of that
\* message has anything left to do but to send the rest of the response.
Awaited(out) ==
    /\ out.src \in Messages
    /\ chan[ClientOf[out.src]] = out.cid /\ cur[ClientOf[out.src]] = out.src
    /\ txn[out.cid] = None
    /\ \A g \in Frames : g[1] = out.src =>
          pc[g] \in Settled \/ (pc[g] = "replying" /\ ~out.last)

\* What is queued behind response frame out for the same channel is its continuation.
Follows(out, next) ==
    next.cid = out.cid /\ next.kind \in {"rsp", "keepalive"} =>
        ~out.last /\ next.kind = "rsp" /\ next.src = out.src /\ next.idx > out.idx

PendInv ==
    \A k \in 1..Len(pending) :
        pending[k].kind = "rsp" /\ Clean(pending[k].cid) =>
            /\ Awaited(pending[k])
            /\ \A j \in (k + 1)..Len(pending) : Follows(pending[k], pending[j])

IInv ==
    /\ TypeOK /\ LockInv /\ SentInv /\ BusyInv
    /\ TxnInv /\ WorkInv /\ ReplyInv /\ PendInv

-----------------------------------------------------------------------------
(* Facts about the constants and about the queue.                          *)

\* Frames are pairs of a message and a position in it.
LEMMA FrameFacts ==
    /\ \A f \in Frames : /\ f[1] \in Messages /\ f[2] \in 0..Segs[f[1]]
                        /\ f = <<f[1], f[2]>> /\ f # None
                        /\ ClientOf[f[1]] \in Clients
    /\ \A m \in Messages : \A i \in 0..Segs[m] : <<m, i>> \in Frames
    /\ \A m \in Messages : Segs[m] \in 0..MaxSeq /\ <<m, 0>> \in Frames
  BY CtapHidAssumption, NoneAssumption DEF Frames

\* None is no client, message, frame, transaction or response.
LEMMA NoneFacts ==
    /\ \A c \in Channels : c # None
    /\ \A m \in Messages : m # None
    /\ \A t \in Txn : t # None
    /\ \A r \in Reply : r # None
  BY NoneAssumption

\* A transaction starts empty.
LEMMA NewTxnType == \A m \in Messages : NewTxn(m) \in Txn
  BY CtapHidAssumption DEF Txn, NewTxn

\* What storing one frame does to a transaction.
LEMMA StoreFacts ==
  ASSUME NEW t \in Txn, NEW f \in Frames, NEW s \in 0..(MaxSeq - 1)
  PROVE  /\ Stored(t, s, f) \in Txn
         /\ Stored(t, s, f).msg = t.msg /\ Stored(t, s, f).next = t.next
         /\ \A i \in 0..(MaxSeq - 1) : Stored(t, s, f).seg[i] = IF i = s THEN f ELSE t.seg[i]
<1> DEFINE u == Stored(t, s, f)
<1>1. t.seg \in [0..(MaxSeq - 1) -> Frames \cup {None}]
  BY DEF Txn
<1>2. u = [t EXCEPT !.seg = [t.seg EXCEPT ![s] = f]]
  BY <1>1 DEF Txn, Stored
<1> HIDE DEF u
<1>3. u.seg = [t.seg EXCEPT ![s] = f] /\ u.msg = t.msg /\ u.next = t.next
  BY <1>2 DEF Txn
<1>4. \A i \in 0..(MaxSeq - 1) : u.seg[i] = IF i = s THEN f ELSE t.seg[i]
  BY <1>1, <1>3
<1>5. u \in Txn
  BY <1>1, <1>2 DEF Txn
<1>6. QED
  BY <1>3, <1>4, <1>5 DEF u

\* What appending it does, with the frames that were buffered behind it.
LEMMA AppendFacts ==
  ASSUME NEW t \in Txn, NEW f \in Frames, NEW n \in 0..MaxSeq, n > t.next
  PROVE  /\ Appended(t, f, n) \in Txn
         /\ Appended(t, f, n).msg = t.msg /\ Appended(t, f, n).next = n
         /\ \A i \in 0..(MaxSeq - 1) :
               Appended(t, f, n).seg[i] = IF i = t.next THEN f ELSE t.seg[i]
<1> DEFINE w == Stored(t, t.next, f)
<1>1. t.next \in 0..(MaxSeq - 1)
  BY CtapHidAssumption DEF Txn
<1>2. /\ w \in Txn /\ w.msg = t.msg
      /\ \A i \in 0..(MaxSeq - 1) : w.seg[i] = IF i = t.next THEN f ELSE t.seg[i]
  BY <1>1, StoreFacts
<1>3. Appended(t, f, n) = [w EXCEPT !.next = n]
  BY DEF Appended
<1> HIDE DEF w
<1>4. QED
  BY <1>2, <1>3 DEF Txn

\* What the queue holds after a put.
LEMMA PutFacts ==
  ASSUME NEW q \in Seq(Out), NEW o \in Out
  PROVE  /\ Append(q, o) \in Seq(Out) /\ Len(Append(q, o)) = Len(q) + 1
         /\ \A k \in 1..Len(q) : Append(q, o)[k] = q[k]
         /\ Append(q, o)[Len(q) + 1] = o
  BY AppendProperties

\* What the queue holds after a get.
LEMMA GetFacts ==
  ASSUME NEW q \in Seq(Out), q # <<>>
  PROVE  /\ Tail(q) \in Seq(Out) /\ Len(q) \in Nat \ {0} /\ Len(Tail(q)) = Len(q) - 1
         /\ \A k \in 1..Len(Tail(q)) : Tail(q)[k] = q[k + 1]
         /\ Head(q) = q[1] /\ Head(q) \in Out
  BY HeadTailProperties, EmptySeq

\* A frame that was sent was sent on a channel.
LEMMA Placed ==
  ASSUME TypeOK, SentInv, NEW f \in Frames, pc[f] # "unsent"
  PROVE  ChanOf(f) \in Channels /\ open[ClientOf[f[1]]] = "open"
<1>1. ClientOf[f[1]] \in Clients /\ open[ClientOf[f[1]]] = "open"
  BY FrameFacts DEF SentInv
<1>2. chan[ClientOf[f[1]]] # None
  BY <1>1 DEF SentInv
<1>3. QED
  BY <1>1, <1>2 DEF TypeOK, ChanOf

\* The transaction a continuation frame finds, and what appending to it gives.
LEMMA FoundTxn ==
  ASSUME TypeOK, SentInv, NEW f \in Frames, pc[f] = "ready", txn[ChanOf(f)] # None
  PROVE  /\ ChanOf(f) \in Channels /\ txn[ChanOf(f)] \in Txn
         /\ \A n \in (txn[ChanOf(f)].next + 1)..MaxSeq : Appended(txn[ChanOf(f)], f, n) \in Txn
<1>1. ChanOf(f) \in Channels /\ txn[ChanOf(f)] \in Txn
  BY Placed DEF TypeOK
<1>2. txn[ChanOf(f)].next \in 0..MaxSeq
  BY <1>1 DEF Txn
<1>3. QED
  BY <1>1, <1>2, AppendFacts, CtapHidAssumption

-----------------------------------------------------------------------------
(* Types, the lock and the channels: the part of the invariant that needs  *)
(* no channel to be clean.                                                 *)

\* Every step keeps the types; the put of a keepalive frame needs the lock to be held.
LEMMA TypeStep == ASSUME TypeOK, LockInv, SentInv, Next PROVE TypeOK'
<1> USE FrameFacts, CtapHidAssumption DEF hostVars, devVars, workerVars
<1>1. ASSUME NEW cl \in Clients, HostInit(cl) \/ HostReuse(cl) \/ HostAbandon(cl)
      PROVE  TypeOK'
  <2>1. CASE HostInit(cl)
    BY <2>1 DEF TypeOK, HostInit
  <2>2. CASE HostReuse(cl)
    <3>1. PICK c \in Channels : chan' = [chan EXCEPT ![cl] = c]
      BY <2>2 DEF HostReuse
    <3>2. QED
      BY <2>2, <3>1 DEF TypeOK, HostReuse
  <2>3. CASE HostAbandon(cl)
    BY <2>3 DEF TypeOK, HostAbandon
  <2>4. QED
    BY <1>1, <2>1, <2>2, <2>3
<1>2. ASSUME NEW cl \in Clients, NEW m \in Messages, HostStart(cl, m) PROVE TypeOK'
  BY <1>2 DEF TypeOK, HostStart, PC
<1>3. ASSUME NEW cl \in Clients, NEW i \in 1..MaxSeq, HostContinue(cl, i) PROVE TypeOK'
  BY <1>3 DEF TypeOK, HostContinue, PC
<1>4. ASSUME NEW x \in Controls, HostControl(x) \/ ControlIgnore(x) PROVE TypeOK'
  BY <1>4 DEF TypeOK, HostControl, ControlIgnore
<1>5. CASE Deliver
  <2> DEFINE out == Head(pending)
  <2>1. pending' = Tail(pending) /\ pending' \in Seq(Out) /\ out \in Out /\ out = pending[1]
        /\ 1 \in 1..Len(pending)
    BY <1>5, GetFacts DEF TypeOK, Deliver
  <2>2. out.kind = "init" => out.src \in Clients
    <3>1. \A k \in 1..Len(pending) : pending[k].kind = "init" => pending[k].src \in Clients
      BY DEF SentInv
    <3>2. QED
      BY <2>1, <3>1
  <2>3. open' \in [Clients -> {"idle", "sent", "drawn", "replied", "open"}]
    BY <1>5, <2>2 DEF TypeOK, Deliver
  <2>4. cur' \in [Clients -> Messages \cup {None}]
    BY <1>5 DEF TypeOK, Deliver
  <2>5. QED
    BY <1>5, <2>1, <2>3, <2>4 DEF TypeOK, Deliver
<1>6. ASSUME NEW cl \in Clients, InitDraw(cl) PROVE TypeOK'
  BY <1>6 DEF TypeOK, InitDraw
<1>7. ASSUME NEW cl \in Clients, InitReply(cl) PROVE TypeOK'
  <2>1. [kind |-> "init", cid |-> None, src |-> cl, idx |-> 0, last |-> TRUE] \in Out
    BY DEF Out
  <2>2. QED
    BY <1>7, <2>1, PutFacts DEF TypeOK, InitReply
<1>8. ASSUME NEW x \in Controls, ControlAck(x) \/ MsgReply(x) PROVE TypeOK'
  <2>1. [kind |-> "ack", cid |-> chan[ClientOf[x]], src |-> x, idx |-> 0, last |-> TRUE] \in Out
    BY DEF Out, TypeOK
  <2>2. CASE ControlAck(x)
    BY <2>1, <2>2, PutFacts DEF TypeOK, ControlAck
  <2>3. CASE MsgReply(x)
    BY <2>1, <2>3, PutFacts DEF TypeOK, MsgReply
  <2>4. QED
    BY <1>8, <2>2, <2>3
<1>9. ASSUME NEW m \in Messages, CborStep(m) PROVE TypeOK'
  <2>1. CASE CborIgnored(m) \/ CborUnknown(m)
    BY <2>1 DEF TypeOK, CborIgnored, CborUnknown, Becomes, PC
  <2>2. CASE CborWait(m)
    BY <2>2, NewTxnType DEF TypeOK, CborWait, Becomes, PC
  <2>3. CASE CborRun(m)
    BY <2>3, NewTxnType DEF TypeOK, CborRun, Becomes, PC
  <2>4. QED
    BY <1>9, <2>1, <2>2, <2>3 DEF CborStep
<1>10. ASSUME NEW f \in Frames, SeqStep(f) PROVE TypeOK'
  <2>1. CASE SeqDropped(f) \/ SeqOld(f)
    BY <2>1 DEF TypeOK, SeqDropped, SeqOld, Becomes, PC
  <2> DEFINE t == txn[ChanOf(f)]
  <2>2. CASE SeqEarly(f)
    <3>1. SeqNum(f) \in 0..(MaxSeq - 1) /\ t \in Txn /\ ChanOf(f) \in Channels
      BY <2>2, FoundTxn DEF SeqEarly, Continuing, SeqNum
    <3>2. Stored(t, SeqNum(f), f) \in Txn
      BY <3>1, StoreFacts
    <3>3. txn' = [txn EXCEPT ![ChanOf(f)] = Stored(t, SeqNum(f), f)]
      BY <2>2 DEF SeqEarly
    <3>4. txn' \in [Channels -> Txn \cup {None}]
      BY <3>2, <3>3 DEF TypeOK
    <3>5. pc' \in [Frames -> PC]
      BY <2>2 DEF TypeOK, SeqEarly, Becomes, PC
    <3>6. UNCHANGED <<open, chan, cur, abandoned, ctl, known, lock, work, reply,
                      worker, stop, pending>>
      BY <2>2 DEF SeqEarly
    <3>7. QED
      BY <3>4, <3>5, <3>6 DEF TypeOK
  <2>3. CASE SeqAppend(f) \/ SeqRun(f)
    <3>1. PICK n \in (t.next + 1)..MaxSeq :
             /\ txn' = [txn EXCEPT ![ChanOf(f)] = Appended(t, f, n)]
             /\ work' = work \/ work' = Appended(t, f, n)
      BY <2>3 DEF SeqAppend, SeqRun, devVars
    <3>2. Appended(t, f, n) \in Txn
      BY <2>3, FoundTxn DEF SeqAppend, SeqRun, Continuing
    <3>3. CASE SeqAppend(f)
      BY <3>1, <3>2, <3>3 DEF TypeOK, SeqAppend, Becomes, PC
    <3>4. CASE SeqRun(f)
      BY <3>1, <3>2, <3>4 DEF TypeOK, SeqRun, Becomes, PC
    <3>5. QED
      BY <2>3, <3>3, <3>4
  <2>4. QED
    BY <1>10, <2>1, <2>2, <2>3 DEF SeqStep
<1>11. ASSUME NEW f \in Frames, RunStep(f) PROVE TypeOK'
  <2>1. CASE GatherStart(f) \/ GatherEnd(f)
    BY <2>1 DEF TypeOK, GatherStart, GatherEnd
  <2>2. CASE RunOrphan(f) \/ RunRaise(f)
    BY <2>2 DEF TypeOK, RunOrphan, RunRaise, LeaveRun, Becomes, PC
  <2>3. ASSUME NEW n \in 1..RspMax, RunFirst(f, n) \/ RunLast(f, n) PROVE TypeOK'
    <3>1. work \in Txn
      BY <2>3 DEF RunFirst, RunLast, Running, LockInv, TypeOK
    <3>2. [msg |-> work.msg, idx |-> 0, n |-> n] \in Reply
      BY <3>1 DEF Txn, Reply
    <3>3. CASE RunFirst(f, n)
      BY <3>2, <3>3 DEF TypeOK, RunFirst, LeaveRun, Becomes, PC
    <3>4. CASE RunLast(f, n)
      BY <3>2, <3>4 DEF TypeOK, RunLast, LeaveRun, Becomes, PC
    <3>5. QED
      BY <2>3, <3>3, <3>4
  <2>4. QED
    BY <1>11, <2>1, <2>2, <2>3 DEF RunStep
<1>12. CASE WorkerLoop
  BY <1>12 DEF TypeOK, WorkerLoop
<1>13. CASE WorkerPut
  <2>1. lock \in Frames
    BY <1>13 DEF WorkerPut, LockInv, TypeOK
  <2>2. [kind |-> "keepalive", cid |-> ChanOf(lock), src |-> lock[1],
         idx |-> 0, last |-> TRUE] \in Out
    BY <2>1 DEF Out, TypeOK, ChanOf
  <2>3. QED
    BY <1>13, <2>2, PutFacts DEF TypeOK, WorkerPut
<1>14. ASSUME NEW f \in Frames, SendSegment(f) PROVE TypeOK'
  <2> DEFINE r == reply[f]
             last == r.idx + 1 = r.n
  <2>1. r \in Reply
    BY <1>14 DEF SendSegment, LockInv, TypeOK
  <2>2. [kind |-> "rsp", cid |-> ChanOf(f), src |-> r.msg, idx |-> r.idx, last |-> last] \in Out
    BY <2>1 DEF Out, Reply, TypeOK, ChanOf
  <2>3. [r EXCEPT !.idx = @ + 1] \in Reply
    BY <2>1 DEF Reply
  <2>4. QED
    BY <1>14, <2>2, <2>3, PutFacts DEF TypeOK, SendSegment, Becomes, PC
<1>15. QED
  BY <1>1, <1>2, <1>3, <1>4, <1>5, <1>6, <1>7, <1>8, <1>9, <1>10, <1>11, <1>12, <1>13, <1>14
  DEF Next, HostNext, DeviceNext

\* The holder of cids_lock is the one thread that runs or answers under it.
LEMMA LockStep == ASSUME TypeOK, LockInv, SentInv, Next PROVE LockInv'
<1> USE FrameFacts DEF hostVars, devVars, workerVars
<1>1. CASE UNCHANGED <<pc, reply, lock, work, worker>>
  BY <1>1 DEF LockInv
<1>2. CASE \E cl \in Clients : \/ HostInit(cl) \/ HostReuse(cl) \/ HostAbandon(cl)
                               \/ InitDraw(cl) \/ InitReply(cl)
  BY <1>1, <1>2 DEF HostInit, HostReuse, HostAbandon, InitDraw, InitReply
<1>3. CASE \E x \in Controls : HostControl(x) \/ ControlAck(x) \/ MsgReply(x) \/ ControlIgnore(x)
  BY <1>1, <1>3 DEF HostControl, ControlAck, MsgReply, ControlIgnore
<1>4. CASE Deliver
  BY <1>1, <1>4 DEF Deliver
<1>5. ASSUME NEW f \in Frames, pc[f] \in {"unsent", "ready"},
             UNCHANGED <<reply, lock, work, worker>>,
             NEW state \in {"ready", "done", "ignored", "dropped", "raised"}, Becomes(f, state)
      PROVE  LockInv'
  BY <1>5 DEF LockInv, TypeOK, Becomes
<1>6. ASSUME NEW cl \in Clients, NEW m \in Messages, HostStart(cl, m) PROVE LockInv'
  BY <1>5, <1>6 DEF HostStart, Becomes
<1>7. ASSUME NEW cl \in Clients, NEW i \in 1..MaxSeq, HostContinue(cl, i) PROVE LockInv'
  <2>1. <<cur[cl], i>> \in Frames
    BY <1>7 DEF HostContinue, TypeOK
  <2>2. QED
    BY <1>5, <1>7, <2>1 DEF HostContinue, Becomes
<1>8. ASSUME NEW m \in Messages, CborIgnored(m) \/ CborWait(m) \/ CborUnknown(m) PROVE LockInv'
  BY <1>5, <1>8 DEF CborIgnored, CborWait, CborUnknown, Starting
<1>9. ASSUME NEW f \in Frames, SeqDropped(f) \/ SeqOld(f) \/ SeqEarly(f) \/ SeqAppend(f)
      PROVE  LockInv'
  BY <1>5, <1>9 DEF SeqDropped, SeqOld, SeqEarly, SeqAppend, Continuing
<1>10. ASSUME NEW f \in Frames, lock = None, pc[f] = "ready", Becomes(f, "running"),
              lock' = f, work' \in Txn, UNCHANGED <<reply, worker>>
       PROVE  LockInv'
  BY <1>10, NoneFacts DEF LockInv, TypeOK, Becomes
<1>11. ASSUME NEW m \in Messages, CborRun(m) PROVE LockInv'
  BY <1>10, <1>11, NewTxnType DEF CborRun, Starting
<1>12. ASSUME NEW f \in Frames, SeqRun(f) PROVE LockInv'
  <2>1. work' \in Txn
    BY <1>12, FoundTxn DEF SeqRun, Continuing
  <2>2. QED
    BY <1>10, <1>12, <2>1 DEF SeqRun, Continuing
<1>13. ASSUME NEW f \in Frames, GatherStart(f) \/ GatherEnd(f) PROVE LockInv'
  BY <1>13 DEF GatherStart, GatherEnd, Running, LockInv
<1>14. ASSUME NEW f \in Frames, RunOrphan(f) \/ RunRaise(f) PROVE LockInv'
  BY <1>14 DEF RunOrphan, RunRaise, LeaveRun, Running, Becomes, LockInv, TypeOK
<1>15. ASSUME NEW f \in Frames, NEW n \in 1..RspMax, RunFirst(f, n) \/ RunLast(f, n)
       PROVE  LockInv'
  <2> DEFINE r == [msg |-> work.msg, idx |-> 0, n |-> n]
  <2>1. r # None /\ r.idx < r.n
    <3>1. work \in Txn
      BY <1>15 DEF RunFirst, RunLast, Running, LockInv, TypeOK
    <3>2. r \in Reply
      BY <3>1, CtapHidAssumption DEF Txn, Reply
    <3>3. QED
      BY <3>2, NoneFacts
  <2>2. CASE RunFirst(f, n)
    BY <2>1, <2>2 DEF RunFirst, LeaveRun, Running, Becomes, LockInv, TypeOK
  <2>3. CASE RunLast(f, n)
    BY <2>1, <2>3 DEF RunLast, LeaveRun, Running, Becomes, LockInv, TypeOK
  <2>4. QED
    BY <1>15, <2>2, <2>3
<1>16. CASE WorkerLoop \/ WorkerPut
  BY <1>16 DEF WorkerLoop, WorkerPut, LockInv
<1>17. ASSUME NEW f \in Frames, SendSegment(f) PROVE LockInv'
  <2> DEFINE r == reply[f]
             last == r.idx + 1 = r.n
  <2>1. r \in Reply /\ r.idx < r.n /\ (lock = f => work = None /\ worker = "none")
    BY <1>17 DEF SendSegment, LockInv, TypeOK
  <2>2. CASE last
    BY <1>17, <2>1, <2>2 DEF SendSegment, Becomes, LockInv, TypeOK
  <2>3. CASE ~last
    <3> DEFINE next == [r EXCEPT !.idx = @ + 1]
    <3>1. next \in Reply /\ next.idx < next.n
      BY <2>1, <2>3 DEF Reply
    <3>2. reply' = [reply EXCEPT ![f] = next] /\ pc' = pc /\ UNCHANGED <<lock, work, worker>>
      BY <1>17, <2>3 DEF SendSegment, Becomes, TypeOK
    <3>3. QED
      BY <3>1, <3>2, NoneFacts DEF LockInv, TypeOK
  <2>4. QED
    BY <2>2, <2>3
<1>18. QED
  BY <1>2, <1>3, <1>4, <1>6, <1>7, <1>8, <1>9, <1>11, <1>12, <1>13, <1>14, <1>15, <1>16, <1>17
  DEF Next, HostNext, DeviceNext, CborStep, SeqStep, RunStep

\* Frames are sent on channels only, and a channel is not given away by being used.
LEMMA SentStep == ASSUME TypeOK, LockInv, SentInv, Next PROVE SentInv'
<1> USE FrameFacts DEF hostVars, devVars, workerVars
<1>1. ASSUME NEW cl \in Clients, HostInit(cl) PROVE SentInv'
  BY <1>1 DEF HostInit, SentInv, TypeOK
<1>2. ASSUME NEW cl \in Clients, HostReuse(cl) PROVE SentInv'
  <2>1. PICK c \in Channels : chan' = [chan EXCEPT ![cl] = c]
    BY <1>2 DEF HostReuse
  <2>2. QED
    BY <1>2, <2>1, NoneFacts DEF HostReuse, SentInv, TypeOK
<1>3. ASSUME NEW cl \in Clients, HostAbandon(cl) PROVE SentInv'
  BY <1>3 DEF HostAbandon, SentInv, TypeOK
<1>4. ASSUME NEW cl \in Clients, NEW m \in Messages, HostStart(cl, m) PROVE SentInv'
  BY <1>4 DEF HostStart, SentInv, TypeOK
<1>5. ASSUME NEW cl \in Clients, NEW i \in 1..MaxSeq, HostContinue(cl, i) PROVE SentInv'
  BY <1>5 DEF HostContinue, SentInv, TypeOK
<1>6. ASSUME NEW x \in Controls, HostControl(x) \/ ControlIgnore(x) PROVE SentInv'
  BY <1>6, CtapHidAssumption DEF HostControl, ControlIgnore, SentInv, TypeOK
<1>7. ASSUME NEW cl \in Clients, InitDraw(cl) PROVE SentInv'
  <2>1. PICK c \in Channels : chan' = [chan EXCEPT ![cl] = c]
    BY <1>7 DEF InitDraw
  <2>2. QED
    BY <1>7, <2>1, NoneFacts DEF InitDraw, SentInv, TypeOK
<1>8. ASSUME NEW cl \in Clients, InitReply(cl) PROVE SentInv'
  <2> DEFINE o == [kind |-> "init", cid |-> None, src |-> cl, idx |-> 0, last |-> TRUE]
  <2>1. o \in Out
    BY DEF Out
  <2>2. QED
    BY <1>8, <2>1, PutFacts DEF InitReply, SentInv, TypeOK
<1>9. ASSUME NEW o \in Out, o.kind # "init", o.cid # None, pending' = Append(pending, o),
             UNCHANGED <<open, chan, cur, abandoned>>,
             \A f \in Frames : pc'[f] # "unsent" => pc[f] # "unsent",
             \A x \in Controls : ctl'[x] # "unsent" => ctl[x] # "unsent"
      PROVE  SentInv'
  BY <1>9, PutFacts DEF SentInv, TypeOK
<1>10. ASSUME NEW x \in Controls, ControlAck(x) \/ MsgReply(x) PROVE SentInv'
  <2> DEFINE o == [kind |-> "ack", cid |-> chan[ClientOf[x]], src |-> x, idx |-> 0, last |-> TRUE]
  <2>1. o \in Out /\ o.cid # None
    BY <1>10, CtapHidAssumption DEF Out, ControlAck, MsgReply, SentInv, TypeOK
  <2>2. QED
    BY <1>9, <1>10, <2>1 DEF ControlAck, MsgReply, TypeOK
<1>11. CASE WorkerPut
  <2> DEFINE o == [kind |-> "keepalive", cid |-> ChanOf(lock), src |-> lock[1],
                   idx |-> 0, last |-> TRUE]
  <2>1. lock \in Frames /\ pc[lock] = "running"
    BY <1>11 DEF WorkerPut, LockInv, TypeOK
  <2>2. o \in Out /\ o.cid # None
    BY <2>1, Placed, NoneFacts DEF Out
  <2>3. QED
    BY <1>9, <1>11, <2>2 DEF WorkerPut
<1>12. ASSUME NEW f \in Frames, SendSegment(f) PROVE SentInv'
  <2> DEFINE r == reply[f]
             o == [kind |-> "rsp", cid |-> ChanOf(f), src |-> r.msg,
                   idx |-> r.idx, last |-> r.idx + 1 = r.n]
  <2>1. ChanOf(f) \in Channels /\ r \in Reply
    BY <1>12, Placed DEF SendSegment, LockInv, TypeOK
  <2>2. o \in Out /\ o.cid # None
    BY <2>1, NoneFacts DEF Out, Reply
  <2>3. \A g \in Frames : pc'[g] # "unsent" => pc[g] # "unsent"
    BY <1>12 DEF SendSegment, Becomes, TypeOK
  <2>4. QED
    BY <1>9, <1>12, <2>2, <2>3 DEF SendSegment
<1>13. CASE Deliver
  <2>1. /\ pending' \in Seq(Out)
        /\ \A k \in 1..Len(pending') : k + 1 \in 1..Len(pending) /\ pending'[k] = pending[k + 1]
        /\ 1 \in 1..Len(pending) /\ Head(pending) = pending[1]
    BY <1>13, GetFacts DEF Deliver, TypeOK
  <2>2. \A cl \in Clients : /\ open[cl] = "open" => open'[cl] = "open"
                            /\ open[cl] = "replied" => open'[cl] \in {"replied", "open"}
                            /\ open[cl] \in {"idle", "sent", "drawn"} => open'[cl] = open[cl]
    BY <1>13, <2>1 DEF Deliver, TypeOK, SentInv
  <2>3. \A cl \in Clients : cur'[cl] # None => cur'[cl] = cur[cl]
    BY <1>13 DEF Deliver, TypeOK
  <2>4. UNCHANGED <<chan, abandoned, ctl, pc>>
    BY <1>13 DEF Deliver
  <2>5. \A k \in 1..Len(pending') :
          /\ pending'[k].kind = "init" =>
                pending'[k].src \in Clients /\ open'[pending'[k].src] \in {"replied", "open"}
          /\ pending'[k].kind # "init" => pending'[k].cid # None
    BY <2>1, <2>2 DEF SentInv
  <2>6. \A cl \in Clients : chan'[cl] = None <=> open'[cl] \in {"idle", "sent"}
    BY <2>2, <2>4 DEF SentInv, TypeOK
  <2>7. \A cl \in Clients : cur'[cl] # None => ClientOf[cur'[cl]] = cl /\ open'[cl] = "open"
    BY <2>2, <2>3 DEF SentInv
  <2>8. \A f \in Frames : pc'[f] # "unsent" => open'[ClientOf[f[1]]] = "open"
    BY <2>2, <2>4 DEF SentInv
  <2>9. /\ \A m \in abandoned' : open'[ClientOf[m]] = "open"
        /\ \A x \in Controls : ctl'[x] # "unsent" => open'[ClientOf[x]] = "open"
    BY <2>2, <2>4, CtapHidAssumption DEF SentInv, TypeOK
  <2>10. QED
    BY <2>5, <2>6, <2>7, <2>8, <2>9 DEF SentInv
<1>14. ASSUME UNCHANGED <<hostVars, pending>>,
              \A f \in Frames : pc'[f] # "unsent" => pc[f] # "unsent"
       PROVE  SentInv'
  BY <1>14 DEF SentInv
<1>15. ASSUME NEW m \in Messages, CborStep(m) PROVE SentInv'
  BY <1>14, <1>15
  DEF CborStep, CborIgnored, CborWait, CborUnknown, CborRun, Starting, Becomes, TypeOK
<1>16. ASSUME NEW f \in Frames, SeqStep(f) PROVE SentInv'
  BY <1>14, <1>16
  DEF SeqStep, SeqDropped, SeqOld, SeqEarly, SeqAppend, SeqRun, Continuing, Becomes, TypeOK
<1>17. ASSUME NEW f \in Frames, RunStep(f) PROVE SentInv'
  BY <1>14, <1>17
  DEF RunStep, GatherStart, GatherEnd, RunOrphan, RunRaise, RunFirst, RunLast, Running,
      Becomes, TypeOK
<1>18. CASE WorkerLoop
  BY <1>14, <1>18 DEF WorkerLoop
<1>19. QED
  BY <1>1, <1>2, <1>3, <1>4, <1>5, <1>6, <1>7, <1>8, <1>10, <1>11, <1>12, <1>13, <1>15, <1>16,
     <1>17, <1>18
  DEF Next, HostNext, DeviceNext

-----------------------------------------------------------------------------
(* Clean channels.                                                         *)

\* Whether a channel is clean depends on chan and abandoned alone.
LEMMA CleanSame ==
  ASSUME UNCHANGED <<chan, abandoned>>
  PROVE  (\A c : Clean(c)' = Clean(c)) /\ (\A f : ChanOf(f)' = ChanOf(f))
  BY DEF Clean, ChanOf

\* Giving a channel to a client that has none makes no channel clean, and moves no
\* frame that was sent.
LEMMA NewChannel ==
  ASSUME TypeOK, SentInv, NEW cl \in Clients, open[cl] \in {"idle", "sent"},
         NEW c \in Channels, chan' = [chan EXCEPT ![cl] = c], abandoned' = abandoned
  PROVE  /\ \A d \in Channels : Clean(d)' => Clean(d)
         /\ \A k \in Clients : chan[k] # None => k # cl /\ chan'[k] = chan[k]
         /\ \A f \in Frames : pc[f] # "unsent" =>
               ChanOf(f) \in Channels /\ ChanOf(f)' = ChanOf(f)
<1>1. chan[cl] = None
  BY DEF SentInv
<1>2. \A k \in Clients : chan[k] # None => k # cl /\ chan'[k] = chan[k]
  BY <1>1 DEF TypeOK
<1>3. ASSUME NEW d \in Channels, Clean(d)' PROVE Clean(d)
  <2>1. \A m \in abandoned : ClientOf[m] \in Clients
    BY CtapHidAssumption DEF TypeOK
  <2>2. QED
    BY <1>2, <1>3, <2>1, NoneFacts DEF Clean
<1>4. QED
  BY <1>2, <1>3, Placed, FrameFacts, NoneFacts DEF ChanOf

\* Giving up on a request leaves the client's channel unclean.
LEMMA Abandoning ==
  ASSUME TypeOK, SentInv, NEW cl \in Clients, HostAbandon(cl)
  PROVE  /\ \A c : Clean(c)' => Clean(c) /\ c # chan[cl]
         /\ \A f : ChanOf(f)' = ChanOf(f)
<1>1. ClientOf[cur[cl]] = cl /\ cur[cl] \in abandoned' /\ chan' = chan
      /\ abandoned \subseteq abandoned'
  BY DEF HostAbandon, SentInv
<1>2. QED
  BY <1>1 DEF Clean, ChanOf

\* Two threads of a clean channel work for the same message.
LEMMA Alone ==
  ASSUME BusyInv, NEW f \in Frames, NEW g \in Frames,
         pc[f] \in {"ready", "running", "replying"}, pc[g] \in {"ready", "running", "replying"},
         ChanOf(f) = ChanOf(g), Clean(ChanOf(f))
  PROVE  f[1] = g[1]
  BY FrameFacts DEF BusyInv, Clean, ChanOf

\* The transaction of a clean channel is of the message whose frames are handled.
LEMMA OwnTxn ==
  ASSUME TypeOK, BusyInv, TxnInv, NEW f \in Frames, pc[f] \in {"ready", "running", "replying"},
         ChanOf(f) \in Channels, Clean(ChanOf(f)), txn[ChanOf(f)] # None
  PROVE  txn[ChanOf(f)].msg = f[1] /\ Assembling(ChanOf(f), txn[ChanOf(f)])
<1>1. Assembling(ChanOf(f), txn[ChanOf(f)])
  BY DEF TxnInv
<1>2. txn[ChanOf(f)].msg \in Messages
  BY DEF TypeOK, Txn
<1>3. QED
  BY <1>1, <1>2, FrameFacts, CtapHidAssumption DEF Assembling, BusyInv, Clean, ChanOf

\* Only the thread that sends a response is alive on a clean channel that has
\* frames of a response queued, and then the last one is not among them.
LEMMA OwnAnswer ==
  ASSUME BusyInv, PendInv, NEW k \in 1..Len(pending), NEW f \in Frames,
         pc[f] \in {"ready", "running", "replying"},
         pending[k].kind = "rsp", pending[k].cid = ChanOf(f), Clean(ChanOf(f))
  PROVE  pending[k].src = f[1] /\ pc[f] = "replying" /\ ~pending[k].last
<1>1. Awaited(pending[k])
  BY DEF PendInv
<1>2. pending[k].src = f[1]
  BY <1>1, FrameFacts, CtapHidAssumption DEF Awaited, BusyInv, Clean, ChanOf
<1>3. QED
  BY <1>1, <1>2 DEF Awaited, Settled

\* A live thread belongs to the message its client waits on.
LEMMA BusyStep == ASSUME IInv, Next PROVE BusyInv'
<1> USE FrameFacts DEF IInv, hostVars, devVars, workerVars
<1>1. ASSUME UNCHANGED <<chan, cur, abandoned>>,
             \A f \in Frames : pc'[f] \in {"ready", "running", "replying"} =>
                                  pc[f] \in {"ready", "running", "replying"}
      PROVE  BusyInv'
  BY <1>1, CleanSame DEF BusyInv
<1>2. CASE \E cl \in Clients : HostInit(cl) \/ InitReply(cl)
  BY <1>1, <1>2 DEF HostInit, InitReply
<1>3. CASE \E x \in Controls : HostControl(x) \/ ControlAck(x) \/ MsgReply(x) \/ ControlIgnore(x)
  BY <1>1, <1>3 DEF HostControl, ControlAck, MsgReply, ControlIgnore
<1>4. ASSUME NEW cl \in Clients, HostReuse(cl) \/ InitDraw(cl) PROVE BusyInv'
  <2>1. /\ open[cl] \in {"idle", "sent"} /\ UNCHANGED <<cur, abandoned, pc>>
        /\ \E c \in Channels : chan' = [chan EXCEPT ![cl] = c]
    BY <1>4 DEF HostReuse, InitDraw
  <2>2. QED
    BY <2>1, NewChannel DEF BusyInv
<1>5. ASSUME NEW cl \in Clients, HostAbandon(cl) PROVE BusyInv'
  <2>1. /\ \A f \in Frames : Clean(ChanOf(f))' => Clean(ChanOf(f)) /\ ChanOf(f) # chan[cl]
        /\ UNCHANGED pc
    BY <1>5, Abandoning DEF HostAbandon
  <2>2. \A f \in Frames : ClientOf[f[1]] = cl => ChanOf(f) = chan[cl]
    BY DEF ChanOf
  <2>3. \A k \in Clients : k # cl => cur'[k] = cur[k]
    BY <1>5 DEF HostAbandon, TypeOK
  <2>4. QED
    BY <2>1, <2>2, <2>3 DEF BusyInv
<1>6. ASSUME NEW cl \in Clients, NEW m \in Messages, HostStart(cl, m) PROVE BusyInv'
  <2>1. /\ \A f \in Frames : pc'[f] = IF f = <<m, 0>> THEN "ready" ELSE pc[f]
        /\ \A k \in Clients : cur'[k] = IF k = cl THEN m ELSE cur[k]
        /\ cur[cl] = None /\ ClientOf[m] = cl /\ UNCHANGED <<chan, abandoned>>
    BY <1>6 DEF HostStart, TypeOK
  <2>2. QED
    BY <2>1, CleanSame, NoneFacts DEF BusyInv
<1>7. ASSUME NEW cl \in Clients, NEW i \in 1..MaxSeq, HostContinue(cl, i) PROVE BusyInv'
  BY <1>7, CleanSame DEF HostContinue, BusyInv, TypeOK, SentInv
<1>8. CASE Deliver
  <2>1. /\ 1 \in 1..Len(pending) /\ Head(pending) = pending[1]
        /\ UNCHANGED <<chan, abandoned, pc>>
    BY <1>8, GetFacts DEF Deliver, TypeOK
  <2>2. ASSUME NEW f \in Frames, pc[f] \in {"ready", "running", "replying"}, Clean(ChanOf(f))
        PROVE  cur'[ClientOf[f[1]]] = cur[ClientOf[f[1]]]
    <3>1. ~(pending[1].kind = "rsp" /\ pending[1].last /\ pending[1].cid = ChanOf(f))
      BY <2>1, <2>2, OwnAnswer
    <3>2. QED
      BY <1>8, <2>1, <3>1 DEF Deliver, ChanOf, TypeOK
  <2>3. QED
    BY <2>1, <2>2, CleanSame DEF BusyInv
<1>9. ASSUME NEW m \in Messages, CborStep(m) PROVE BusyInv'
  BY <1>1, <1>9
  DEF CborStep, CborIgnored, CborWait, CborUnknown, CborRun, Starting, Becomes, TypeOK
<1>10. ASSUME NEW f \in Frames, SeqStep(f) PROVE BusyInv'
  BY <1>1, <1>10
  DEF SeqStep, SeqDropped, SeqOld, SeqEarly, SeqAppend, SeqRun, Continuing, Becomes, TypeOK
<1>11. ASSUME NEW f \in Frames, RunStep(f) PROVE BusyInv'
  BY <1>1, <1>11
  DEF RunStep, GatherStart, GatherEnd, RunOrphan, RunRaise, RunFirst, RunLast, Running,
      Becomes, TypeOK
<1>12. CASE WorkerLoop \/ WorkerPut
  BY <1>1, <1>12 DEF WorkerLoop, WorkerPut
<1>13. ASSUME NEW f \in Frames, SendSegment(f) PROVE BusyInv'
  BY <1>1, <1>13 DEF SendSegment, Becomes, TypeOK
<1>14. QED
  BY <1>2, <1>3, <1>4, <1>5, <1>6, <1>7, <1>8, <1>9, <1>10, <1>11, <1>12, <1>13
  DEF Next, HostNext, DeviceNext

\* Frames are appended and buffered where they belong.
LEMMA TxnStep == ASSUME IInv, TypeOK', Next PROVE TxnInv'
<1> USE FrameFacts DEF IInv, hostVars, devVars, workerVars
<1> DEFINE Forward == \A f \in Frames :
             /\ pc[f] \in Settled => pc'[f] \in Settled
             /\ pc[f] \notin {"unsent", "ready"} => pc'[f] \notin {"unsent", "ready"}
<1>1. ASSUME UNCHANGED <<chan, cur>>, Forward,
             NEW c \in Channels, NEW t \in Txn, Assembling(c, t)
      PROVE  Assembling(c, t)'
  BY <1>1 DEF Assembling, Txn
<1>2. ASSUME UNCHANGED <<chan, cur, abandoned>>, Forward,
             \A c \in Channels : txn'[c] \in {txn[c], None}
      PROVE  TxnInv'
  <2>1. ASSUME NEW c \in Channels, Clean(c), txn'[c] # None
        PROVE  Assembling(c, txn[c])' /\ txn'[c] = txn[c]
    BY <1>1, <1>2, <2>1 DEF TxnInv, TypeOK
  <2>2. QED
    BY <1>2, <2>1, CleanSame DEF TxnInv
<1>3. CASE UNCHANGED <<chan, cur, abandoned, txn, pc>>
  BY <1>2, <1>3
<1>4. CASE \E cl \in Clients : HostInit(cl) \/ InitReply(cl)
  BY <1>3, <1>4 DEF HostInit, InitReply
<1>5. CASE \E x \in Controls : HostControl(x) \/ ControlAck(x) \/ MsgReply(x) \/ ControlIgnore(x)
  BY <1>3, <1>5 DEF HostControl, ControlAck, MsgReply, ControlIgnore
<1>6. CASE WorkerLoop \/ WorkerPut
  BY <1>3, <1>6 DEF WorkerLoop, WorkerPut
<1>7. ASSUME NEW cl \in Clients, NEW i \in 1..MaxSeq, HostContinue(cl, i) PROVE TxnInv'
  BY <1>2, <1>7 DEF HostContinue, Settled, TypeOK
<1>8. ASSUME NEW m \in Messages, CborIgnored(m) \/ CborUnknown(m) \/ CborRun(m) PROVE TxnInv'
  BY <1>2, <1>8 DEF CborIgnored, CborUnknown, CborRun, Starting, Becomes, Settled, TypeOK
<1>9. ASSUME NEW f \in Frames, SeqDropped(f) \/ SeqOld(f) PROVE TxnInv'
  BY <1>2, <1>9 DEF SeqDropped, SeqOld, Continuing, Becomes, Settled, TypeOK
<1>10. ASSUME NEW f \in Frames, RunStep(f) PROVE TxnInv'
  <2>1. CASE GatherStart(f) \/ GatherEnd(f)
    BY <1>3, <2>1 DEF GatherStart, GatherEnd
  <2>2. CASE RunOrphan(f) \/ RunRaise(f)
    BY <1>2, <2>2 DEF RunOrphan, RunRaise, Running, Becomes, Settled, TypeOK
  <2>3. ASSUME NEW n \in 1..RspMax, RunFirst(f, n) \/ RunLast(f, n) PROVE TxnInv'
    BY <1>2, <2>3 DEF RunFirst, RunLast, Running, Becomes, Settled, TypeOK
  <2>4. QED
    BY <1>10, <2>1, <2>2, <2>3 DEF RunStep
<1>11. ASSUME NEW f \in Frames, SendSegment(f) PROVE TxnInv'
  BY <1>2, <1>11 DEF SendSegment, Becomes, Settled, TypeOK
<1>12. ASSUME \A c \in Channels : txn'[c] \in {txn[c], None},
              \A c \in Channels : Clean(c)' => Clean(c),
              UNCHANGED pc,
              \A c \in Channels, m \in Messages :
                 Clean(c)' /\ txn[c] # None /\ txn[c].msg = m /\
                    chan[ClientOf[m]] = c /\ cur[ClientOf[m]] = m =>
                       chan'[ClientOf[m]] = c /\ cur'[ClientOf[m]] = m
       PROVE  TxnInv'
  <2>1. ASSUME NEW c \in Channels, Clean(c)', txn'[c] # None
        PROVE  Assembling(c, txn[c])' /\ txn'[c] = txn[c]
    <3>1. txn'[c] = txn[c] /\ txn[c] \in Txn /\ Assembling(c, txn[c])
      BY <1>12, <2>1 DEF TypeOK, TxnInv
    <3>2. txn[c].msg \in Messages
      BY <3>1 DEF Txn
    <3>3. chan'[ClientOf[txn[c].msg]] = c /\ cur'[ClientOf[txn[c].msg]] = txn[c].msg
      BY <1>12, <2>1, <3>1, <3>2 DEF Assembling
    <3>4. QED
      BY <1>12, <3>1, <3>3 DEF Assembling
  <2>2. QED
    BY <2>1 DEF TxnInv
<1>13. ASSUME NEW cl \in Clients, HostReuse(cl) \/ InitDraw(cl) PROVE TxnInv'
  <2>1. /\ open[cl] \in {"idle", "sent"} /\ UNCHANGED <<cur, abandoned, pc>>
        /\ \E c \in Channels : chan' = [chan EXCEPT ![cl] = c]
        /\ \A c \in Channels : txn'[c] \in {txn[c], None}
    BY <1>13 DEF HostReuse, InitDraw, TypeOK
  <2>2. \A c \in Channels : Clean(c)' => Clean(c)
    BY <2>1, NewChannel
  <2>3. \A m \in Messages : chan[ClientOf[m]] # None => chan'[ClientOf[m]] = chan[ClientOf[m]]
    BY <2>1, NewChannel, CtapHidAssumption
  <2>4. QED
    BY <1>12, <2>1, <2>2, <2>3, NoneFacts
<1>14. ASSUME NEW cl \in Clients, HostAbandon(cl) PROVE TxnInv'
  <2>1. /\ \A c : Clean(c)' => Clean(c) /\ c # chan[cl]
        /\ UNCHANGED <<pc, txn, chan>> /\ \A k \in Clients : k # cl => cur'[k] = cur[k]
    BY <1>14, Abandoning DEF HostAbandon, TypeOK
  <2>2. QED
    BY <1>12, <2>1, CtapHidAssumption
<1>15. ASSUME NEW cl \in Clients, NEW m \in Messages, HostStart(cl, m) PROVE TxnInv'
  <2>1. ASSUME NEW c \in Channels, txn[c] # None, Assembling(c, txn[c])
        PROVE  Assembling(c, txn[c])'
    <3>1. txn[c] \in Txn /\ txn[c].msg \in Messages /\ txn'[c] = txn[c]
      BY <1>15, <2>1 DEF TypeOK, Txn, HostStart
    <3>2. ClientOf[txn[c].msg] # cl /\ txn[c].msg # m
      BY <1>15, <2>1, <3>1, NoneFacts DEF HostStart, Assembling
    <3>3. /\ cur'[ClientOf[txn[c].msg]] = cur[ClientOf[txn[c].msg]] /\ chan' = chan
          /\ \A i \in 0..Segs[txn[c].msg] : pc'[<<txn[c].msg, i>>] = pc[<<txn[c].msg, i>>]
      BY <1>15, <3>1, <3>2, CtapHidAssumption DEF HostStart, TypeOK
    <3>4. Segs[txn[c].msg] \in Nat
      BY <3>1, CtapHidAssumption
    <3>. \A s \in 0..(MaxSeq - 1) : txn[c].seg[s] # None => s < Segs[txn[c].msg]
      BY <2>1 DEF Assembling
    <3>5. /\ \A s \in 0..(MaxSeq - 1) : txn[c].seg[s] # None =>
                s + 1 \in 0..Segs[txn[c].msg]
          /\ 0 \in 0..Segs[txn[c].msg]
      BY <3>4, CtapHidAssumption
    <3>6. QED
      BY <2>1, <3>1, <3>3, <3>5 DEF Assembling
  <2>2. UNCHANGED <<chan, abandoned, txn>>
    BY <1>15 DEF HostStart
  <2>3. QED
    BY <2>1, <2>2, CleanSame DEF TxnInv
<1>16. CASE Deliver
  <2>1. /\ 1 \in 1..Len(pending) /\ Head(pending) = pending[1]
        /\ UNCHANGED <<chan, abandoned, pc, txn>>
    BY <1>16, GetFacts DEF Deliver, TypeOK
  <2>2. ASSUME NEW c \in Channels, NEW m \in Messages, Clean(c), txn[c] # None,
               chan[ClientOf[m]] = c
        PROVE  cur'[ClientOf[m]] = cur[ClientOf[m]]
    <3>1. ~(pending[1].kind = "rsp" /\ pending[1].last /\ pending[1].cid = c)
      BY <2>1, <2>2 DEF PendInv, Awaited
    <3>2. QED
      BY <1>16, <2>1, <2>2, <3>1, CtapHidAssumption DEF Deliver, TypeOK
  <2>3. QED
    BY <1>12, <2>1, <2>2, CleanSame
<1>17. ASSUME UNCHANGED <<chan, cur, abandoned>>, Forward,
              NEW c0 \in Channels, NEW u \in Txn, txn' = [txn EXCEPT ![c0] = u],
              Clean(c0) => Assembling(c0, u)'
       PROVE  TxnInv'
  <2>1. ASSUME NEW c \in Channels, Clean(c), txn'[c] # None PROVE Assembling(c, txn[c])'
    <3>1. CASE c = c0
      <4>1. txn'[c] = u
        BY <1>17, <3>1 DEF TypeOK
      <4>2. QED
        BY <1>17, <2>1, <3>1, <4>1 DEF Assembling
    <3>2. CASE c # c0
      <4>1. txn'[c] = txn[c] /\ txn[c] \in Txn /\ Assembling(c, txn[c])
        BY <1>17, <2>1, <3>2 DEF TxnInv, TypeOK
      <4>2. PICK t \in Txn : t = txn[c]
        BY <4>1
      <4>3. Assembling(c, t)'
        BY <1>1, <1>17, <4>1, <4>2
      <4>4. QED
        BY <4>1, <4>2, <4>3 DEF Assembling
    <3>3. QED
      BY <3>1, <3>2
  <2>2. QED
    BY <1>17, <2>1, CleanSame DEF TxnInv
<1>18. ASSUME NEW m \in Messages, CborWait(m) PROVE TxnInv'
  <2> DEFINE f == <<m, 0>>
  <2>1. PICK c : c = ChanOf(f)
    OBVIOUS
  <2>2. /\ c \in Channels /\ NewTxn(m) \in Txn /\ txn' = [txn EXCEPT ![c] = NewTxn(m)]
        /\ UNCHANGED <<chan, cur, abandoned>>
        /\ pc[f] = "ready" /\ pc' = [pc EXCEPT ![f] = "done"]
    BY <1>18, <2>1, Placed, NewTxnType DEF CborWait, Starting, Becomes
  <2>3. Clean(c) => Assembling(c, NewTxn(m))'
    BY <2>1, <2>2 DEF BusyInv, Assembling, NewTxn, Settled, TypeOK, ChanOf
  <2>4. Forward
    BY <2>2 DEF Settled, TypeOK
  <2>5. QED
    BY <1>17, <2>2, <2>3, <2>4
<1>19. ASSUME NEW f \in Frames, SeqEarly(f) PROVE TxnInv'
  <2>1. PICK c, t, u : c = ChanOf(f) /\ t = txn[c] /\ u = Stored(t, SeqNum(f), f)
    OBVIOUS
  <2>2. /\ c \in Channels /\ t \in Txn /\ t # None
        /\ f[2] \in 1..MaxSeq /\ SeqNum(f) = f[2] - 1 /\ SeqNum(f) > t.next
        /\ UNCHANGED <<chan, cur, abandoned>>
        /\ pc[f] = "ready" /\ pc' = [pc EXCEPT ![f] = "done"]
    BY <1>19, <2>1, FoundTxn, CtapHidAssumption DEF SeqEarly, Continuing, Becomes, SeqNum
  <2>3. txn' = [txn EXCEPT ![c] = u]
    BY <1>19, <2>1 DEF SeqEarly
  <2>4. /\ u \in Txn /\ u.msg = t.msg /\ u.next = t.next
        /\ \A s \in 0..(MaxSeq - 1) : u.seg[s] = IF s = f[2] - 1 THEN f ELSE t.seg[s]
    <3>1. f[2] - 1 \in 0..(MaxSeq - 1)
      BY <2>2, CtapHidAssumption
    <3>2. QED
      BY <2>1, <2>2, <3>1, StoreFacts
  <2>5. Forward
    BY <2>2 DEF Settled, TypeOK
  <2>6. ASSUME Clean(c) PROVE Assembling(c, u)'
    <3>1. t.msg = f[1] /\ Assembling(c, t)
      BY <2>1, <2>2, <2>6, OwnTxn
    <3>2. Assembling(c, t)'
      BY <1>1, <2>2, <2>5, <3>1
    <3>3. pc'[f] = "done"
      BY <2>2 DEF TypeOK
    <3>4. \A s \in 0..(u.next - 1) : u.seg[s] # None
      <4>1. t.next \in 0..MaxSeq
        BY <2>2 DEF Txn
      <4>2. \A s \in 0..(t.next - 1) : s \in 0..(MaxSeq - 1) /\ t.seg[s] # None
        BY <3>1, <4>1, CtapHidAssumption DEF Assembling
      <4>3. QED
        BY <2>4, <4>2
    <3>5. \A s \in 0..(MaxSeq - 1) : u.seg[s] # None =>
             /\ s < Segs[u.msg] /\ u.seg[s] = <<u.msg, s + 1>>
             /\ pc'[<<u.msg, s + 1>>] \notin {"unsent", "ready"}
      BY <2>2, <2>4, <3>1, <3>2, <3>3, CtapHidAssumption DEF Assembling
    <3>6. QED
      BY <2>4, <3>2, <3>4, <3>5 DEF Assembling
  <2>7. QED
    BY <1>17, <2>2, <2>3, <2>4, <2>5, <2>6
<1>20. ASSUME NEW f \in Frames, SeqAppend(f) \/ SeqRun(f) PROVE TxnInv'
  <2>1. PICK c, t : c = ChanOf(f) /\ t = txn[c]
    OBVIOUS
  <2>2. /\ c \in Channels /\ t \in Txn /\ t # None
        /\ f[2] \in 1..MaxSeq /\ t.next = f[2] - 1
        /\ UNCHANGED <<chan, cur, abandoned>> /\ pc[f] = "ready"
    BY <1>20, <2>1, FoundTxn, CtapHidAssumption DEF SeqAppend, SeqRun, Continuing, SeqNum
  <2>3. PICK n \in (t.next + 1)..MaxSeq :
           Drains(t, n) /\ txn' = [txn EXCEPT ![c] = Appended(t, f, n)]
    BY <1>20, <2>1 DEF SeqAppend, SeqRun
  <2>4. PICK state \in {"done", "running"} : pc' = [pc EXCEPT ![f] = state]
    BY <1>20 DEF SeqAppend, SeqRun, Becomes
  <2>5. PICK u : u = Appended(t, f, n)
    OBVIOUS
  <2>6. /\ u \in Txn /\ u.msg = t.msg /\ u.next = n
        /\ \A s \in 0..(MaxSeq - 1) : u.seg[s] = IF s = t.next THEN f ELSE t.seg[s]
    <3>1. t.next \in 0..MaxSeq /\ n \in 0..MaxSeq /\ n > t.next
      BY <2>2, <2>3, CtapHidAssumption DEF Txn
    <3>2. QED
      BY <2>2, <2>5, <3>1, AppendFacts
  <2>7. Forward
    BY <2>2, <2>4 DEF Settled, TypeOK
  <2>8. ASSUME Clean(c) PROVE Assembling(c, u)'
    <3>1. t.msg = f[1] /\ Assembling(c, t)
      BY <2>1, <2>2, <2>8, OwnTxn
    <3>2. Assembling(c, t)'
      BY <1>1, <2>2, <2>7, <3>1
    <3>3. pc'[f] \notin {"unsent", "ready"}
      BY <2>4 DEF TypeOK
    <3>4. \A s \in 0..(n - 1) : u.seg[s] # None
      BY <2>2, <2>3, <2>6, <3>1, CtapHidAssumption DEF Assembling, Drains
    <3>5. \A s \in 0..(MaxSeq - 1) : u.seg[s] # None =>
             /\ s < Segs[u.msg] /\ u.seg[s] = <<u.msg, s + 1>>
             /\ pc'[<<u.msg, s + 1>>] \notin {"unsent", "ready"}
      BY <2>2, <2>6, <3>1, <3>2, <3>3, CtapHidAssumption DEF Assembling
    <3>6. QED
      BY <2>6, <3>2, <3>4, <3>5 DEF Assembling
  <2>9. QED
    BY <1>17, <2>2, <2>3, <2>5, <2>6, <2>7, <2>8
<1>21. QED
  BY <1>4, <1>5, <1>6, <1>7, <1>8, <1>9, <1>10, <1>11, <1>13, <1>14, <1>15, <1>16, <1>18,
     <1>19, <1>20
  DEF Next, HostNext, DeviceNext, CborStep, SeqStep

\* What is executed is whole, and of one message.
LEMMA WorkStep == ASSUME IInv, LockInv', TxnInv', Next PROVE WorkInv'
<1> USE FrameFacts DEF IInv, hostVars, devVars, workerVars
<1>1. ASSUME work' = work,
             \A f \in Frames : /\ pc'[f] = "running" => pc[f] = "running"
                               /\ pc[f] \in Settled => pc'[f] \in Settled
                               /\ pc[f] # "unsent" /\ Clean(ChanOf(f))' => Clean(ChanOf(f))
      PROVE  WorkInv'
  BY <1>1 DEF WorkInv, OthersSettled, Whole
<1>2. ASSUME UNCHANGED <<chan, abandoned, work>>,
             \A f \in Frames : /\ pc'[f] = "running" => pc[f] = "running"
                               /\ pc[f] \in Settled => pc'[f] \in Settled
      PROVE  WorkInv'
  BY <1>1, <1>2, CleanSame
<1>3. CASE \E cl \in Clients : HostInit(cl) \/ InitReply(cl)
  BY <1>2, <1>3 DEF HostInit, InitReply
<1>4. CASE \E x \in Controls : HostControl(x) \/ ControlAck(x) \/ MsgReply(x) \/ ControlIgnore(x)
  BY <1>2, <1>4 DEF HostControl, ControlAck, MsgReply, ControlIgnore
<1>5. CASE WorkerLoop \/ WorkerPut \/ Deliver
  BY <1>2, <1>5 DEF WorkerLoop, WorkerPut, Deliver
<1>6. CASE \E cl \in Clients, m \in Messages : HostStart(cl, m)
  BY <1>2, <1>6 DEF HostStart, Settled, TypeOK
<1>7. CASE \E cl \in Clients, i \in 1..MaxSeq : HostContinue(cl, i)
  BY <1>2, <1>7 DEF HostContinue, Settled, TypeOK
<1>8. ASSUME NEW m \in Messages, CborIgnored(m) \/ CborWait(m) \/ CborUnknown(m) PROVE WorkInv'
  BY <1>2, <1>8 DEF CborIgnored, CborWait, CborUnknown, Starting, Becomes, Settled, TypeOK
<1>9. ASSUME NEW f \in Frames, SeqDropped(f) \/ SeqOld(f) \/ SeqEarly(f) \/ SeqAppend(f)
      PROVE  WorkInv'
  BY <1>2, <1>9
  DEF SeqDropped, SeqOld, SeqEarly, SeqAppend, Continuing, Becomes, Settled, TypeOK
<1>10. ASSUME NEW f \in Frames, SendSegment(f) PROVE WorkInv'
  BY <1>2, <1>10 DEF SendSegment, Becomes, Settled, TypeOK
<1>11. ASSUME NEW f \in Frames, RunStep(f) PROVE WorkInv'
  <2>1. CASE GatherStart(f) \/ GatherEnd(f)
    BY <1>2, <2>1 DEF GatherStart, GatherEnd
  <2>2. ASSUME Running(f), NEW state, state # "running", Becomes(f, state) PROVE WorkInv'
    BY <2>2 DEF Running, Becomes, LockInv, WorkInv, TypeOK
  <2>3. CASE RunOrphan(f) \/ RunRaise(f)
    BY <2>2, <2>3 DEF RunOrphan, RunRaise
  <2>4. ASSUME NEW n \in 1..RspMax, RunFirst(f, n) \/ RunLast(f, n) PROVE WorkInv'
    BY <2>2, <2>4 DEF RunFirst, RunLast
  <2>5. QED
    BY <1>11, <2>1, <2>3, <2>4 DEF RunStep
<1>12. ASSUME NEW cl \in Clients, HostReuse(cl) \/ InitDraw(cl) PROVE WorkInv'
  <2>1. /\ open[cl] \in {"idle", "sent"} /\ UNCHANGED <<abandoned, pc, work>>
        /\ \E c \in Channels : chan' = [chan EXCEPT ![cl] = c]
    BY <1>12 DEF HostReuse, InitDraw
  <2>2. \A f \in Frames : pc[f] # "unsent" /\ Clean(ChanOf(f))' => Clean(ChanOf(f))
    <3>1. ASSUME NEW f \in Frames, pc[f] # "unsent", Clean(ChanOf(f))' PROVE Clean(ChanOf(f))
      <4>1. ChanOf(f) \in Channels /\ ChanOf(f)' = ChanOf(f)
        BY <2>1, <3>1, NewChannel
      <4>2. PICK c \in Channels : c = ChanOf(f)
        BY <4>1
      <4>3. Clean(c)'
        BY <3>1, <4>1, <4>2 DEF Clean
      <4>4. QED
        BY <2>1, <4>2, <4>3, NewChannel
    <3>2. QED
      BY <3>1
  <2>3. QED
    BY <1>1, <2>1, <2>2
<1>13. ASSUME NEW cl \in Clients, HostAbandon(cl) PROVE WorkInv'
  <2>1. UNCHANGED <<pc, work, chan>> /\ abandoned \subseteq abandoned'
    BY <1>13 DEF HostAbandon
  <2>2. \A f \in Frames : Clean(ChanOf(f))' => Clean(ChanOf(f))
    BY <2>1 DEF Clean, ChanOf
  <2>3. QED
    BY <1>1, <2>1, <2>2
<1>14. ASSUME NEW m \in Messages, CborRun(m) PROVE WorkInv'
  <2>1. Segs[m] = 0
    <3>1. Length[m] \in Nat /\ Segs[m] \in Nat /\ Length[m] < FirstPayload
      BY <1>14, CtapHidAssumption DEF CborRun, Segmented
    <3>2. Complete(m, 0)
      BY <3>1, CtapHidAssumption DEF Complete
    <3>3. QED
      BY <3>1, <3>2, CtapHidAssumption
  <2>2. /\ work' = NewTxn(m) /\ work'.msg = m /\ work'.next = 0
        /\ \A g \in Frames : pc'[g] = "running" => g = <<m, 0>>
    BY <1>14 DEF CborRun, Starting, Becomes, LockInv, NewTxn, TypeOK
  <2>3. QED
    BY <2>1, <2>2 DEF WorkInv, Whole, OthersSettled
<1>15. ASSUME NEW f \in Frames, SeqRun(f) PROVE WorkInv'
  <2>1. PICK c, t : c = ChanOf(f) /\ t = txn[c]
    OBVIOUS
  <2>2. /\ c \in Channels /\ t \in Txn /\ t # None /\ t.next = f[2] - 1 /\ lock = None
        /\ pc[f] = "ready" /\ pc' = [pc EXCEPT ![f] = "running"]
        /\ UNCHANGED <<chan, abandoned>>
    BY <1>15, <2>1, FoundTxn DEF SeqRun, Continuing, SeqNum, Becomes
  <2>3. PICK n \in (t.next + 1)..MaxSeq :
           /\ Complete(t.msg, n) /\ work' = Appended(t, f, n)
           /\ txn' = [txn EXCEPT ![c] = Appended(t, f, n)]
    BY <1>15, <2>1 DEF SeqRun
  <2>4. /\ n \in 0..MaxSeq /\ n > t.next /\ t.next \in 0..MaxSeq /\ t.msg \in Messages
        /\ work' \in Txn /\ work'.msg = t.msg /\ work'.next = n /\ txn'[c] = work'
        /\ \A i \in 0..(MaxSeq - 1) : work'.seg[i] = IF i = t.next THEN f ELSE t.seg[i]
    <3>1. n \in 0..MaxSeq /\ n > t.next /\ t.next \in 0..MaxSeq /\ t.msg \in Messages
      BY <2>2, <2>3, CtapHidAssumption DEF Txn
    <3>2. QED
      BY <2>2, <2>3, <3>1, AppendFacts DEF TypeOK
  <2>5. ASSUME Clean(c)
        PROVE  /\ t.msg = f[1] /\ n = Segs[f[1]]
               /\ \A s \in 0..(n - 1) : work'.seg[s] = <<f[1], s + 1>>
    <3>1. t.msg = f[1]
      BY <2>1, <2>2, <2>5, OwnTxn
    <3>2. work' # None /\ (Assembling(c, txn[c]))'
      BY <2>1, <2>2, <2>4, <2>5, CleanSame, NoneFacts DEF TxnInv
    <3>3. /\ \A s \in 0..(n - 1) : work'.seg[s] # None
          /\ \A s \in 0..(MaxSeq - 1) : work'.seg[s] # None =>
                s < Segs[f[1]] /\ work'.seg[s] = <<f[1], s + 1>>
      BY <2>4, <3>1, <3>2 DEF Assembling
    <3>4. n - 1 < Segs[f[1]] /\ Segs[f[1]] \in Nat
      BY <2>4, <3>3, CtapHidAssumption
    <3>5. n >= Segs[f[1]]
      BY <2>3, <2>4, <3>1, <3>4, CtapHidAssumption
    <3>6. QED
      BY <2>4, <3>1, <3>3, <3>4, <3>5, CtapHidAssumption
  <2>6. ASSUME Clean(c), NEW g \in Frames, g[1] = f[1], g # f PROVE pc[g] \in Settled
    <3>1. t.msg = f[1] /\ Assembling(c, t)
      BY <2>1, <2>2, <2>6, OwnTxn
    <3>2. CASE g[2] = 0
      BY <2>6, <3>1, <3>2 DEF Assembling
    <3>3. CASE g[2] > 0
      <4>1. PICK s : s = g[2] - 1
        OBVIOUS
      <4>2. s \in 0..(n - 1) /\ s \in 0..(MaxSeq - 1) /\ s # t.next
        BY <2>2, <2>4, <2>5, <2>6, <3>3, <4>1, CtapHidAssumption
      <4>3. work'.seg[s] = t.seg[s] /\ work'.seg[s] = <<f[1], s + 1>>
        BY <2>4, <2>5, <2>6, <4>2
      <4>4. t.seg[s] # None
        BY <2>6, <3>3, <4>1, <4>2, <4>3
      <4>5. g = <<t.msg, s + 1>>
        BY <2>6, <3>1, <4>1
      <4>6. pc[g] \notin {"unsent", "ready"}
        BY <3>1, <4>2, <4>4, <4>5 DEF Assembling
      <4>7. pc[g] # "running"
        BY <2>2 DEF LockInv
      <4>8. pc[g] # "replying"
        BY <2>1, <2>2, <2>6 DEF ReplyInv, ChanOf
      <4>9. QED
        BY <4>6, <4>7, <4>8 DEF TypeOK, PC, Settled
    <3>4. QED
      BY <3>2, <3>3
  <2>7. ASSUME NEW g \in Frames, pc'[g] = "running" PROVE g = f
    BY <2>2, <2>7 DEF LockInv, TypeOK
  <2>8. ASSUME Clean(c) PROVE Whole(f, work)' /\ OthersSettled(f)'
    BY <2>2, <2>4, <2>5, <2>6, <2>8 DEF Whole, OthersSettled, TypeOK
  <2>9. QED
    BY <2>1, <2>2, <2>7, <2>8, CleanSame DEF WorkInv
<1>16. QED
  BY <1>3, <1>4, <1>5, <1>6, <1>7, <1>8, <1>9, <1>10, <1>11, <1>12, <1>13, <1>14, <1>15
  DEF Next, HostNext, DeviceNext, CborStep, SeqStep

\* The thread that answers is the last of its message.
LEMMA ReplyStep == ASSUME IInv, LockInv', Next PROVE ReplyInv'
<1> USE FrameFacts DEF IInv, hostVars, devVars, workerVars
<1> DEFINE SameAnswers == \A f \in Frames :
              /\ pc'[f] = "replying" => pc[f] = "replying" /\ reply'[f] = reply[f]
              /\ pc[f] \in Settled => pc'[f] \in Settled
           NoNewRsp == \A k \in 1..Len(pending') : pending'[k].kind = "rsp" =>
              \E j \in 1..Len(pending) : pending[j] = pending'[k]
<1>1. ASSUME SameAnswers, NoNewRsp,
             \A f \in Frames : pc[f] = "replying" /\ Clean(ChanOf(f))' =>
                /\ ChanOf(f)' = ChanOf(f) /\ Clean(ChanOf(f))
                /\ txn'[ChanOf(f)] \in {txn[ChanOf(f)], None}
      PROVE  ReplyInv'
  <2>1. ASSUME NEW f \in Frames, pc'[f] = "replying", Clean(ChanOf(f))'
        PROVE  /\ reply'[f].msg = f[1] /\ OthersSettled(f)' /\ txn'[ChanOf(f)'] = None
               /\ \A k \in 1..Len(pending') :
                     pending'[k].kind = "rsp" /\ pending'[k].cid = ChanOf(f)' =>
                        pending'[k].idx < reply'[f].idx
    <3>1. /\ pc[f] = "replying" /\ ChanOf(f)' = ChanOf(f) /\ Clean(ChanOf(f))
          /\ reply'[f] = reply[f] /\ txn'[ChanOf(f)] \in {txn[ChanOf(f)], None}
      BY <1>1, <2>1
    <3>2. OthersSettled(f)'
      BY <1>1, <3>1 DEF ReplyInv, OthersSettled
    <3>3. QED
      BY <1>1, <3>1, <3>2 DEF ReplyInv
  <2>2. QED
    BY <2>1 DEF ReplyInv
<1>2. ASSUME UNCHANGED <<chan, abandoned, pending>>, SameAnswers,
             \A c \in Channels : txn'[c] \in {txn[c], None}
      PROVE  ReplyInv'
  BY <1>1, <1>2, CleanSame, Placed
<1>3. CASE \E cl \in Clients : HostInit(cl)
  BY <1>2, <1>3 DEF HostInit
<1>4. CASE \E x \in Controls : HostControl(x) \/ ControlIgnore(x)
  BY <1>2, <1>4 DEF HostControl, ControlIgnore
<1>5. CASE WorkerLoop
  BY <1>2, <1>5 DEF WorkerLoop
<1>6. CASE \E cl \in Clients, m \in Messages : HostStart(cl, m)
  BY <1>2, <1>6 DEF HostStart, Settled, TypeOK
<1>7. CASE \E cl \in Clients, i \in 1..MaxSeq : HostContinue(cl, i)
  BY <1>2, <1>7 DEF HostContinue, Settled, TypeOK
<1>8. ASSUME NEW m \in Messages, CborIgnored(m) \/ CborUnknown(m) \/ CborRun(m) PROVE ReplyInv'
  BY <1>2, <1>8 DEF CborIgnored, CborUnknown, CborRun, Starting, Becomes, Settled, TypeOK
<1>9. ASSUME NEW f \in Frames, SeqDropped(f) \/ SeqOld(f) PROVE ReplyInv'
  BY <1>2, <1>9 DEF SeqDropped, SeqOld, Continuing, Becomes, Settled, TypeOK
<1>10. ASSUME NEW f \in Frames, GatherStart(f) \/ GatherEnd(f) PROVE ReplyInv'
  BY <1>2, <1>10 DEF GatherStart, GatherEnd
<1>11. ASSUME NEW f \in Frames, RunOrphan(f) \/ RunRaise(f) PROVE ReplyInv'
  BY <1>2, <1>11 DEF RunOrphan, RunRaise, Running, Becomes, Settled, TypeOK
<1>12. ASSUME NEW f \in Frames, pc[f] = "ready", NEW state \in {"done", "running"},
              Becomes(f, state), UNCHANGED <<chan, abandoned, reply, pending>>,
              NEW t, txn' = [txn EXCEPT ![ChanOf(f)] = t]
       PROVE  ReplyInv'
  <2>1. SameAnswers /\ NoNewRsp
    BY <1>12 DEF Becomes, Settled, TypeOK
  <2>2. ASSUME NEW g \in Frames, pc[g] = "replying", Clean(ChanOf(g))
        PROVE  txn'[ChanOf(g)] = txn[ChanOf(g)]
    <3>1. ChanOf(g) # ChanOf(f)
      <4>1. SUFFICES ASSUME ChanOf(g) = ChanOf(f) PROVE FALSE
        OBVIOUS
      <4>2. g[1] = f[1] /\ g # f
        BY <1>12, <2>2, <4>1, Alone
      <4>3. QED
        BY <1>12, <2>2, <4>2 DEF ReplyInv, OthersSettled, Settled
    <3>2. ChanOf(g) \in Channels
      BY <2>2, Placed
    <3>3. QED
      BY <1>12, <3>1, <3>2 DEF TypeOK
  <2>3. QED
    BY <1>1, <1>12, <2>1, <2>2, CleanSame
<1>13. ASSUME NEW m \in Messages, CborWait(m) PROVE ReplyInv'
  BY <1>12, <1>13 DEF CborWait, Starting
<1>14. ASSUME NEW f \in Frames, SeqEarly(f) PROVE ReplyInv'
  BY <1>12, <1>14 DEF SeqEarly, Continuing
<1>15. ASSUME NEW f \in Frames, SeqAppend(f) \/ SeqRun(f) PROVE ReplyInv'
  <2>1. PICK n \in (txn[ChanOf(f)].next + 1)..MaxSeq :
           txn' = [txn EXCEPT ![ChanOf(f)] = Appended(txn[ChanOf(f)], f, n)]
    BY <1>15 DEF SeqAppend, SeqRun
  <2>2. QED
    BY <1>12, <1>15, <2>1 DEF SeqAppend, SeqRun, Continuing
<1>16. ASSUME NEW cl \in Clients, HostReuse(cl) \/ InitDraw(cl) PROVE ReplyInv'
  <2>1. /\ open[cl] \in {"idle", "sent"} /\ UNCHANGED <<abandoned, pc, reply, pending>>
        /\ \E c \in Channels : chan' = [chan EXCEPT ![cl] = c]
        /\ \A c \in Channels : txn'[c] \in {txn[c], None}
    BY <1>16 DEF HostReuse, InitDraw, TypeOK
  <2>2. ASSUME NEW f \in Frames, pc[f] = "replying", Clean(ChanOf(f))'
        PROVE  ChanOf(f) \in Channels /\ ChanOf(f)' = ChanOf(f) /\ Clean(ChanOf(f))
    <3>1. ChanOf(f) \in Channels /\ ChanOf(f)' = ChanOf(f)
      BY <2>1, <2>2, NewChannel
    <3>2. PICK c \in Channels : c = ChanOf(f)
      BY <3>1
    <3>3. Clean(c)'
      BY <2>2, <3>1, <3>2 DEF Clean
    <3>4. QED
      BY <2>1, <3>1, <3>2, <3>3, NewChannel
  <2>3. QED
    BY <1>1, <2>1, <2>2
<1>17. ASSUME NEW cl \in Clients, HostAbandon(cl) PROVE ReplyInv'
  <2>1. UNCHANGED <<pc, chan, txn, reply, pending>> /\ abandoned \subseteq abandoned'
    BY <1>17 DEF HostAbandon
  <2>2. \A f \in Frames : ChanOf(f)' = ChanOf(f) /\ (Clean(ChanOf(f))' => Clean(ChanOf(f)))
    BY <2>1 DEF Clean, ChanOf
  <2>3. QED
    BY <1>1, <2>1, <2>2
<1>18. CASE Deliver
  <2>1. UNCHANGED <<chan, abandoned, pc, reply, txn>>
    BY <1>18 DEF Deliver
  <2>2. \A k \in 1..Len(pending') : k + 1 \in 1..Len(pending) /\ pending'[k] = pending[k + 1]
    BY <1>18, GetFacts DEF Deliver, TypeOK
  <2>3. QED
    BY <1>1, <2>1, <2>2, CleanSame
<1>19. ASSUME NEW o \in Out, o.kind # "rsp", pending' = Append(pending, o),
              UNCHANGED <<chan, abandoned, pc, reply, txn>>
       PROVE  ReplyInv'
  <2>1. NoNewRsp
    BY <1>19, PutFacts DEF TypeOK
  <2>2. QED
    BY <1>1, <1>19, <2>1, CleanSame
<1>20. ASSUME NEW cl \in Clients, InitReply(cl) PROVE ReplyInv'
  BY <1>19, <1>20 DEF InitReply, Out
<1>21. ASSUME NEW x \in Controls, ControlAck(x) \/ MsgReply(x) PROVE ReplyInv'
  <2>1. chan[ClientOf[x]] \in Channels \cup {None}
    BY CtapHidAssumption DEF TypeOK
  <2>2. QED
    BY <1>19, <1>21, <2>1 DEF ControlAck, MsgReply, Out
<1>22. CASE WorkerPut
  <2>1. lock \in Frames /\ ChanOf(lock) \in Channels
    BY <1>22, Placed DEF WorkerPut, LockInv, TypeOK
  <2>2. QED
    BY <1>19, <1>22, <2>1 DEF WorkerPut, Out
<1>23. ASSUME NEW f \in Frames, NEW n \in 1..RspMax, RunFirst(f, n) \/ RunLast(f, n)
       PROVE  ReplyInv'
  <2>1. /\ pc[f] = "running" /\ pc' = [pc EXCEPT ![f] = "replying"]
        /\ reply' = [reply EXCEPT ![f] = [msg |-> work.msg, idx |-> 0, n |-> n]]
        /\ UNCHANGED <<chan, abandoned, pending>>
        /\ \A c \in Channels : txn'[c] \in {txn[c], None}
    BY <1>23 DEF RunFirst, RunLast, Running, Becomes, LeaveRun, TypeOK
  <2>2. ASSUME NEW g \in Frames, g # f, pc[g] = "replying", Clean(ChanOf(g))
        PROVE  /\ reply'[g].msg = g[1] /\ OthersSettled(g)' /\ txn'[ChanOf(g)] = None
               /\ \A k \in 1..Len(pending) :
                     pending[k].kind = "rsp" /\ pending[k].cid = ChanOf(g) =>
                        pending[k].idx < reply'[g].idx
    <3>1. reply'[g] = reply[g]
      BY <2>1, <2>2 DEF TypeOK
    <3>2. f[1] # g[1]
      BY <2>1, <2>2 DEF ReplyInv, OthersSettled, Settled
    <3>3. QED
      BY <2>1, <2>2, <3>1, <3>2, Placed DEF ReplyInv, OthersSettled, TypeOK
  <2>3. ASSUME Clean(ChanOf(f))
        PROVE  /\ reply'[f].msg = f[1] /\ OthersSettled(f)' /\ txn'[ChanOf(f)] = None
               /\ \A k \in 1..Len(pending) :
                     ~(pending[k].kind = "rsp" /\ pending[k].cid = ChanOf(f))
    <3>1. ChanOf(f) \in Channels
      BY <2>1, Placed
    <3>2. reply'[f].msg = f[1] /\ OthersSettled(f)
      BY <2>1, <2>3 DEF WorkInv, Whole, TypeOK
    <3>3. OthersSettled(f)'
      BY <2>1, <3>2 DEF OthersSettled, TypeOK
    <3>4. txn'[ChanOf(f)] = None
      <4>1. CASE RunLast(f, n)
        BY <3>1, <4>1 DEF RunLast, TypeOK
      <4>2. CASE RunFirst(f, n)
        <5>1. f = <<f[1], 0>>
          BY <4>2 DEF RunFirst
        <5>2. txn[ChanOf(f)] = None
          BY <2>1, <2>3, <3>1, <5>1, OwnTxn DEF Assembling, Settled
        <5>3. QED
          BY <2>1, <3>1, <5>2
      <4>3. QED
        BY <1>23, <4>1, <4>2
    <3>5. \A k \in 1..Len(pending) : ~(pending[k].kind = "rsp" /\ pending[k].cid = ChanOf(f))
      BY <2>1, <2>3, OwnAnswer
    <3>6. QED
      BY <3>2, <3>3, <3>4, <3>5
  <2>4. \A g \in Frames : pc'[g] = "replying" => g = f \/ pc[g] = "replying"
    BY <2>1 DEF TypeOK
  <2>5. QED
    BY <2>1, <2>2, <2>3, <2>4, CleanSame DEF ReplyInv
<1>24. ASSUME NEW f \in Frames, SendSegment(f) PROVE ReplyInv'
  <2> DEFINE r == reply[f]
             o == [kind |-> "rsp", cid |-> ChanOf(f), src |-> r.msg,
                   idx |-> r.idx, last |-> r.idx + 1 = r.n]
  <2>1. /\ pc[f] = "replying" /\ r \in Reply /\ r.idx \in Nat /\ o \in Out
        /\ pending' = Append(pending, o) /\ UNCHANGED <<chan, abandoned, txn>>
    BY <1>24, Placed DEF SendSegment, LockInv, TypeOK, Reply, Out
  <2>2. /\ \A g \in Frames : g # f => pc'[g] = pc[g] /\ reply'[g] = reply[g]
        /\ pc'[f] \in {"done", "replying"}
        /\ pc'[f] = "replying" => reply'[f] = [r EXCEPT !.idx = @ + 1]
    BY <1>24, <2>1 DEF SendSegment, Becomes, TypeOK
  <2>3. pc'[f] = "replying" => reply'[f].msg = r.msg /\ reply'[f].idx = r.idx + 1
    BY <2>1, <2>2 DEF Reply
  <2>4. \A k \in 1..Len(pending') :
           pending'[k] = o \/ \E j \in 1..Len(pending) : pending'[k] = pending[j]
    BY <2>1, PutFacts DEF TypeOK
  <2>5. ASSUME NEW g \in Frames, g # f, pc[g] = "replying", Clean(ChanOf(g))
        PROVE  /\ reply'[g].msg = g[1] /\ OthersSettled(g)' /\ txn'[ChanOf(g)] = None
               /\ \A k \in 1..Len(pending') :
                     pending'[k].kind = "rsp" /\ pending'[k].cid = ChanOf(g) =>
                        pending'[k].idx < reply'[g].idx
    <3>1. f[1] # g[1]
      BY <2>1, <2>5 DEF ReplyInv, OthersSettled, Settled
    <3>2. ChanOf(f) # ChanOf(g)
      BY <2>1, <2>5, <3>1, Alone
    <3>3. OthersSettled(g)'
      BY <2>1, <2>2, <2>5, <3>1 DEF ReplyInv, OthersSettled
    <3>4. QED
      BY <2>1, <2>2, <2>4, <2>5, <3>2, <3>3 DEF ReplyInv
  <2>6. ASSUME pc'[f] = "replying", Clean(ChanOf(f))
        PROVE  /\ reply'[f].msg = f[1] /\ OthersSettled(f)' /\ txn'[ChanOf(f)] = None
               /\ \A k \in 1..Len(pending') :
                     pending'[k].kind = "rsp" /\ pending'[k].cid = ChanOf(f) =>
                        pending'[k].idx < reply'[f].idx
    <3>1. OthersSettled(f)'
      BY <2>1, <2>2, <2>6 DEF ReplyInv, OthersSettled
    <3>2. \A k \in 1..Len(pending) : pending[k].idx \in Nat
      <4>1. \A k \in 1..Len(pending) : pending[k] \in Out
        BY DEF TypeOK
      <4>2. QED
        BY <4>1 DEF Out
    <3>3. \A k \in 1..Len(pending') :
             pending'[k].kind = "rsp" /\ pending'[k].cid = ChanOf(f) =>
                pending'[k].idx < r.idx + 1
      BY <2>1, <2>4, <2>6, <3>2 DEF ReplyInv
    <3>4. QED
      BY <2>1, <2>3, <2>6, <3>1, <3>3 DEF ReplyInv
  <2>7. QED
    BY <2>1, <2>2, <2>5, <2>6, CleanSame DEF ReplyInv
<1>25. QED
  BY <1>3, <1>4, <1>5, <1>6, <1>7, <1>8, <1>9, <1>10, <1>11, <1>13, <1>14, <1>15, <1>16, <1>17,
     <1>18, <1>20, <1>21, <1>22, <1>23, <1>24
  DEF Next, HostNext, DeviceNext, CborStep, SeqStep, RunStep

\* What is queued behind a response frame continues it.
LEMMA PendStep == ASSUME IInv, Next PROVE PendInv'
<1> USE FrameFacts DEF IInv, hostVars, devVars, workerVars
<1>1. \A k \in 1..Len(pending) :
         pending[k] \in Out /\ (pending[k].kind = "rsp" => pending[k].cid \in Channels)
  <2>1. \A k \in 1..Len(pending) : pending[k] \in Out
    BY DEF TypeOK
  <2>2. QED
    BY <2>1 DEF Out, SentInv
<1> DEFINE Kept == \A o \in Out : o.cid \in Channels /\ Clean(o.cid)' =>
                      Clean(o.cid) /\ (Awaited(o) => Awaited(o)')
<1>2. ASSUME Kept, UNCHANGED pending PROVE PendInv'
  <2>1. ASSUME NEW k \in 1..Len(pending), pending[k].kind = "rsp", Clean(pending[k].cid)'
        PROVE  Awaited(pending[k])'
               /\ \A j \in (k + 1)..Len(pending) : Follows(pending[k], pending[j])
    <3>1. PICK o \in Out : o = pending[k] /\ o.cid \in Channels
      BY <1>1, <2>1
    <3>2. Clean(o.cid)' /\ (Awaited(o)' => Awaited(pending[k])')
      BY <1>2, <2>1, <3>1 DEF Clean, Awaited
    <3>3. Clean(o.cid) /\ (Awaited(o) => Awaited(o)')
      BY <1>2, <3>1, <3>2
    <3>4. QED
      BY <2>1, <3>1, <3>2, <3>3 DEF PendInv
  <2>2. QED
    BY <1>2, <2>1 DEF PendInv, Follows
<1>3. ASSUME UNCHANGED <<chan, cur, abandoned>>,
             \A c \in Channels : txn'[c] \in {txn[c], None},
             \A f \in Frames : pc'[f] = pc[f] \/ (pc[f] = "unsent" /\ cur[ClientOf[f[1]]] = f[1])
      PROVE  Kept
  BY <1>3, CleanSame DEF Awaited, Settled
<1>4. ASSUME NEW f \in Frames, pc[f] \in {"ready", "running"}, NEW state, Becomes(f, state),
             UNCHANGED <<chan, cur, abandoned>>,
             \A c \in Channels : c # ChanOf(f) => txn'[c] \in {txn[c], None}
      PROVE  Kept
  <2>1. ASSUME NEW o \in Out, o.cid \in Channels, Clean(o.cid), Awaited(o) PROVE Awaited(o)'
    <3>1. o.src # f[1] /\ o.cid # ChanOf(f)
      BY <1>4, <2>1, CtapHidAssumption DEF Awaited, Settled, BusyInv, Clean, ChanOf
    <3>2. \A g \in Frames : g[1] = o.src => pc'[g] = pc[g]
      BY <1>4, <3>1 DEF Becomes, TypeOK
    <3>3. txn'[o.cid] = None
      BY <1>4, <2>1, <3>1 DEF Awaited
    <3>4. QED
      BY <1>4, <2>1, <3>2, <3>3 DEF Awaited
  <2>2. QED
    BY <1>4, <2>1, CleanSame
<1>5. CASE \E cl \in Clients : HostInit(cl)
  BY <1>2, <1>3, <1>5 DEF HostInit
<1>6. CASE \E x \in Controls : HostControl(x) \/ ControlIgnore(x)
  BY <1>2, <1>3, <1>6 DEF HostControl, ControlIgnore
<1>7. CASE WorkerLoop
  BY <1>2, <1>3, <1>7 DEF WorkerLoop
<1>8. ASSUME NEW f \in Frames, GatherStart(f) \/ GatherEnd(f) PROVE PendInv'
  BY <1>2, <1>3, <1>8 DEF GatherStart, GatherEnd
<1>9. ASSUME NEW cl \in Clients, NEW i \in 1..MaxSeq, HostContinue(cl, i) PROVE PendInv'
  <2>1. Kept
    <3>1. ASSUME NEW o \in Out, Awaited(o) PROVE o.src # cur[cl]
      <4>1. <<cur[cl], i>> \in Frames /\ pc[<<cur[cl], i>>] = "unsent"
        BY <1>9 DEF HostContinue, TypeOK
      <4>2. QED
        BY <3>1, <4>1 DEF Awaited, Settled
    <3>2. \A f \in Frames : f[1] # cur[cl] => pc'[f] = pc[f]
      BY <1>9 DEF HostContinue, TypeOK
    <3>3. UNCHANGED <<chan, cur, abandoned, txn>>
      BY <1>9 DEF HostContinue
    <3>4. QED
      BY <3>1, <3>2, <3>3, CleanSame DEF Awaited
  <2>2. QED
    BY <1>2, <1>9, <2>1 DEF HostContinue
<1>10. ASSUME NEW cl \in Clients, NEW m \in Messages, HostStart(cl, m) PROVE PendInv'
  <2>1. /\ cur[cl] = None /\ ClientOf[m] = cl /\ UNCHANGED <<chan, abandoned, txn, pending>>
        /\ \A k \in Clients : k # cl => cur'[k] = cur[k]
        /\ \A g \in Frames : g[1] # m => pc'[g] = pc[g]
    BY <1>10 DEF HostStart, TypeOK
  <2>2. ASSUME NEW o \in Out, Awaited(o) PROVE ClientOf[o.src] # cl /\ o.src # m
    BY <2>1, <2>2, NoneFacts DEF Awaited
  <2>3. Kept
    BY <2>1, <2>2, CleanSame, CtapHidAssumption DEF Awaited
  <2>4. QED
    BY <1>2, <2>1, <2>3
<1>11. ASSUME NEW cl \in Clients, HostAbandon(cl) PROVE PendInv'
  <2>1. /\ \A c : Clean(c)' => Clean(c) /\ c # chan[cl]
        /\ UNCHANGED <<pc, txn, chan, pending>> /\ \A k \in Clients : k # cl => cur'[k] = cur[k]
    BY <1>11, Abandoning DEF HostAbandon, TypeOK
  <2>2. ASSUME NEW o \in Out, o.cid # chan[cl], Awaited(o) PROVE ClientOf[o.src] # cl
    BY <2>2 DEF Awaited
  <2>3. Kept
    BY <2>1, <2>2, CtapHidAssumption DEF Awaited
  <2>4. QED
    BY <1>2, <2>1, <2>3
<1>12. ASSUME NEW cl \in Clients, HostReuse(cl) \/ InitDraw(cl) PROVE PendInv'
  <2>1. /\ open[cl] \in {"idle", "sent"} /\ UNCHANGED <<cur, abandoned, pc, pending>>
        /\ \E c \in Channels : chan' = [chan EXCEPT ![cl] = c]
        /\ \A c \in Channels : txn'[c] \in {txn[c], None}
    BY <1>12 DEF HostReuse, InitDraw, TypeOK
  <2>2. \A c \in Channels : Clean(c)' => Clean(c)
    BY <2>1, NewChannel
  <2>3. \A m \in Messages : chan[ClientOf[m]] # None => chan'[ClientOf[m]] = chan[ClientOf[m]]
    BY <2>1, NewChannel, CtapHidAssumption
  <2>4. Kept
    BY <2>1, <2>2, <2>3, NoneFacts DEF Awaited
  <2>5. QED
    BY <1>2, <2>1, <2>4
<1>13. ASSUME NEW m \in Messages, CborStep(m) PROVE PendInv'
  <2> DEFINE f == <<m, 0>>
  <2>1. /\ pc[f] = "ready" /\ UNCHANGED <<chan, cur, abandoned, pending>>
        /\ \E state : Becomes(f, state)
    BY <1>13 DEF CborStep, CborIgnored, CborWait, CborUnknown, CborRun, Starting
  <2>2. \A c \in Channels : c # ChanOf(f) => txn'[c] = txn[c]
    BY <1>13 DEF CborStep, CborIgnored, CborWait, CborUnknown, CborRun, TypeOK
  <2>3. QED
    BY <1>2, <1>4, <2>1, <2>2
<1>14. ASSUME NEW f \in Frames, SeqStep(f) PROVE PendInv'
  <2>1. /\ pc[f] = "ready" /\ UNCHANGED <<chan, cur, abandoned, pending>>
        /\ \E state : Becomes(f, state)
    BY <1>14 DEF SeqStep, SeqDropped, SeqOld, SeqEarly, SeqAppend, SeqRun, Continuing
  <2>2. \A c \in Channels : c # ChanOf(f) => txn'[c] = txn[c]
    <3>1. txn' = txn \/ \E t : txn' = [txn EXCEPT ![ChanOf(f)] = t]
      BY <1>14 DEF SeqStep, SeqDropped, SeqOld, SeqEarly, SeqAppend, SeqRun
    <3>2. QED
      BY <3>1 DEF TypeOK
  <2>3. QED
    BY <1>2, <1>4, <2>1, <2>2
<1>15. ASSUME NEW f \in Frames, RunOrphan(f) \/ RunRaise(f) PROVE PendInv'
  BY <1>2, <1>4, <1>15 DEF RunOrphan, RunRaise, Running
<1>16. ASSUME NEW f \in Frames, NEW n \in 1..RspMax, RunFirst(f, n) \/ RunLast(f, n) PROVE PendInv'
  <2>1. /\ pc[f] = "running" /\ Becomes(f, "replying")
        /\ UNCHANGED <<chan, cur, abandoned, pending>>
        /\ \A c \in Channels : txn'[c] \in {txn[c], None}
    BY <1>16 DEF RunFirst, RunLast, Running, TypeOK
  <2>2. QED
    BY <1>2, <1>4, <2>1
<1>17. ASSUME NEW o \in Out, pending' = Append(pending, o), Kept,
              \A k \in 1..Len(pending) :
                 pending[k].kind = "rsp" /\ Clean(pending[k].cid) => Follows(pending[k], o),
              o.kind = "rsp" /\ Clean(o.cid)' => Awaited(o)'
       PROVE  PendInv'
  <2>1. /\ Len(pending) \in Nat /\ Len(pending') = Len(pending) + 1
        /\ \A k \in 1..Len(pending) : pending'[k] = pending[k]
        /\ pending'[Len(pending) + 1] = o
    BY <1>17, PutFacts DEF TypeOK
  <2>2. ASSUME NEW k \in 1..Len(pending'), pending'[k].kind = "rsp", Clean(pending[k].cid)'
        PROVE  /\ Awaited(pending[k])'
               /\ \A j \in (k + 1)..Len(pending') : Follows(pending'[k], pending'[j])
    <3>1. CASE k = Len(pending) + 1
      <4>1. pending'[k] = o
        BY <2>1, <3>1
      <4>2. Clean(o.cid)' /\ (Awaited(o)' => Awaited(pending[k])')
        BY <2>2, <4>1 DEF Clean, Awaited
      <4>3. QED
        BY <1>17, <2>1, <2>2, <3>1, <4>1, <4>2
    <3>2. CASE k \in 1..Len(pending)
      <4>1. PICK p \in Out : p = pending[k] /\ p.cid \in Channels /\ pending'[k] = p
        BY <1>1, <2>1, <2>2, <3>2
      <4>2. Clean(p.cid)' /\ (Awaited(p)' => Awaited(pending[k])')
        BY <2>2, <4>1 DEF Clean, Awaited
      <4>3. Clean(p.cid) /\ Awaited(p) /\ Awaited(p)'
        BY <1>17, <2>2, <3>2, <4>1, <4>2 DEF PendInv
      <4>4. \A j \in (k + 1)..Len(pending) : Follows(pending[k], pending[j])
        BY <2>2, <3>2, <4>1, <4>3 DEF PendInv
      <4>5. Follows(pending[k], o)
        BY <1>17, <2>2, <3>2, <4>1, <4>3
      <4>6. QED
        BY <2>1, <3>2, <4>1, <4>2, <4>3, <4>4, <4>5
    <3>3. QED
      BY <2>1, <3>1, <3>2
  <2>3. QED
    BY <2>2 DEF PendInv, Follows
<1>18. ASSUME NEW cl \in Clients, InitReply(cl) PROVE PendInv'
  <2> DEFINE o == [kind |-> "init", cid |-> None, src |-> cl, idx |-> 0, last |-> TRUE]
  <2>1. o \in Out /\ pending' = Append(pending, o)
    BY <1>18 DEF InitReply, Out
  <2>2. Kept
    BY <1>3, <1>18 DEF InitReply
  <2>3. \A p : Follows(p, o)
    BY DEF Follows
  <2>4. QED
    BY <1>17, <2>1, <2>2, <2>3
<1>19. ASSUME NEW x \in Controls, ControlAck(x) \/ MsgReply(x) PROVE PendInv'
  <2> DEFINE o == [kind |-> "ack", cid |-> chan[ClientOf[x]], src |-> x, idx |-> 0, last |-> TRUE]
  <2>1. o \in Out /\ pending' = Append(pending, o)
    BY <1>19, CtapHidAssumption DEF ControlAck, MsgReply, Out, TypeOK
  <2>2. Kept
    BY <1>3, <1>19 DEF ControlAck, MsgReply
  <2>3. \A p : Follows(p, o)
    BY DEF Follows
  <2>4. QED
    BY <1>17, <2>1, <2>2, <2>3
<1>20. CASE WorkerPut
  <2> DEFINE o == [kind |-> "keepalive", cid |-> ChanOf(lock), src |-> lock[1],
                   idx |-> 0, last |-> TRUE]
  <2>1. lock \in Frames /\ pc[lock] = "running"
    BY <1>20 DEF WorkerPut, LockInv, TypeOK
  <2>2. o \in Out /\ pending' = Append(pending, o)
    BY <1>20, <2>1, Placed DEF WorkerPut, Out
  <2>3. Kept
    BY <1>3, <1>20 DEF WorkerPut
  <2>4. ASSUME NEW k \in 1..Len(pending), pending[k].kind = "rsp", Clean(pending[k].cid)
        PROVE  pending[k].cid # o.cid
    BY <2>1, <2>4, OwnAnswer
  <2>5. QED
    BY <1>17, <2>2, <2>3, <2>4 DEF Follows
<1>21. ASSUME NEW f \in Frames, SendSegment(f) PROVE PendInv'
  <2>1. PICK r, o : /\ r = reply[f]
                    /\ o = [kind |-> "rsp", cid |-> ChanOf(f), src |-> r.msg,
                            idx |-> r.idx, last |-> r.idx + 1 = r.n]
    OBVIOUS
  <2>2. /\ pc[f] = "replying" /\ r \in Reply /\ ChanOf(f) \in Channels /\ o \in Out
        /\ pending' = Append(pending, o) /\ UNCHANGED <<chan, cur, abandoned, txn>>
    BY <1>21, <2>1, Placed DEF SendSegment, LockInv, TypeOK, Reply, Out
  <2>3. /\ \A g \in Frames : g # f => pc'[g] = pc[g]
        /\ pc'[f] = IF o.last THEN "done" ELSE "replying"
    BY <1>21, <2>1 DEF SendSegment, Becomes, TypeOK
  <2>4. Kept
    BY <2>2, <2>3, CleanSame DEF Awaited, Settled
  <2>5. ASSUME NEW k \in 1..Len(pending), pending[k].kind = "rsp", Clean(pending[k].cid)
        PROVE  Follows(pending[k], o)
    <3>1. SUFFICES ASSUME pending[k].cid = ChanOf(f)
                   PROVE  ~pending[k].last /\ pending[k].src = r.msg /\ r.idx > pending[k].idx
      BY <2>1 DEF Follows
    <3>2. pending[k].src = f[1] /\ ~pending[k].last
      BY <2>2, <2>5, <3>1, OwnAnswer
    <3>3. r.msg = f[1] /\ pending[k].idx < r.idx
      BY <2>1, <2>2, <2>5, <3>1 DEF ReplyInv
    <3>4. r.idx \in Nat /\ pending[k].idx \in Nat
      BY <1>1, <2>2 DEF Reply, Out
    <3>5. QED
      BY <3>2, <3>3, <3>4
  <2>6. ASSUME Clean(ChanOf(f)) PROVE Awaited(o)'
    <3>1. r.msg = f[1] /\ OthersSettled(f) /\ txn[ChanOf(f)] = None
      BY <2>1, <2>2, <2>6 DEF ReplyInv
    <3>2. cur[ClientOf[f[1]]] = f[1] /\ chan[ClientOf[f[1]]] = ChanOf(f)
      BY <2>2, <2>6 DEF BusyInv, ChanOf
    <3>3. QED
      BY <2>1, <2>2, <2>3, <3>1, <3>2 DEF Awaited, OthersSettled, Settled
  <2>7. QED
    BY <1>17, <2>1, <2>2, <2>4, <2>5, <2>6, CleanSame
<1>22. CASE Deliver
  <2>1. /\ Len(pending) \in Nat \ {0} /\ Len(pending') = Len(pending) - 1
        /\ \A k \in 1..Len(pending') : pending'[k] = pending[k + 1]
        /\ Head(pending) = pending[1] /\ UNCHANGED <<chan, abandoned, pc, txn>>
    BY <1>22, GetFacts DEF Deliver, TypeOK
  <2>2. ASSUME NEW k \in 1..Len(pending'), pending'[k].kind = "rsp", Clean(pending[k].cid)'
        PROVE  /\ Awaited(pending[k])'
               /\ \A j \in (k + 1)..Len(pending') : Follows(pending'[k], pending'[j])
    <3>1. PICK p \in Out : p = pending[k + 1] /\ p.cid \in Channels /\ pending'[k] = p
      BY <1>1, <2>1, <2>2
    <3>2. Clean(p.cid)
      BY <2>1, <2>2, <3>1, CleanSame
    <3>3. Awaited(p) /\ \A j \in (k + 2)..Len(pending) : Follows(p, pending[j])
      BY <2>1, <2>2, <3>1, <3>2 DEF PendInv
    <3>4. ~(pending[1].kind = "rsp" /\ pending[1].last /\ pending[1].cid = p.cid)
      <4>1. SUFFICES ASSUME pending[1].kind = "rsp", pending[1].cid = p.cid
                     PROVE  ~pending[1].last
        OBVIOUS
      <4>2. Follows(pending[1], pending[k + 1])
        BY <2>1, <2>2, <3>2, <4>1 DEF PendInv
      <4>3. QED
        BY <2>2, <3>1, <4>1, <4>2 DEF Follows
    <3>5. cur'[ClientOf[p.src]] = cur[ClientOf[p.src]]
      BY <1>22, <2>1, <3>3, <3>4, CtapHidAssumption DEF Deliver, Awaited, TypeOK
    <3>6. Awaited(p)'
      BY <2>1, <3>3, <3>5 DEF Awaited
    <3>7. Awaited(p)' => Awaited(pending[k])'
      BY <3>1 DEF Awaited
    <3>8. \A j \in (k + 1)..Len(pending') : Follows(p, pending'[j])
      BY <2>1, <3>3
    <3>9. QED
      BY <3>1, <3>6, <3>7, <3>8
  <2>3. QED
    BY <2>2 DEF PendInv, Follows
<1>23. QED
  BY <1>5, <1>6, <1>7, <1>8, <1>9, <1>10, <1>11, <1>12, <1>13, <1>14, <1>15, <1>16, <1>18, <1>19,
     <1>20, <1>21, <1>22
  DEF Next, HostNext, DeviceNext, RunStep

-----------------------------------------------------------------------------
(* The theorems.                                                           *)

\* The device starts with no channel drawn and nothing queued.
LEMMA InitIInv == Init => IInv
<1> USE FrameFacts, CtapHidAssumption, NoneFacts DEF Init
<1>1. Init => Len(pending) = 0 /\ pending \in Seq(Out)
  BY EmptySeq
<1>2. Init => TypeOK
  <2>1. SUFFICES ASSUME Init PROVE TypeOK
    OBVIOUS
  <2>2. /\ open \in [Clients -> {"idle", "sent", "drawn", "replied", "open"}]
        /\ chan \in [Clients -> Channels \cup {None}]
        /\ cur \in [Clients -> Messages \cup {None}]
        /\ ctl \in [Controls -> {"unsent", "ready", "done"}]
    BY <2>1
  <2>3. /\ pc \in [Frames -> PC] /\ reply \in [Frames -> Reply \cup {None}]
        /\ txn \in [Channels -> Txn \cup {None}]
    BY <2>1 DEF PC
  <2>4. QED
    BY <1>1, <2>1, <2>2, <2>3 DEF TypeOK
<1>3. Init => LockInv /\ BusyInv /\ WorkInv /\ ReplyInv
  BY DEF LockInv, BusyInv, WorkInv, ReplyInv
<1>4. Init => SentInv
  BY <1>1 DEF SentInv
<1>5. Init => TxnInv /\ PendInv
  BY <1>1 DEF TxnInv, PendInv
<1>6. QED
  BY <1>2, <1>3, <1>4, <1>5 DEF IInv

\* A stuttering step changes nothing the invariant reads.
LEMMA Stutter == ASSUME IInv, UNCHANGED vars PROVE IInv'
<1> USE DEF IInv, vars, hostVars, devVars, workerVars
<1>1. TypeOK' /\ LockInv' /\ SentInv'
  BY DEF TypeOK, LockInv, SentInv
<1>2. BusyInv' /\ TxnInv'
  BY CleanSame DEF BusyInv, TxnInv, Assembling
<1>3. WorkInv' /\ ReplyInv'
  BY CleanSame DEF WorkInv, ReplyInv, Whole, OthersSettled
<1>4. PendInv'
  BY CleanSame DEF PendInv, Awaited, Follows
<1>5. QED
  BY <1>1, <1>2, <1>3, <1>4

\* Every behaviour of the transport satisfies the invariant.
THEOREM Invariance == Spec => []IInv
<1>1. IInv /\ [Next]_vars => IInv'
  <2>1. SUFFICES ASSUME IInv, Next PROVE IInv'
    BY Stutter
  <2>2. TypeOK' /\ LockInv' /\ SentInv'
    BY <2>1, TypeStep, LockStep, SentStep DEF IInv
  <2>3. BusyInv' /\ TxnInv'
    BY <2>1, <2>2, BusyStep, TxnStep
  <2>4. WorkInv' /\ ReplyInv' /\ PendInv'
    BY <2>1, <2>2, <2>3, WorkStep, ReplyStep, PendStep
  <2>5. QED
    BY <2>2, <2>3, <2>4 DEF IInv
<1>2. QED
  BY InitIInv, <1>1, PTL DEF Spec

\* The variables of the transport keep their types: no thread sends a response it
\* does not have, and no keepalive is written for a handler that is not running.
THEOREM TypeCorrect == Spec => []TypeOK
<1>1. IInv => TypeOK
  BY DEF IInv
<1>2. QED
  BY Invariance, <1>1, PTL

\* Whatever the number of clients, channels and messages, and whatever the order in
\* which the frame threads run, the CTAP handler of a clean channel (unpack) is
\* given one whole message, in order, and its client is still waiting for it.
THEOREM IntegrityTheorem == Spec => []RequestIntegrity
<1>1. IInv => RequestIntegrity
  <2>1. SUFFICES ASSUME IInv, work # None, Clean(ChanOf(lock))
                 PROVE  /\ work.next = Segs[work.msg]
                        /\ \A s \in 0..(work.next - 1) : work.seg[s] = <<work.msg, s + 1>>
                        /\ cur[ClientOf[work.msg]] = work.msg
    BY DEF RequestIntegrity
  <2>2. lock \in Frames /\ pc[lock] = "running"
    BY <2>1 DEF IInv, LockInv, TypeOK
  <2>3. Whole(lock, work) /\ cur[ClientOf[lock[1]]] = lock[1]
    BY <2>1, <2>2 DEF IInv, WorkInv, BusyInv
  <2>4. QED
    BY <2>3 DEF Whole
<1>2. QED
  BY Invariance, <1>1, PTL

\* The frames of a response leave in order, without a keepalive among them, and
\* while its client still waits for it (send_response_segments, KeepAliveWorker).
THEOREM OrderTheorem == Spec => []ReplyOrder
<1>1. IInv => ReplyOrder
  <2>1. SUFFICES ASSUME IInv, NEW i \in 1..Len(pending), NEW j \in 1..Len(pending), i < j,
                        pending[i].cid = pending[j].cid, pending[i].kind = "rsp",
                        pending[j].kind \in {"rsp", "keepalive"}, Clean(pending[i].cid)
                 PROVE  /\ pending[j].kind = "rsp" /\ pending[j].src = pending[i].src
                        /\ pending[j].idx > pending[i].idx
                        /\ cur[ClientOf[pending[i].src]] = pending[i].src
    BY DEF ReplyOrder
  <2>2. Len(pending) \in Nat /\ j \in (i + 1)..Len(pending)
    BY <2>1 DEF IInv, TypeOK
  <2>3. Awaited(pending[i]) /\ Follows(pending[i], pending[j])
    BY <2>1, <2>2 DEF IInv, PendInv
  <2>4. QED
    BY <2>1, <2>3 DEF Awaited, Follows
<1>2. QED
  BY Invariance, <1>1, PTL

=============================================================================
