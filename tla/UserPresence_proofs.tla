------------------------- MODULE UserPresence_proofs -------------------------
(***************************************************************************)
(* A request that begins with nothing of earlier requests under way is     *)
(* decided by its own prompt and its own fingerprint, and its prompt is    *)
(* not withdrawn while it waits.                                           *)
(***************************************************************************)
EXTENDS UserPresence, SequenceTheorems, TLAPS

\* What a queue holds after a put and after a get.
LEMMA PutFacts ==
  ASSUME NEW S, NEW q \in Seq(S), NEW e \in S
  PROVE  /\ Append(q, e) \in Seq(S) /\ Len(Append(q, e)) = Len(q) + 1 /\ Len(q) \in Nat
         /\ \A i \in 1..Len(q) : Append(q, e)[i] = q[i]
         /\ Append(q, e)[Len(q) + 1] = e
  BY AppendProperties

\* ... and how what is left lies in it.
LEMMA GetFacts ==
  ASSUME NEW S, NEW q \in Seq(S), q # <<>>
  PROVE  /\ Tail(q) \in Seq(S) /\ Len(Tail(q)) = Len(q) - 1 /\ Len(q) \in Nat \ {0}
         /\ \A i \in 1..Len(Tail(q)) : Tail(q)[i] = q[i + 1]
         /\ Head(q) = q[1] /\ Head(q) \in S
  BY HeadTailProperties, EmptySeq

\* The same element by element: what was in the queue or what was put ...
LEMMA PutEach ==
  ASSUME NEW S, NEW q \in Seq(S), NEW e \in S
  PROVE  \A i \in 1..Len(Append(q, e)) :
            Append(q, e)[i] = e \/ (i \in 1..Len(q) /\ Append(q, e)[i] = q[i])
<1> DEFINE r == Append(q, e)
<1>1. /\ Len(r) = Len(q) + 1 /\ Len(q) \in Nat /\ r[Len(q) + 1] = e
      /\ \A i \in 1..Len(q) : r[i] = q[i]
  BY PutFacts
<1> HIDE DEF r
<1>2. \A i \in 1..Len(r) : i \in 1..Len(q) \/ i = Len(q) + 1
  BY <1>1
<1>3. \A i \in 1..Len(r) : r[i] = e \/ (i \in 1..Len(q) /\ r[i] = q[i])
  BY <1>1, <1>2
<1> QED
  BY <1>3 DEF r

\* ... and what is left, and what was first, was in it.
LEMMA GetEach ==
  ASSUME NEW S, NEW q \in Seq(S), q # <<>>
  PROVE  /\ \A i \in 1..Len(Tail(q)) : i + 1 \in 1..Len(q) /\ Tail(q)[i] = q[i + 1]
         /\ 1 \in 1..Len(q) /\ Head(q) = q[1] /\ Head(q) \in S
<1> DEFINE r == Tail(q)
<1>1. /\ Len(r) = Len(q) - 1 /\ Len(q) \in Nat \ {0} /\ Head(q) = q[1] /\ Head(q) \in S
      /\ \A i \in 1..Len(r) : r[i] = q[i + 1]
  BY GetFacts
<1> HIDE DEF r
<1>2. \A i \in 1..Len(r) : i + 1 \in 1..Len(q)
  BY <1>1
<1>3. \A i \in 1..Len(r) : i + 1 \in 1..Len(q) /\ r[i] = q[i + 1]
  BY <1>1, <1>2
<1> QED
  BY <1>1, <1>3 DEF r

\* History is in step with the request number; CLOSE threads put CLOSEs.
Shape ==
    /\ \A c \in quiet : c <= call
    /\ \A c \in Calls : c > call => by[c] = None
    /\ \A p \in Putters \ {Qt} : put[p] # None => put[p].of = None

\* While the last request is one that began quietly, all that is under way is its own.
OwnSignals == call \in quiet => \A i \in 1..Len(signals) : signals[i].of = call

OwnOrders == call \in quiet => \A i \in 1..Len(sys) : sys[i].of = call

OwnThreads ==
    call \in quiet =>
        /\ shown \subseteq {call}
        /\ put[Qt] # None => put[Qt].of = call
        /\ \A c \in Calls : thr[c] \in {"send", "reply"} => c = call
        /\ \A c \in Calls : fp[c] \in {"scan", "match", "result"} => c = call

Own == OwnSignals /\ OwnOrders /\ OwnThreads

\* ... its queue of answers is cleared before it polls ...
OwnAnswers ==
    call \in quiet /\ pc # "clear" => \A i \in 1..Len(auth) : auth[i].of \in {call, None}

\* ... and nobody is about to withdraw its prompt until it is answered or matched.
Undisturbed ==
    call \in quiet /\ pc \in {"clear", "ask", "poll"} /\ fp[call] \in {"none", "scan", "match", "failed"} =>
        /\ worker = "loop"
        /\ \A i \in 1..Len(sys) : sys[i].kind = "request"

\* All of the invariant but the types.
Rest == Shape /\ Own /\ OwnAnswers /\ Undisturbed /\ AnswerIsOwn

UPInv == TypeOK /\ Rest
-----------------------------------------------------------------------------
\* Every variable keeps its type in the steps of gather_user_presence.
LEMMA GatherTypes ==
  ASSUME TypeOK, NEW k \in Channels, Begin(k) \/ BeginCached(k) \/ GatherStep
  PROVE  TypeOK'
<1> USE UserPresenceAssumption DEF TypeOK, Calls, Prompts, Notice
<1>1. CASE Begin(k)
  BY <1>1 DEF Begin, authVars, appVars, userVars
<1>2. CASE BeginCached(k)
  BY <1>2 DEF BeginCached, authVars, appVars, userVars
<1>3. CASE Clear
  <2>1. <<>> \in Seq(Answers)
    OBVIOUS
  <2> QED
    BY <1>3, <2>1 DEF Clear, appVars, userVars
<1>4. CASE Ask \/ Dismiss
  <2>1. PICK kind \in {"request", "response"} :
          pc \in {"ask", "poll", "dismiss"} /\ sys' = Append(sys, [kind |-> kind, of |-> call])
    BY <1>4 DEF Ask, Dismiss, Ordered
  <2>2. /\ UNCHANGED <<call, cid, cached, outcome, by, quiet, fp, auth, put, asleep, closes>>
        /\ UNCHANGED <<worker, thr, cur, shown, signals>>
    BY <1>4 DEF Ask, Dismiss, authVars, appVars, userVars
  <2>3. pc' \in {"poll", "idle"}
    BY <1>4 DEF Ask, Dismiss
  <2>4. [kind |-> kind, of |-> call] \in Orders
    BY <2>1 DEF Orders
  <2>5. sys' \in Seq(Orders)
    BY <2>1, <2>4, PutFacts
  <2> QED
    BY <2>1, <2>2, <2>3, <2>5
<1>5. CASE PollFinger
  BY <1>5 DEF PollFinger, Decided, authVars, appVars, userVars
<1>6. CASE TimeOut
  BY <1>6 DEF TimeOut, Decided, authVars, appVars, userVars
<1>7. CASE PollAnswer
  <2>1. Tail(auth) \in Seq(Answers) /\ Head(auth) \in Answers
    BY <1>7, GetFacts DEF PollAnswer
  <2>2. asleep # <<>> => Tail(asleep) \in Seq(Putters)
    BY GetFacts
  <2>3. asleep' \in Seq(Putters) /\ auth' \in Seq(Answers)
    BY <1>7, <2>1, <2>2 DEF PollAnswer
  <2>4. Head(auth).kind \in {"accept", "reject", "close"} /\ Head(auth).of \in Prompts \cup {None}
    BY <2>1 DEF Answers
  <2> QED
    BY <1>7, <2>3, <2>4 DEF PollAnswer, Decided, appVars, userVars
<1> QED
  BY <1>1, <1>2, <1>3, <1>4, <1>5, <1>7, <1>6 DEF GatherStep

\* ... in those of its fingerprint threads ...
LEMMA FingerTypes ==
  ASSUME TypeOK, NEW c \in Calls, FingerStep(c)
  PROVE  TypeOK'
<1> USE UserPresenceAssumption DEF TypeOK
<1>1. CASE Scanned(c)
  BY <1>1 DEF Scanned, callVars, authVars, appVars, userVars
<1>2. CASE FingerOrder(c)
  <2>1. [kind |-> "response", of |-> c] \in Orders
    BY DEF Orders
  <2>2. sys' \in Seq(Orders)
    BY <1>2, <2>1, PutFacts DEF FingerOrder, Ordered
  <2> QED
    BY <1>2, <2>2 DEF FingerOrder, callVars, authVars, appVars, userVars
<1>3. CASE FingerResult(c)
  BY <1>3 DEF FingerResult, callVars, authVars, appVars, userVars
<1> QED
  BY <1>1, <1>2, <1>3 DEF FingerStep

\* ... in those of the application's worker ...
LEMMA WorkerTypes ==
  ASSUME TypeOK, WorkerStep
  PROVE  TypeOK'
<1> USE UserPresenceAssumption DEF TypeOK
<1>1. CASE WorkerTake
  <2>1. Tail(sys) \in Seq(Orders) /\ Head(sys) \in Orders
    BY <1>1, GetFacts DEF WorkerTake
  <2>2. Head(sys).of \in Calls
    BY <2>1 DEF Orders
  <2> QED
    BY <1>1, <2>1, <2>2 DEF WorkerTake, callVars, authVars, userVars
<1>2. CASE WorkerClose
  <2>1. cur \in shown => [kind |-> "closed", of |-> cur] \in Signals
    BY DEF Signals
  <2>2. signals' \in Seq(Signals)
    BY <1>2, <2>1, PutFacts DEF WorkerClose
  <2> QED
    BY <1>2, <2>2 DEF WorkerClose, callVars, authVars
<1>3. CASE WorkerForget
  BY <1>3 DEF WorkerForget, callVars, authVars, userVars
<1> QED
  BY <1>1, <1>2, <1>3 DEF WorkerStep

\* ... of the threads that show prompts ...
LEMMA PromptTypes ==
  ASSUME TypeOK, NEW c \in Calls, PromptStep(c) \/ SignalTaken(c)
  PROVE  TypeOK'
<1> USE UserPresenceAssumption DEF TypeOK, Prompts
<1>1. CASE Show(c)
  BY <1>1 DEF Show, callVars, authVars
<1>2. CASE Store(c)
  BY <1>2 DEF Store, callVars, authVars, userVars
<1>3. CASE ReplyTaken(c)
  BY <1>3 DEF ReplyTaken, callVars, authVars, userVars
<1>4. CASE SignalTaken(c)
  <2>1. signals' \in Seq(Signals)
    BY <1>4, GetFacts DEF SignalTaken
  <2> QED
    BY <1>4, <2>1 DEF SignalTaken, callVars, authVars, appVars
<1> QED
  BY <1>1, <1>2, <1>3, <1>4 DEF PromptStep

\* ... of the user ...
LEMMA UserTypes ==
  ASSUME TypeOK, NEW p \in Prompts, UserStep(p)
  PROVE  TypeOK'
<1> USE UserPresenceAssumption DEF TypeOK
<1>1. ASSUME NEW a \in {"accept", "reject"}, Click(p, a)
      PROVE  TypeOK'
  <2> DEFINE s1 == [kind |-> a, of |-> p]
             s2 == [kind |-> "closed", of |-> p]
  <2>1. s1 \in Signals /\ s2 \in Signals
    BY DEF Signals
  <2>2. <<s1, s2>> \in Seq(Signals)
    BY <2>1
  <2>3. signals' \in Seq(Signals)
    BY <1>1, <2>2 DEF Click
  <2> QED
    BY <1>1, <2>3 DEF Click, callVars, authVars, appVars
<1>2. ASSUME NEW how \in {"expired", "closed"}, Leave(p, how)
      PROVE  TypeOK'
  <2>1. [kind |-> how, of |-> p] \in Signals
    BY DEF Signals
  <2>2. signals' \in Seq(Signals)
    BY <1>2, <2>1, PutFacts DEF Leave
  <2> QED
    BY <1>2, <2>2 DEF Leave, callVars, authVars, appVars
<1> QED
  BY <1>1, <1>2 DEF UserStep

\* ... and of the threads that put answers.
LEMMA PutTypes ==
  ASSUME TypeOK, QtPoll \/ CloseEvent \/ \E p \in Putters : Put(p)
  PROVE  TypeOK'
<1> USE UserPresenceAssumption DEF TypeOK
<1>1. CASE QtPoll
  <2>1. Tail(signals) \in Seq(Signals) /\ Head(signals) \in Signals
    BY <1>1, GetFacts DEF QtPoll
  <2>2. /\ [kind |-> "accept", of |-> Head(signals).of] \in Answers
        /\ [kind |-> "reject", of |-> Head(signals).of] \in Answers
    BY <2>1 DEF Signals, Answers
  <2>3. put' \in [Putters -> Answers \cup {None}]
    BY <1>1, <2>2 DEF QtPoll
  <2>4. cur' \in Prompts \cup {None}
    BY <1>1 DEF QtPoll
  <2> QED
    BY <1>1, <2>1, <2>3, <2>4 DEF QtPoll, callVars
<1>2. CASE CloseEvent
  <2>1. [kind |-> "close", of |-> None] \in Answers
    BY DEF Answers
  <2> QED
    BY <1>2, <2>1 DEF CloseEvent, Putters, callVars, appVars, userVars
<1>3. ASSUME NEW p \in Putters, Put(p)
      PROVE  TypeOK'
  <2>1. put[p] \in Answers
    BY <1>3 DEF Put
  <2>2. auth' \in Seq(Answers) /\ asleep' \in Seq(Putters)
    <3>1. Append(auth, put[p]) \in Seq(Answers) /\ Append(asleep, p) \in Seq(Putters)
      BY <2>1, PutFacts
    <3> QED
      BY <1>3, <3>1 DEF Put
  <2>3. put' \in [Putters -> Answers \cup {None}]
    BY <1>3 DEF Put
  <2> QED
    BY <1>3, <2>2, <2>3 DEF Put, callVars, appVars, userVars
<1> QED
  BY <1>1, <1>2, <1>3

-----------------------------------------------------------------------------
\* The steps of gather_user_presence: a request that begins quietly finds nothing of
\* others, and takes its answers only out of a queue that it has cleared.
LEMMA BeginKeeps ==
  ASSUME UPInv, NEW k \in Channels, Begin(k) \/ BeginCached(k)
  PROVE  Rest'
<1> USE UserPresenceAssumption DEF UPInv, TypeOK, Rest, Calls
<1>1. CASE Begin(k)
  <2>1. call + 1 \notin quiet /\ call' = call + 1 /\ call' \in Calls /\ pc' = "clear"
    BY <1>1 DEF Begin, Shape
  <2>2. call' \in quiet' => AllQuiet
    BY <1>1, <2>1 DEF Begin
  <2>3. /\ UNCHANGED <<outcome, by, auth, put, asleep, closes, sys>>
        /\ UNCHANGED <<worker, thr, cur, shown, signals>>
    BY <1>1 DEF Begin, authVars, appVars, userVars
  <2>4. Shape'
    BY <1>1, <2>1, <2>3 DEF Begin, Shape
  <2>5. \A c \in Calls : c # call' => fp'[c] = fp[c]
    BY <1>1, <2>1 DEF Begin
  <2>6. Own'
    <3>1. OwnSignals' /\ OwnOrders'
      BY <2>2, <2>3 DEF OwnSignals, OwnOrders, AllQuiet
    <3>2. OwnThreads'
      BY <2>1, <2>2, <2>3, <2>5 DEF OwnThreads, AllQuiet
    <3> QED
      BY <3>1, <3>2 DEF Own
  <2>7. OwnAnswers'
    BY <2>1 DEF OwnAnswers
  <2>8. Undisturbed'
    BY <2>1, <2>2, <2>3 DEF Undisturbed, AllQuiet
  <2>9. AnswerIsOwn'
    BY <1>1, <2>1, <2>3 DEF Begin, AnswerIsOwn, Shape
  <2> QED
    BY <2>4, <2>6, <2>7, <2>8, <2>9
<1>2. CASE BeginCached(k)
  <2>1. call' \notin quiet' /\ UNCHANGED <<quiet, by, put>> /\ call' = call + 1
    BY <1>2 DEF BeginCached, Shape, authVars
  <2> QED
    BY <2>1 DEF Shape, Own, OwnSignals, OwnOrders, OwnThreads, OwnAnswers, Undisturbed, AnswerIsOwn
<1> QED
  BY <1>1, <1>2

\* What no step but Begin disturbs: each part of the invariant depends on these alone.
LEMMA Untouched ==
  ASSUME UPInv, UNCHANGED <<call, quiet>>
  PROVE  /\ UNCHANGED <<put, by>> => Shape' /\ AnswerIsOwn'
         /\ UNCHANGED signals => OwnSignals'
         /\ UNCHANGED sys => OwnOrders'
         /\ UNCHANGED <<shown, put, thr, fp>> => OwnThreads'
         /\ UNCHANGED <<pc, auth>> => OwnAnswers'
         /\ UNCHANGED <<pc, fp, worker, sys>> => Undisturbed'
<1> USE DEF UPInv, Rest
<1>1. UNCHANGED <<put, by>> => Shape' /\ AnswerIsOwn'
  BY DEF Shape, AnswerIsOwn
<1>2. /\ UNCHANGED signals => OwnSignals'
      /\ UNCHANGED sys => OwnOrders'
      /\ UNCHANGED <<shown, put, thr, fp>> => OwnThreads'
  BY DEF Own, OwnSignals, OwnOrders, OwnThreads
<1>3. UNCHANGED <<pc, auth>> => OwnAnswers'
  BY DEF OwnAnswers
<1>4. UNCHANGED <<pc, fp, worker, sys>> => Undisturbed'
  BY DEF Undisturbed
<1> QED
  BY <1>1, <1>2, <1>3, <1>4

\* The other steps of gather_user_presence.
LEMMA GatherKeeps ==
  ASSUME UPInv, GatherStep
  PROVE  Rest'
<1> USE UserPresenceAssumption DEF UPInv, TypeOK, Rest
<1>1. CASE Clear
  <2>1. /\ UNCHANGED <<call, quiet, put, by, shown, signals, sys, thr, fp, worker>>
        /\ pc = "clear" /\ pc' = "ask" /\ auth' = <<>>
    BY <1>1 DEF Clear, appVars, userVars
  <2>2. OwnAnswers'
    BY <2>1 DEF OwnAnswers
  <2>3. Undisturbed'
    BY <2>1 DEF Undisturbed
  <2> QED
    BY <2>1, <2>2, <2>3, Untouched DEF Own
<1>2. ASSUME NEW e \in Orders, e.of = call, sys' = Append(sys, e),
             UNCHANGED <<call, quiet, put, by, shown, signals, thr, fp, worker, auth>>,
             \/ pc = "ask" /\ pc' = "poll" /\ e.kind = "request"
             \/ pc = "dismiss" /\ pc' = "idle"
      PROVE  Rest'
  <2>1. \A i \in 1..Len(sys') : sys'[i] = e \/ (i \in 1..Len(sys) /\ sys'[i] = sys[i])
    BY <1>2, PutEach
  <2>2. OwnOrders'
    BY <1>2, <2>1 DEF Own, OwnOrders
  <2>3. OwnAnswers'
    BY <1>2 DEF OwnAnswers
  <2>4. Undisturbed'
    BY <1>2, <2>1 DEF Undisturbed
  <2> QED
    BY <1>2, <2>2, <2>3, <2>4, Untouched DEF Own
<1>3. CASE Ask
  <2>1. PICK e \in Orders : e.of = call /\ e.kind = "request" /\ sys' = Append(sys, e)
    BY <1>3 DEF Ask, Ordered, Orders
  <2> QED
    BY <1>2, <1>3, <2>1 DEF Ask, authVars, appVars, userVars
<1>4. CASE Dismiss
  <2>1. PICK e \in Orders : e.of = call /\ sys' = Append(sys, e)
    BY <1>4 DEF Dismiss, Ordered, Orders
  <2> QED
    BY <1>2, <1>4, <2>1 DEF Dismiss, authVars, appVars, userVars
<1>5. CASE PollFinger \/ TimeOut \/ PollAnswer
  <2>1. /\ UNCHANGED <<call, quiet, put, shown, signals, sys, thr, fp, worker>>
        /\ pc = "poll" /\ pc' \in {"idle", "dismiss"}
    BY <1>5 DEF PollFinger, TimeOut, PollAnswer, Decided, authVars, appVars, userVars
  <2>2. \A i \in 1..Len(auth') : \E j \in 1..Len(auth) : auth'[i] = auth[j]
    <3>1. CASE PollAnswer
      BY <3>1, GetEach DEF PollAnswer
    <3>2. CASE auth' = auth
      BY <3>2
    <3> QED
      BY <1>5, <3>1, <3>2 DEF PollFinger, TimeOut, authVars
  <2>3. OwnAnswers'
    BY <2>1, <2>2 DEF OwnAnswers
  <2>4. Undisturbed'
    BY <2>1 DEF Undisturbed
  <2>5. \E c \in Prompts \cup {None} :
          by' = [by EXCEPT ![call] = c] /\ (call \in quiet => c \in {call, None})
    <3>1. CASE PollAnswer
      <4>1. Head(auth) = auth[1] /\ Head(auth) \in Answers /\ 1 \in 1..Len(auth)
        BY <3>1, GetEach DEF PollAnswer
      <4>2. Head(auth).of \in Prompts \cup {None}
        BY <4>1 DEF Answers
      <4>3. call \in quiet => Head(auth).of \in {call, None}
        BY <2>1, <4>1 DEF OwnAnswers
      <4> QED
        BY <3>1, <4>2, <4>3 DEF PollAnswer, Decided
    <3>2. CASE PollFinger \/ TimeOut
      BY <2>1, <3>2 DEF PollFinger, TimeOut, Decided, Prompts
    <3> QED
      BY <1>5, <3>1, <3>2
  <2>6. Shape'
    BY <2>1, <2>5 DEF Shape, Calls
  <2>7. AnswerIsOwn'
    BY <2>1, <2>5 DEF AnswerIsOwn
  <2> QED
    BY <2>1, <2>3, <2>4, <2>6, <2>7, Untouched DEF Own
<1> QED
  BY <1>1, <1>5, <1>3, <1>4 DEF GatherStep

\* The fingerprint threads: one that reports is the request's own.
LEMMA FingerKeeps ==
  ASSUME UPInv, NEW c \in Calls, FingerStep(c)
  PROVE  Rest'
<1> USE UserPresenceAssumption DEF UPInv, TypeOK, Rest
<1>1. /\ UNCHANGED <<call, quiet, put, by, shown, signals, thr, worker, pc, auth>>
      /\ fp[c] \in {"scan", "match", "result"}
      /\ \E r \in {"match", "failed", "result", "matched"} :
            fp' = [fp EXCEPT ![c] = r] /\ (fp[c] # "scan" => r \in {"result", "matched"})
  BY DEF FingerStep, Scanned, FingerOrder, FingerResult, callVars, authVars, appVars, userVars
<1>2. call \in quiet => c = call
  BY <1>1 DEF Own, OwnThreads
<1>3. OwnThreads'
  BY <1>1, <1>2 DEF Own, OwnThreads
<1>4. CASE FingerOrder(c)
  <2>1. fp'[c] = "result"
    BY <1>4 DEF FingerOrder
  <2>2. PICK e \in Orders : e.of = c /\ sys' = Append(sys, e)
    BY <1>4 DEF FingerOrder, Ordered, Orders
  <2>3. \A i \in 1..Len(sys') : sys'[i] = e \/ (i \in 1..Len(sys) /\ sys'[i] = sys[i])
    BY <2>2, PutEach
  <2>4. OwnOrders'
    <3>1. call \in quiet => e.of = call
      BY <1>2, <2>2
    <3> QED
      BY <1>1, <2>3, <3>1 DEF Own, OwnOrders
  <2>5. Undisturbed'
    BY <1>1, <1>2, <2>1 DEF Undisturbed
  <2> QED
    BY <1>1, <1>3, <2>4, <2>5, Untouched DEF Own
<1>5. CASE sys' = sys
  <2>1. Undisturbed'
    BY <1>1, <1>2, <1>5 DEF Undisturbed
  <2> QED
    BY <1>1, <1>3, <1>5, <2>1, Untouched DEF Own
<1> QED
  BY <1>4, <1>5 DEF FingerStep, Scanned, FingerResult

\* The application's worker: it withdraws a prompt only after an order to do so.
LEMMA WorkerKeeps ==
  ASSUME UPInv, WorkerStep
  PROVE  Rest'
<1> USE UserPresenceAssumption DEF UPInv, TypeOK, Rest
<1>1. CASE WorkerTake
  <2>1. /\ \A i \in 1..Len(sys') : i + 1 \in 1..Len(sys) /\ sys'[i] = sys[i + 1]
        /\ 1 \in 1..Len(sys) /\ Head(sys) = sys[1] /\ Head(sys) \in Orders
    BY <1>1, GetEach DEF WorkerTake
  <2>2. /\ UNCHANGED <<call, quiet, put, by, shown, signals, fp, pc, auth>>
        /\ \/ thr' = [thr EXCEPT ![Head(sys).of] = "send"] /\ worker' = worker
           \/ Head(sys).kind # "request" /\ thr' = thr
    BY <1>1 DEF WorkerTake, callVars, authVars, userVars
  <2>3. call \in quiet => Head(sys).of = call
    BY <2>1 DEF Own, OwnOrders
  <2>4. OwnOrders'
    BY <2>1, <2>2 DEF Own, OwnOrders
  <2>5. OwnThreads'
    BY <2>2, <2>3 DEF Own, OwnThreads
  <2>6. Undisturbed'
    BY <2>1, <2>2 DEF Undisturbed
  <2> QED
    BY <2>2, <2>4, <2>5, <2>6, Untouched DEF Own
<1>2. CASE WorkerClose
  <2>1. /\ UNCHANGED <<call, quiet, put, by, sys, thr, fp, pc, auth>>
        /\ worker = "close" /\ shown' \subseteq shown
    BY <1>2 DEF WorkerClose, callVars, authVars
  <2>2. OwnSignals'
    <3>1. CASE cur \in shown
      <4>1. PICK e \in Signals : e.of = cur /\ signals' = Append(signals, e)
        BY <1>2, <3>1 DEF WorkerClose, Signals
      <4>2. \A i \in 1..Len(signals') :
              signals'[i] = e \/ (i \in 1..Len(signals) /\ signals'[i] = signals[i])
        BY <4>1, PutEach
      <4>3. call \in quiet => cur = call
        BY <3>1 DEF Own, OwnThreads
      <4> QED
        BY <2>1, <4>1, <4>2, <4>3 DEF Own, OwnSignals
    <3>2. CASE cur \notin shown
      BY <1>2, <2>1, <3>2, Untouched DEF WorkerClose
    <3> QED
      BY <3>1, <3>2
  <2>3. OwnThreads'
    BY <2>1 DEF Own, OwnThreads
  <2>4. Undisturbed'
    BY <2>1 DEF Undisturbed
  <2> QED
    BY <2>1, <2>2, <2>3, <2>4, Untouched DEF Own
<1>3. CASE WorkerForget
  <2>1. /\ UNCHANGED <<call, quiet, put, by, sys, thr, fp, pc, auth, shown, signals>>
        /\ worker = "forget"
    BY <1>3 DEF WorkerForget, callVars, authVars, userVars
  <2>2. Undisturbed'
    BY <2>1 DEF Undisturbed
  <2> QED
    BY <2>1, <2>2, Untouched DEF Own
<1> QED
  BY <1>1, <1>2, <1>3 DEF WorkerStep

\* The threads that show prompts, the user and the Qt main thread: what they pass on is
\* from a prompt that is on the screen.
LEMMA PromptKeeps ==
  ASSUME UPInv, NEW c \in Calls, PromptStep(c) \/ SignalTaken(c)
  PROVE  Rest'
<1> USE UserPresenceAssumption DEF UPInv, TypeOK, Rest
<1>1. UNCHANGED <<call, quiet, put, by, sys, fp, pc, auth, worker>>
  BY DEF PromptStep, Show, Store, ReplyTaken, SignalTaken, callVars, authVars, appVars, userVars
<1>2. CASE PromptStep(c)
  <2>1. /\ thr[c] \in {"send", "reply"} /\ signals' = signals /\ shown' \subseteq shown \cup {c}
        /\ \E r \in {"reply", "over", "stuck"} : thr' = [thr EXCEPT ![c] = r]
    BY <1>2 DEF PromptStep, Show, Store, ReplyTaken, userVars
  <2>2. OwnThreads'
    BY <1>1, <2>1 DEF Own, OwnThreads
  <2> QED
    BY <1>1, <2>1, <2>2, Untouched DEF Own
<1>3. CASE SignalTaken(c)
  <2>1. \A i \in 1..Len(signals') : i + 1 \in 1..Len(signals) /\ signals'[i] = signals[i + 1]
    BY <1>3, GetEach DEF SignalTaken
  <2>2. UNCHANGED <<thr, shown>>
    BY <1>3 DEF SignalTaken, appVars
  <2>3. OwnSignals'
    BY <1>1, <2>1 DEF Own, OwnSignals
  <2> QED
    BY <1>1, <2>2, <2>3, Untouched DEF Own
<1> QED
  BY <1>2, <1>3

\* The user answers, or leaves, what is on the screen.
LEMMA UserKeeps ==
  ASSUME UPInv, NEW p \in Prompts, UserStep(p)
  PROVE  Rest'
<1> USE UserPresenceAssumption DEF UPInv, TypeOK, Rest
<1>1. /\ UNCHANGED <<call, quiet, put, by, sys, fp, pc, auth, worker, thr>>
      /\ p \in shown /\ shown' = shown \ {p}
  BY DEF UserStep, Click, Leave, callVars, authVars, appVars
<1>2. call \in quiet => p = call
  BY <1>1 DEF Own, OwnThreads
<1>3. OwnSignals'
  <2>1. ASSUME NEW a \in {"accept", "reject"}, Click(p, a)
        PROVE  OwnSignals'
    <3>1. PICK s1 \in Signals, s2 \in Signals :
            s1.of = p /\ s2.of = p /\ signals' = signals \o <<s1, s2>>
      BY <2>1 DEF Click, Signals
    <3>2. /\ Len(signals') = Len(signals) + 2 /\ Len(signals) \in Nat
          /\ \A i \in 1..Len(signals) : signals'[i] = signals[i]
          /\ signals'[Len(signals) + 1] = s1 /\ signals'[Len(signals) + 2] = s2
      BY <3>1
    <3>3. \A i \in 1..Len(signals') :
            signals'[i] = s1 \/ signals'[i] = s2 \/ (i \in 1..Len(signals) /\ signals'[i] = signals[i])
      <4>1. ASSUME NEW i \in 1..Len(signals'), i # Len(signals) + 1, i # Len(signals) + 2
            PROVE  i \in 1..Len(signals)
        BY <3>2, <4>1
      <4> QED
        BY <3>2, <4>1
    <3> QED
      BY <1>1, <1>2, <3>1, <3>3 DEF Own, OwnSignals
  <2>2. ASSUME NEW how \in {"expired", "closed"}, Leave(p, how)
        PROVE  OwnSignals'
    <3>1. PICK e \in Signals : e.of = p /\ signals' = Append(signals, e)
      BY <2>2 DEF Leave, Signals
    <3>2. \A i \in 1..Len(signals') :
            signals'[i] = e \/ (i \in 1..Len(signals) /\ signals'[i] = signals[i])
      <4>1. signals \in Seq(Signals)
        OBVIOUS
      <4> QED
        BY <3>1, <4>1, PutEach
    <3> QED
      BY <1>1, <1>2, <3>1, <3>2 DEF Own, OwnSignals
  <2> QED
    BY <2>1, <2>2 DEF UserStep
<1>4. OwnThreads'
  BY <1>1 DEF Own, OwnThreads
<1> QED
  BY <1>1, <1>3, <1>4, Untouched DEF Own

\* What is put into notify_auth.
LEMMA PutKeeps ==
  ASSUME UPInv, QtPoll \/ CloseEvent \/ \E p \in Putters : Put(p)
  PROVE  Rest'
<1> USE UserPresenceAssumption DEF UPInv, TypeOK, Rest
<1>1. UNCHANGED <<call, quiet, by, sys, fp, pc, worker, thr, shown>>
  BY DEF QtPoll, CloseEvent, Put, callVars, appVars, userVars
<1>2. AnswerIsOwn' /\ Undisturbed'
  BY <1>1 DEF AnswerIsOwn, Undisturbed
<1>3. CASE QtPoll
  <2>1. /\ \A i \in 1..Len(signals') : i + 1 \in 1..Len(signals) /\ signals'[i] = signals[i + 1]
        /\ 1 \in 1..Len(signals) /\ Head(signals) = signals[1] /\ Head(signals) \in Signals
    BY <1>3, GetEach DEF QtPoll
  <2>2. /\ put[Qt] = None /\ auth' = auth
        /\ \/ put' = put
           \/ \E k \in {"accept", "reject"} :
                put' = [put EXCEPT ![Qt] = [kind |-> k, of |-> Head(signals).of]]
    BY <1>3 DEF QtPoll
  <2>3. Qt \in Putters /\ (call \in quiet => Head(signals).of = call)
    BY <2>1 DEF Qt, Putters, Own, OwnSignals
  <2>4. OwnSignals'
    BY <1>1, <2>1 DEF Own, OwnSignals
  <2>5. OwnThreads'
    BY <1>1, <2>2, <2>3 DEF Own, OwnThreads
  <2>6. Shape'
    BY <1>1, <2>2 DEF Shape
  <2> QED
    BY <1>1, <1>2, <2>2, <2>4, <2>5, <2>6, Untouched DEF Own
<1>4. CASE CloseEvent
  <2>1. /\ put' = [put EXCEPT ![closes + 1] = [kind |-> "close", of |-> None]]
        /\ closes \in Nat /\ UNCHANGED <<auth, signals>>
    BY <1>4 DEF CloseEvent, userVars
  <2>2. put'[Qt] = put[Qt]
    BY <2>1 DEF Qt, Putters
  <2>3. OwnThreads'
    BY <1>1, <2>1, <2>2 DEF Own, OwnThreads
  <2>4. Shape'
    BY <1>1, <2>1 DEF Shape
  <2> QED
    BY <1>1, <1>2, <2>1, <2>3, <2>4, Untouched DEF Own
<1>5. ASSUME NEW p \in Putters, Put(p)
      PROVE  Rest'
  <2>1. put[p] \in Answers /\ signals' = signals
    BY <1>5 DEF Put, userVars
  <2>2. CASE put' = put /\ auth' = auth
    BY <1>1, <2>1, <2>2, Untouched DEF Own
  <2>3. CASE put' = [put EXCEPT ![p] = None] /\ auth' = Append(auth, put[p])
    <3>1. \A i \in 1..Len(auth') : auth'[i] = put[p] \/ (i \in 1..Len(auth) /\ auth'[i] = auth[i])
      BY <2>1, <2>3, PutEach
    <3>2. call \in quiet => put[p].of \in {call, None}
      <4>1. put[p] # None
        BY <1>5 DEF Put
      <4> QED
        BY <4>1 DEF Own, OwnThreads, Shape
    <3>3. OwnAnswers'
      BY <1>1, <3>1, <3>2 DEF OwnAnswers
    <3>4. OwnThreads'
      BY <1>1, <2>1, <2>3 DEF Own, OwnThreads
    <3>5. Shape'
      BY <1>1, <2>3 DEF Shape
    <3> QED
      BY <1>1, <1>2, <2>1, <3>3, <3>4, <3>5, Untouched DEF Own
  <2> QED
    BY <1>5, <2>2, <2>3 DEF Put
<1> QED
  BY <1>3, <1>4, <1>5

-----------------------------------------------------------------------------
\* The initial states satisfy the invariant.
LEMMA InitUPInv == Init => UPInv
<1> SUFFICES ASSUME Init PROVE UPInv
  OBVIOUS
<1> USE UserPresenceAssumption DEF Init, Calls, Prompts, Notice
<1>1. TypeOK
  BY DEF TypeOK
<1>2. Shape /\ AnswerIsOwn
  BY DEF Shape, AnswerIsOwn, Putters
<1>3. Own /\ OwnAnswers /\ Undisturbed
  BY DEF Own, OwnSignals, OwnOrders, OwnThreads, OwnAnswers, Undisturbed
<1> QED
  BY <1>1, <1>2, <1>3 DEF UPInv, Rest

\* ... and every step keeps it.
LEMMA NextUPInv == UPInv /\ [Next]_vars => UPInv'
<1> SUFFICES ASSUME UPInv, [Next]_vars PROVE UPInv'
  OBVIOUS
<1> USE DEF UPInv
<1>1. ASSUME NEW k \in Channels, Begin(k) \/ BeginCached(k)
      PROVE  UPInv'
  BY <1>1, GatherTypes, BeginKeeps
<1>2. CASE GatherStep
  <2>1. Channels # {} => TypeOK'
    BY <1>2, GatherTypes
  <2>2. Channels # {}
    BY <1>2 DEF TypeOK, GatherStep, Clear, Ask, PollFinger, PollAnswer, Dismiss, TimeOut
  <2> QED
    BY <1>2, <2>1, <2>2, GatherKeeps
<1>3. CASE WorkerStep
  BY <1>3, WorkerTypes, WorkerKeeps
<1>4. CASE QtPoll \/ CloseEvent \/ \E p \in Putters : Put(p)
  BY <1>4, PutTypes, PutKeeps
<1>5. ASSUME NEW c \in Calls, FingerStep(c)
      PROVE  UPInv'
  BY <1>5, FingerTypes, FingerKeeps
<1>6. ASSUME NEW c \in Calls, PromptStep(c) \/ SignalTaken(c)
      PROVE  UPInv'
  BY <1>6, PromptTypes, PromptKeeps
<1>7. ASSUME NEW p \in Prompts, UserStep(p)
      PROVE  UPInv'
  BY <1>7, UserTypes, UserKeeps
<1>8. CASE UNCHANGED vars
  BY <1>8 DEF vars, callVars, authVars, appVars, userVars, TypeOK, Rest, Shape, Own, OwnSignals,
              OwnOrders, OwnThreads, OwnAnswers, Undisturbed, AnswerIsOwn
<1> QED
  BY <1>1, <1>2, <1>3, <1>4, <1>5, <1>6, <1>7, <1>8 DEF Next

\* The inductive invariant holds in every reachable state, for any number of requests,
\* CLOSE events and places in the queues.
THEOREM Invariance == Spec => []UPInv
  BY InitUPInv, NextUPInv, PTL DEF Spec

\* A request that begins with nothing of earlier ones under way is decided by its own
\* prompt or fingerprint, by a CLOSE event or by time.
THEOREM AnswerTheorem == Spec => []AnswerIsOwn
<1>1. UPInv => AnswerIsOwn
  BY DEF UPInv, Rest
<1> QED
  BY <1>1, Invariance, PTL

\* ... and until it is answered or matched nobody withdraws its prompt.
THEOREM PromptTheorem == Spec => []PromptStays
<1>1. UPInv => PromptStays
  BY DEF UPInv, Rest, Undisturbed, PromptStays
<1> QED
  BY <1>1, Invariance, PTL
=============================================================================
