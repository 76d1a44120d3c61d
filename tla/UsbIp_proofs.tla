---------------------------- MODULE UsbIp_proofs ----------------------------
(***************************************************************************)
(* However many URBs wait and channels are drawn, no URB is completed      *)
(* twice or after its unlink, and frames of a reply come in order.         *)
(***************************************************************************)
EXTENDS UsbIp, SequenceTheorems, WellFoundedInduction, TLAPS

\* A set of numbers that is not empty has a least one, and a bounded one a greatest.
LEMMA LeastNumber ==
  ASSUME NEW T \in SUBSET Nat, T # {}
  PROVE  \E x \in T : \A y \in T : x <= y
<1> DEFINE R == {ss \in Nat \X Nat : ss[1] < ss[2]}
<1>1. IsWellFoundedOn(R, Nat)
  BY NatLessThanWellFounded, Zenon DEF OpToRel
<1>2. \E x \in T : \A y \in T : ~(<<y, x>> \in R)
  <2> HIDE DEF R
  <2>1. T \subseteq Nat
    OBVIOUS
  <2> QED
    BY <1>1, <2>1, WFMin
<1>3. \A x, y \in Nat : y < x => <<y, x>> \in R
  OBVIOUS
<1> HIDE DEF R
<1>4. PICK x \in T : \A y \in T : ~(<<y, x>> \in R)
  BY <1>2
<1>5. ASSUME NEW y \in T PROVE x <= y
  <2>1. x \in Nat /\ y \in Nat
    BY <1>4
  <2>2. ~(y < x)
    BY <2>1, <1>3, <1>4
  <2> QED
    BY <2>1, <2>2
<1> QED
  BY <1>4, <1>5

LEMMA GreatestNumber ==
  ASSUME NEW n \in Nat, NEW T \in SUBSET (1..n), T # {}
  PROVE  \E x \in T : \A y \in T : y <= x
<1> DEFINE D == {d \in Nat : n - d \in T}
<1>1. D \in SUBSET Nat /\ D # {}
  <2>1. PICK x \in T : TRUE
    OBVIOUS
  <2>2. n - x \in Nat /\ n - (n - x) = x
    OBVIOUS
  <2> QED
    BY <2>1, <2>2
<1>2. PICK d \in D : \A e \in D : d <= e
  <2> HIDE DEF D
  <2> QED
    BY <1>1, LeastNumber
<1>3. n - d \in T /\ d \in Nat
  BY <1>2
<1>4. ASSUME NEW y \in T PROVE y <= n - d
  <2>1. n - y \in D
    <3>1. n - y \in Nat /\ n - (n - y) = y
      OBVIOUS
    <3> QED
      BY <3>1
  <2>2. d <= n - y
    BY <1>2, <2>1
  <2> QED
    BY <1>3, <2>2
<1> QED
  BY <1>3, <1>4
----------------------------------------------------------------------------
(* What a handler may make of the state. *)

Waiting == [urb : Urbs, stale : BOOLEAN]
Frames == [cid : Channels, first : BOOLEAN, num : Nat, mixed : BOOLEAN]
Results == [pending : Seq(Waiting), drawn : 0..MaxCids, txn : [Cids -> Txns \cup {None}],
            common : SUBSET Numbers, sent : Seq([to : Waiting, frame : Frames]), raised : BOOLEAN]

\* The numbers among the constants, and what None is not.
LEMMA ConstantFacts ==
  /\ MaxCids \in Nat \ {0} /\ MaxUrbs \in Nat \ {0} /\ MaxSegs \in Nat \ {0} /\ MaxStale \in Nat
  /\ Broadcast \notin Cids /\ None \notin Nat /\ None \notin Txns
  /\ Cids \subseteq Channels /\ Broadcast \in Channels /\ Cids \subseteq Nat
  /\ \A c \in Channels : c # Broadcast => c \in Cids
  BY UsbIpAssumption, TransactionAssumption DEF Cids, Channels

\* Drawing and keeping a transaction.
LEMMA PutFacts ==
  ASSUME NEW s \in Results, NEW at \in Cids, NEW t \in Txns \cup {None}
  PROVE  /\ Put(s, at, t) \in Results
         /\ Put(s, at, t).pending = s.pending /\ Put(s, at, t).drawn = s.drawn
         /\ Put(s, at, t).txn = [s.txn EXCEPT ![at] = t] /\ Put(s, at, t).common = s.common
         /\ Put(s, at, t).sent = s.sent /\ Put(s, at, t).raised = s.raised
<1>1. Put(s, at, t) \in Results
  BY DEF Put, Results
<1> QED
  BY <1>1 DEF Put, Results

\* An exception.
LEMMA RaiseFacts ==
  ASSUME NEW s \in Results
  PROVE  /\ Raise(s) \in Results
         /\ Raise(s).pending = s.pending /\ Raise(s).drawn = s.drawn
         /\ Raise(s).txn = s.txn /\ Raise(s).common = s.common /\ Raise(s).sent = s.sent
  BY DEF Raise, Results

\* A transaction of which a frame went out.
Counted(t) == [t EXCEPT !.seg = @ + 1, !.left = IF @ = 0 THEN 0 ELSE @ - 1]

LEMMA CountedFacts ==
  ASSUME NEW t \in Txns
  PROVE  /\ Counted(t) \in Txns
         /\ Counted(t).kind = t.kind /\ Counted(t).ready = t.ready /\ Counted(t).mixed = t.mixed
         /\ Counted(t).seg = t.seg + 1 /\ t.seg \in Nat
         /\ t.left \in 0..MaxSegs /\ (t.left > 0 => Counted(t).left = t.left - 1)
<1> USE ConstantFacts
<1>1. t.left \in 0..MaxSegs /\ t.seg \in Nat
  BY DEF Txns
<1>2. /\ t.kind \in {"direct", "cbor"} /\ t.need \in 0..MaxSegs /\ t.next \in 0..MaxSegs
      /\ t.buf \in SUBSET Numbers /\ t.ready \in BOOLEAN /\ t.mixed \in BOOLEAN
      /\ t = [kind |-> t.kind, need |-> t.need, next |-> t.next, buf |-> t.buf, ready |-> t.ready,
              left |-> t.left, seg |-> t.seg, mixed |-> t.mixed]
  BY DEF Txns
<1> DEFINE l == IF t.left = 0 THEN 0 ELSE t.left - 1
<1>3. l \in 0..MaxSegs /\ (t.left > 0 => l = t.left - 1)
  BY <1>1
<1> DEFINE v == [t EXCEPT !.seg = t.seg + 1]
<1>4. v \in Txns /\ v.kind = t.kind /\ v.ready = t.ready /\ v.mixed = t.mixed /\ v.seg = t.seg + 1
  <2>1. t.seg + 1 \in Nat
    BY <1>1
  <2> HIDE DEF l
  <2> QED
    BY <2>1 DEF Txns
<1>5. Counted(t) = [v EXCEPT !.left = l]
  BY <1>2 DEF Counted
<1> HIDE DEF v, l
<1>6. [v EXCEPT !.left = l] \in Txns
  BY <1>3, <1>4 DEF Txns
<1>7. /\ [v EXCEPT !.left = l].kind = v.kind /\ [v EXCEPT !.left = l].ready = v.ready
      /\ [v EXCEPT !.left = l].mixed = v.mixed /\ [v EXCEPT !.left = l].seg = v.seg
      /\ [v EXCEPT !.left = l].left = l
  BY <1>4 DEF Txns
<1> QED
  BY <1>1, <1>3, <1>4, <1>5, <1>6, <1>7

\* The frame that goes out.
LEMMA FrameFacts ==
  ASSUME NEW t \in Txns, NEW c \in Channels
  PROVE  /\ FrameOf(c, t) \in Frames /\ FrameOf(c, t).cid = c
         /\ FrameOf(c, t).first <=> t.seg = 0
         /\ t.seg > 0 => FrameOf(c, t).num = t.seg - 1
         /\ FrameOf(c, t).mixed = t.mixed
<1>1. t.seg \in Nat /\ t.mixed \in BOOLEAN
  BY DEF Txns
<1>2. (IF t.seg < 2 THEN 0 ELSE t.seg - 1) \in Nat /\ (t.seg = 0) \in BOOLEAN
  BY <1>1
<1>3. FrameOf(c, t) \in Frames
  BY <1>1, <1>2 DEF FrameOf, Frames
<1>4. /\ FrameOf(c, t).cid = c /\ FrameOf(c, t).mixed = t.mixed
      /\ FrameOf(c, t).num = IF t.seg < 2 THEN 0 ELSE t.seg - 1
  BY DEF FrameOf
<1>5. FrameOf(c, t).first <=> t.seg = 0
  BY Zenon DEF FrameOf
<1>6. t.seg > 0 => FrameOf(c, t).num = t.seg - 1
  BY <1>1, <1>4
<1> QED
  BY <1>3, <1>4, <1>5, <1>6

\* The transactions when a frame of t, kept at "at", went out under channel c.
SentTxns(s, c, at, t) ==
    LET w == [s.txn EXCEPT ![at] = Counted(t)]
    IN  IF Counted(t).left = 0 /\ c \in 1..s.drawn /\ w[c] # None THEN [w EXCEPT ![c] = None] ELSE w

\* What q is when send_response_segment sent a frame of t from s, or had no URB to send it to.
SentFrom(q, s, c, at, t) ==
    /\ q \in Results /\ q.drawn = s.drawn
    /\ s.pending = <<>> =>
          q.pending = <<>> /\ q.sent = <<>> /\ q.txn = [s.txn EXCEPT ![at] = t]
    /\ s.pending # <<>> =>
          /\ q.pending = Tail(s.pending)
          /\ q.sent = <<[to |-> Head(s.pending), frame |-> FrameOf(c, t)]>>
          /\ q.txn = SentTxns(s, c, at, t)

LEMMA SendFacts ==
  ASSUME NEW s \in Results, s.sent = <<>>, NEW c \in Channels, NEW at \in Cids, NEW t \in Txns,
         NEW q, q = SendSegment(s, c, at, t)
  PROVE  SentFrom(q, s, c, at, t)
<1> USE ConstantFacts
<1>1. CASE s.pending = <<>>
  <2>1. q = Put(s, at, t)
    BY <1>1 DEF SendSegment
  <2> QED
    BY <1>1, <2>1, PutFacts DEF SentFrom
<1>2. CASE s.pending # <<>>
  <2> DEFINE u == Counted(t)
             m == [to |-> Head(s.pending), frame |-> FrameOf(c, t)]
             p == Put(s, at, u)
             o1 == [p EXCEPT !.pending = Tail(s.pending)]
             out == [o1 EXCEPT !.sent = Append(s.sent, m)]
             w == [s.txn EXCEPT ![at] = u]
  <2>1. u \in Txns
    BY CountedFacts
  <2>2. /\ p \in Results /\ p.pending = s.pending /\ p.drawn = s.drawn /\ p.txn = w
        /\ p.common = s.common /\ p.sent = s.sent /\ p.raised = s.raised
    <3> HIDE DEF u
    <3> QED
      BY <2>1, PutFacts
  <2>3. s.pending \in Seq(Waiting) /\ s.sent = <<>> /\ s.txn \in [Cids -> Txns \cup {None}]
        /\ s.drawn \in 0..MaxCids
    BY DEF Results
  <2>4. Tail(s.pending) \in Seq(Waiting) /\ Head(s.pending) \in Waiting
    BY <1>2, <2>3, HeadTailProperties
  <2>5. m \in [to : Waiting, frame : Frames] /\ Append(s.sent, m) = <<m>>
    BY <2>3, <2>4, FrameFacts
  <2>6. <<m>> \in Seq([to : Waiting, frame : Frames])
    <3> HIDE DEF m
    <3> QED
      BY <2>5
  <2>7. /\ out \in Results /\ out.pending = Tail(s.pending) /\ out.drawn = s.drawn
        /\ out.txn = w /\ out.common = s.common /\ out.sent = <<m>>
    <3> HIDE DEF p, m, w
    <3>1. /\ o1 \in Results /\ o1.pending = Tail(s.pending) /\ o1.drawn = s.drawn
          /\ o1.txn = w /\ o1.common = s.common
      BY <2>2, <2>4 DEF Results
    <3> HIDE DEF o1
    <3> QED
      BY <3>1, <2>5, <2>6 DEF Results
  <2>8. q = IF u.left > 0 \/ c = Broadcast THEN out
            ELSE IF c <= out.drawn /\ out.txn[c] # None THEN Put(out, c, None)
            ELSE Raise(out)
    <3>1. out = [p EXCEPT !.pending = Tail(@),
                       !.sent = Append(@, [to |-> Head(s.pending), frame |-> FrameOf(c, t)])]
      <4> HIDE DEF u
      <4> QED
        BY <2>2
    <3> QED
      BY <1>2, <3>1 DEF SendSegment, Counted
  <2>9. u.left \in 0..MaxSegs
    BY <2>1 DEF Txns
  <2>10. SentTxns(s, c, at, t) =
           IF u.left = 0 /\ c \in 1..s.drawn /\ w[c] # None THEN [w EXCEPT ![c] = None] ELSE w
    BY DEF SentTxns
  <2> HIDE DEF u, out, w, m
  <2>11. CASE u.left > 0 \/ c = Broadcast
    <3>1. c = Broadcast => c \notin 1..s.drawn
      BY <2>3, UsbIpAssumption
    <3>2. SentTxns(s, c, at, t) = w
      BY <2>9, <2>10, <2>11, <3>1
    <3> QED
      BY <1>2, <2>7, <2>8, <2>11, <3>2 DEF m, SentFrom
  <2>12. CASE ~(u.left > 0 \/ c = Broadcast)
    <3>1. u.left = 0 /\ c \in Cids /\ c \in Nat \ {0}
      BY <2>9, <2>12 DEF Cids
    <3>2. c <= s.drawn <=> c \in 1..s.drawn
      BY <2>3, <3>1
    <3>3. CASE c <= s.drawn /\ w[c] # None
      <4>1. q = Put(out, c, None)
        BY <2>7, <2>8, <2>12, <3>3
      <4>2. SentTxns(s, c, at, t) = [w EXCEPT ![c] = None]
        BY <2>10, <3>1, <3>2, <3>3
      <4>3. /\ Put(out, c, None) \in Results
            /\ Put(out, c, None).pending = out.pending /\ Put(out, c, None).drawn = out.drawn
            /\ Put(out, c, None).txn = [out.txn EXCEPT ![c] = None]
            /\ Put(out, c, None).common = out.common /\ Put(out, c, None).sent = out.sent
        BY <2>7, <3>1, PutFacts
      <4> QED
        BY <1>2, <2>7, <4>1, <4>2, <4>3 DEF m, SentFrom
    <3>4. CASE ~(c <= s.drawn /\ w[c] # None)
      <4>1. q = Raise(out)
        BY <2>7, <2>8, <2>12, <3>4
      <4>2. SentTxns(s, c, at, t) = w
        BY <2>10, <3>1, <3>2, <3>4
      <4> QED
        BY <1>2, <2>7, <4>1, <4>2, RaiseFacts DEF m, SentFrom
    <3> QED
      BY <3>3, <3>4
  <2> QED
    BY <2>11, <2>12
<1> QED
  BY <1>1, <1>2
----------------------------------------------------------------------------
(* What is sound to make of it. *)

\* The queue before a handler was p0: it sent nothing, or a frame to the first that waited.
QueueOf(q, p0) ==
    \/ q.pending = p0 /\ q.sent = <<>>
    \/ /\ p0 # <<>> /\ q.pending = Tail(p0)
       /\ \E f \in Frames : q.sent = <<[to |-> Head(p0), frame |-> f]>>

\* A frame fits what its client has seen, unless its channel is spoilt.
FrameFits(q, sp) ==
    LET f == q.sent[1].frame
    IN  q.sent # <<>> /\ f.cid \notin spoilt \cup sp =>
            f.first \/ (told[f.cid] # None /\ f.num = told[f.cid] /\ ~f.mixed)

\* What the client of d has seen afterwards.
After(q, d) ==
    LET f == q.sent[1].frame
    IN  IF q.sent = <<>> \/ f.cid # d THEN told[d]
        ELSE IF f.first THEN 0 ELSE IF told[d] = None THEN None ELSE told[d] + 1

\* The transaction of d is in step with its client, unless d is spoilt.
Good(q, d, sp) ==
    LET t == q.txn[d]
    IN  /\ d \notin 1..q.drawn => t = None
        /\ t # None /\ d \notin spoilt \cup sp =>
              /\ t.kind = "cbor" /\ ~t.ready => t.seg = 0
              /\ t.ready => /\ t.left > 0 /\ t.kind = "cbor" /\ ~t.mixed
                            /\ t.seg > 0 => After(q, d) = t.seg - 1

Sound(q, p0, sp) ==
    q \in Results /\ QueueOf(q, p0) /\ FrameFits(q, sp) /\ \A d \in Cids : Good(q, d, sp)

\* A transaction of c that may send its next frame.
Due(c, t, sp) ==
    c \notin spoilt \cup sp =>
        /\ t.left > 0 /\ ~t.mixed
        /\ t.ready <=> t.kind = "cbor"
        /\ t.seg > 0 => told[c] = t.seg - 1

\* Nothing else about a channel changes when its transaction does not and nothing was sent.
LEMMA GoodSame ==
  ASSUME NEW s, NEW q, NEW d, NEW sp, Good(s, d, sp), s.sent = <<>>, q.txn[d] = s.txn[d],
         s.drawn = q.drawn,
         q.sent = <<>> \/ q.sent[1].frame.cid # d
  PROVE  Good(q, d, sp)
<1>1. After(q, d) = told[d] /\ After(s, d) = told[d]
  BY DEF After
<1> QED
  BY <1>1 DEF Good

\* A frame of a transaction that is due leaves it in step.
LEMMA SendSound ==
  ASSUME told \in [Channels -> Nat \cup {None}], NEW s, NEW p0, NEW sp, Sound(s, p0, sp),
         s.sent = <<>>,
         NEW c \in Cids, c \in 1..s.drawn, NEW t \in Txns, Due(c, t, sp),
         NEW q, q = SendSegment(s, c, c, t)
  PROVE  Sound(q, p0, sp)
<1>1. /\ s \in Results /\ s.pending = p0 /\ s.txn \in [Cids -> Txns \cup {None}]
      /\ s.pending \in Seq(Waiting) /\ c \in Channels /\ t # None
      /\ t.seg \in Nat /\ t.left \in Nat
  BY ConstantFacts DEF Sound, QueueOf, Results, Txns
<1>4. /\ q \in Results /\ q.drawn = s.drawn
      /\ s.pending = <<>> =>
            q.pending = <<>> /\ q.sent = <<>> /\ q.txn = [s.txn EXCEPT ![c] = t]
      /\ s.pending # <<>> =>
            /\ q.pending = Tail(s.pending)
            /\ q.sent = <<[to |-> Head(s.pending), frame |-> FrameOf(c, t)]>>
            /\ q.txn = SentTxns(s, c, c, t)
  <2>1. SentFrom(q, s, c, c, t)
    BY <1>1, SendFacts
  <2> QED
    BY <2>1 DEF SentFrom
<1> USE ConstantFacts
<1>2. CASE s.pending = <<>>
  <2>1. /\ q \in Results /\ q.drawn = s.drawn /\ q.pending = p0 /\ q.sent = <<>>
        /\ q.txn = [s.txn EXCEPT ![c] = t]
    BY <1>1, <1>4, <1>2
  <2>2. After(q, c) = told[c]
    BY <2>1 DEF After
  <2>3. Good(q, c, sp)
    BY <1>1, <2>1, <2>2 DEF Good, Due
  <2>4. ASSUME NEW d \in Cids, d # c PROVE Good(q, d, sp)
    <3>1. q.txn[d] = s.txn[d] /\ Good(s, d, sp)
      BY <1>1, <2>1, <2>4 DEF Sound
    <3> QED
      BY <2>1, <3>1, GoodSame
  <2>5. QueueOf(q, p0) /\ FrameFits(q, sp)
    BY <2>1 DEF QueueOf, FrameFits
  <2> QED
    BY <2>1, <2>3, <2>4, <2>5 DEF Sound
<1>3. CASE s.pending # <<>>
  <2> DEFINE f == FrameOf(c, t)
             u == Counted(t)
  <2>1. /\ q \in Results /\ q.drawn = s.drawn /\ q.pending = Tail(p0)
        /\ q.sent = <<[to |-> Head(p0), frame |-> f]>> /\ q.txn = SentTxns(s, c, c, t)
    BY <1>1, <1>4, <1>3
  <2>2. /\ f \in Frames /\ f.cid = c /\ (f.first <=> t.seg = 0) /\ (t.seg > 0 => f.num = t.seg - 1)
        /\ f.mixed = t.mixed
    BY <1>1, FrameFacts
  <2>3. /\ u \in Txns /\ u.kind = t.kind /\ u.ready = t.ready /\ u.mixed = t.mixed
        /\ u.seg = t.seg + 1 /\ u.left \in Nat /\ u # None
    BY CountedFacts DEF Txns
  <2> HIDE DEF f, u
  <2>4. q.sent # <<>> /\ q.sent[1].frame = f
    BY <2>1
  <2>5. SentTxns(s, c, c, t) =
          IF u.left = 0 THEN [s.txn EXCEPT ![c] = None] ELSE [s.txn EXCEPT ![c] = u]
    <3> DEFINE w == [s.txn EXCEPT ![c] = u]
    <3>1. w[c] = u /\ [w EXCEPT ![c] = None] = [s.txn EXCEPT ![c] = None]
      BY <1>1
    <3> HIDE DEF w
    <3>2. SentTxns(s, c, c, t) =
            IF u.left = 0 /\ c \in 1..s.drawn /\ w[c] # None THEN [w EXCEPT ![c] = None] ELSE w
      BY DEF SentTxns, w, u
    <3>3. CASE u.left = 0
      BY <2>3, <3>1, <3>2, <3>3
    <3>4. CASE u.left # 0
      BY <2>3, <3>1, <3>2, <3>4 DEF w
    <3> QED
      BY <3>3, <3>4
  <2>6. QueueOf(q, p0)
    BY <1>1, <1>3, <2>1, <2>2 DEF QueueOf
  <2>7. c \notin spoilt \cup sp => ~t.mixed /\ (t.seg > 0 => told[c] = t.seg - 1 /\ told[c] \in Nat)
    BY <1>1 DEF Due
  <2>8. FrameFits(q, sp)
    <3>1. CASE t.seg = 0
      BY <2>2, <2>4, <3>1 DEF FrameFits
    <3>2. CASE t.seg > 0 /\ c \notin spoilt \cup sp
      <4>1. told[c] # None /\ f.num = told[c] /\ ~f.mixed
        BY <2>2, <2>7, <3>2
      <4> QED
        BY <2>2, <2>4, <4>1 DEF FrameFits
    <3>3. CASE c \in spoilt \cup sp
      BY <2>2, <2>4, <3>3 DEF FrameFits
    <3> QED
      BY <1>1, <3>1, <3>2, <3>3
  <2>9. c \notin spoilt \cup sp => After(q, c) = t.seg
    <3> SUFFICES ASSUME c \notin spoilt \cup sp PROVE After(q, c) = t.seg
      OBVIOUS
    <3>1. After(q, c) = IF f.first THEN 0 ELSE IF told[c] = None THEN None ELSE told[c] + 1
      BY <2>2, <2>4 DEF After
    <3>2. CASE t.seg = 0
      BY <2>2, <3>1, <3>2
    <3>3. CASE t.seg > 0
      <4>1. told[c] # None /\ told[c] + 1 = t.seg
        BY <1>1, <2>7, <3>3
      <4> QED
        BY <2>2, <3>1, <3>3, <4>1
    <3> QED
      BY <1>1, <3>2, <3>3
  <2>10. Good(q, c, sp)
    <3>1. CASE u.left = 0
      <4>1. q.txn[c] = None
        BY <1>1, <2>1, <2>5, <3>1
      <4> QED
        BY <4>1 DEF Good
    <3>2. CASE u.left # 0
      <4>1. q.txn[c] = u /\ u.left > 0 /\ u.seg - 1 = t.seg
        BY <1>1, <2>1, <2>3, <2>5, <3>2 DEF Due
      <4>2. c \notin spoilt \cup sp => (~u.ready => u.kind # "cbor")
        BY <2>3 DEF Due
      <4>3. u.ready /\ c \notin spoilt \cup sp => u.kind = "cbor" /\ ~u.mixed
        BY <2>3 DEF Due
      <4> QED
        BY <2>1, <2>9, <4>1, <4>2, <4>3 DEF Good
    <3> QED
      BY <3>1, <3>2
  <2>11. ASSUME NEW d \in Cids, d # c PROVE Good(q, d, sp)
    <3>1. q.txn[d] = s.txn[d] /\ Good(s, d, sp)
      BY <1>1, <2>1, <2>5, <2>11 DEF Sound
    <3> QED
      BY <2>1, <2>2, <2>4, <2>11, <3>1, GoodSame
  <2> QED
    BY <2>1, <2>6, <2>8, <2>10, <2>11 DEF Sound
<1> QED
  BY <1>2, <1>3

\* s and q differ at most in what was buffered of the request on c.
Touched(s, q, c) ==
    /\ q \in Results /\ q.pending = s.pending /\ q.drawn = s.drawn /\ q.sent = s.sent
    /\ \A d \in Cids : d # c => q.txn[d] = s.txn[d]
    /\ s.txn[c] # None /\ q.txn[c] # None
    /\ q.txn[c].kind = s.txn[c].kind /\ q.txn[c].ready = s.txn[c].ready
    /\ q.txn[c].left = s.txn[c].left /\ q.txn[c].seg = s.txn[c].seg
    /\ q.txn[c].mixed = s.txn[c].mixed

LEMMA TouchedSound ==
  ASSUME NEW s, NEW q, NEW c \in Cids, NEW p0, NEW sp, Sound(s, p0, sp), s.sent = <<>>,
         Touched(s, q, c)
  PROVE  Sound(q, p0, sp)
<1>1. /\ q \in Results /\ q.pending = s.pending /\ q.drawn = s.drawn /\ q.sent = <<>>
      /\ s.txn[c] # None /\ q.txn[c] # None
  BY DEF Touched
<1>2. QueueOf(q, p0) /\ FrameFits(q, sp)
  BY <1>1 DEF Sound, QueueOf, FrameFits
<1>3. Good(q, c, sp)
  <2>1. Good(s, c, sp) /\ After(q, c) = told[c] /\ After(s, c) = told[c]
    BY <1>1 DEF Sound, After
  <2>2. /\ q.txn[c].kind = s.txn[c].kind /\ q.txn[c].ready = s.txn[c].ready
        /\ q.txn[c].left = s.txn[c].left /\ q.txn[c].seg = s.txn[c].seg
        /\ q.txn[c].mixed = s.txn[c].mixed
    BY DEF Touched
  <2> QED
    BY <1>1, <2>1, <2>2 DEF Good
<1>4. ASSUME NEW d \in Cids, d # c PROVE Good(q, d, sp)
  <2>1. q.txn[d] = s.txn[d] /\ Good(s, d, sp)
    BY <1>4 DEF Sound, Touched
  <2> QED
    BY <1>1, <2>1, GoodSame
<1> QED
  BY <1>1, <1>2, <1>3, <1>4 DEF Sound

\* An exception leaves what is there.
LEMMA RaiseSound ==
  ASSUME NEW s, NEW p0, NEW sp, Sound(s, p0, sp)
  PROVE  Sound(Raise(s), p0, sp)
<1>1. /\ Raise(s) \in Results /\ Raise(s).pending = s.pending /\ Raise(s).drawn = s.drawn
      /\ Raise(s).txn = s.txn /\ Raise(s).sent = s.sent
  BY RaiseFacts DEF Sound
<1>2. QueueOf(Raise(s), p0) /\ FrameFits(Raise(s), sp)
  BY <1>1 DEF Sound, QueueOf, FrameFits
<1>3. ASSUME NEW d \in Cids PROVE Good(Raise(s), d, sp)
  <2>1. Good(s, d, sp) /\ After(Raise(s), d) = After(s, d)
    BY <1>1 DEF Sound, After
  <2> QED
    BY <1>1, <2>1 DEF Good
<1> QED
  BY <1>1, <1>2, <1>3 DEF Sound

\* A transaction that is not ready and has sent nothing takes the place of any.
LEMMA PutSound ==
  ASSUME NEW s, NEW p0, NEW sp, Sound(s, p0, sp), s.sent = <<>>,
         NEW c \in Cids, c \in 1..s.drawn, NEW t \in Txns, ~t.ready, t.seg = 0
  PROVE  Sound(Put(s, c, t), p0, sp)
<1> DEFINE q == Put(s, c, t)
<1>1. s \in Results /\ s.txn \in [Cids -> Txns \cup {None}] /\ t # None
  BY TransactionAssumption DEF Sound, Results
<1>2. /\ q \in Results /\ q.pending = s.pending /\ q.drawn = s.drawn
      /\ q.txn = [s.txn EXCEPT ![c] = t] /\ q.sent = <<>>
  BY <1>1, PutFacts
<1> HIDE DEF q
<1>3. QueueOf(q, p0) /\ FrameFits(q, sp)
  BY <1>2 DEF Sound, QueueOf, FrameFits
<1>4. Good(q, c, sp)
  BY <1>1, <1>2 DEF Good
<1>5. ASSUME NEW d \in Cids, d # c PROVE Good(q, d, sp)
  <2>1. q.txn[d] = s.txn[d] /\ Good(s, d, sp)
    BY <1>1, <1>2, <1>5 DEF Sound
  <2> QED
    BY <1>2, <2>1, GoodSame
<1> QED
  BY <1>2, <1>3, <1>4, <1>5 DEF Sound, q

\* A command that runs has sent nothing, unless its channel is spoilt.
LEMMA RunSound ==
  ASSUME told \in [Channels -> Nat \cup {None}], NEW s, NEW p0, NEW sp, Sound(s, p0, sp),
         s.sent = <<>>,
         NEW c \in Cids, c \in 1..s.drawn, NEW t \in Txns,
         c \notin spoilt \cup sp => t.kind = "cbor" /\ t.seg = 0, NEW q \in Run(s, c, t)
  PROVE  Sound(q, p0, sp)
<1> DEFINE v(n) == [t EXCEPT !.ready = TRUE, !.left = n, !.mixed = t.seg > 0]
<1>1. PICK n \in 1..MaxSegs : q = SendSegment(s, c, c, v(n))
  <2>1. 1 \in 1..MaxSegs
    BY ConstantFacts
  <2> QED
    BY <2>1 DEF Run
<1>2. t.seg \in Nat /\ n \in 0..MaxSegs /\ n > 0
  BY ConstantFacts DEF Txns
<1> DEFINE w == [t EXCEPT !.ready = TRUE]
           x == [w EXCEPT !.left = n]
<1>3. w \in Txns /\ w.ready /\ w.kind = t.kind /\ w.seg = t.seg
  BY DEF Txns
<1>4. x \in Txns /\ x.ready /\ x.kind = t.kind /\ x.seg = t.seg /\ x.left = n
  <2> HIDE DEF w
  <2> QED
    BY <1>2, <1>3 DEF Txns
<1>5. v(n) = [x EXCEPT !.mixed = t.seg > 0]
  OBVIOUS
<1>6. (t.seg > 0) \in BOOLEAN /\ (t.seg = 0 => (t.seg > 0) = FALSE)
  BY <1>2
<1> DEFINE y == [x EXCEPT !.mixed = t.seg > 0]
<1>7. /\ y \in Txns /\ y.ready /\ y.kind = t.kind /\ y.seg = t.seg /\ y.left = n
      /\ y.mixed = (t.seg > 0)
  <2> DEFINE b == t.seg > 0
  <2>1. b \in BOOLEAN
    BY <1>6
  <2> HIDE DEF x, b
  <2>2. /\ [x EXCEPT !.mixed = b] \in Txns /\ [x EXCEPT !.mixed = b].ready
        /\ [x EXCEPT !.mixed = b].kind = t.kind /\ [x EXCEPT !.mixed = b].seg = t.seg
        /\ [x EXCEPT !.mixed = b].left = n /\ [x EXCEPT !.mixed = b].mixed = b
    BY <1>4, <2>1 DEF Txns
  <2> QED
    BY <2>2 DEF b
<1> HIDE DEF v, x, y
<1>8. v(n) = y
  BY <1>5 DEF y
<1>9. c \notin spoilt \cup sp => ~y.mixed /\ t.seg = 0
  BY <1>6, <1>7
<1>10. Due(c, y, sp)
  BY <1>2, <1>7, <1>9 DEF Due
<1>11. q = SendSegment(s, c, c, y)
  BY <1>1, <1>8
<1> QED
  BY <1>7, <1>10, <1>11, SendSound
----------------------------------------------------------------------------
(* The handlers. *)

\* There is a frame to expect next, and it is at most one more than there can be.
LEMMA FollowingFacts ==
  ASSUME NEW n \in Numbers, NEW b \in SUBSET Numbers
  PROVE  Following(n, b) \in 0..MaxSegs
<1> USE ConstantFacts
<1>1. n \in Nat /\ n + 1 <= MaxSegs /\ MaxSegs \in Nat /\ MaxSegs \notin b
  BY DEF Numbers
<1> DEFINE T == {k \in Nat : n < k /\ k \notin b}
<1>2. T \in SUBSET Nat /\ MaxSegs \in T
  BY <1>1
<1>3. PICK m \in T : \A k \in T : m <= k
  <2> HIDE DEF T
  <2> QED
    BY <1>2, LeastNumber
<1>4. m \in Nat /\ n < m /\ m \notin b /\ m <= MaxSegs
  BY <1>2, <1>3
<1>5. \A k \in (n + 1)..(m - 1) : k \in b
  <2> SUFFICES ASSUME NEW k \in (n + 1)..(m - 1), k \notin b PROVE FALSE
    OBVIOUS
  <2>1. k \in Nat /\ n < k /\ k < m
    BY <1>1, <1>4
  <2>2. k \in T
    BY <2>1
  <2>3. m <= k
    BY <1>3, <2>2
  <2> QED
    BY <1>4, <2>1, <2>3
<1>6. m \in (n + 1)..(n + 1 + MaxSegs)
  BY <1>1, <1>4
<1> DEFINE f == Following(n, b)
<1>7. /\ f \in (n + 1)..(n + 1 + MaxSegs)
      /\ f \notin b /\ \A k \in (n + 1)..(f - 1) : k \in b
  BY <1>4, <1>5, <1>6 DEF Following
<1> HIDE DEF f
<1>8. f \in Nat /\ f <= MaxSegs
  <2>1. f \in Nat /\ n < f
    BY <1>1, <1>7
  <2>2. ~(MaxSegs < f)
    <3> SUFFICES ASSUME MaxSegs < f PROVE FALSE
      OBVIOUS
    <3>1. MaxSegs \in (n + 1)..(f - 1)
      BY <1>1, <2>1
    <3> QED
      BY <1>1, <1>7, <3>1
  <2> QED
    BY <1>1, <2>1, <2>2
<1> QED
  BY <1>1, <1>8 DEF f

\* What was buffered changes nothing else.
LEMMA BufferTouches ==
  ASSUME NEW s \in Results, NEW c \in Cids, s.txn[c] # None, NEW b \in SUBSET Numbers
  PROVE  Touched(s, Buffer(s, c, b), c) /\ Buffered(s, c) \in SUBSET Numbers
<1>1. s.txn[c] \in Txns /\ s.txn \in [Cids -> Txns \cup {None}] /\ s.common \in SUBSET Numbers
  BY DEF Results
<1>2. Buffered(s, c) \in SUBSET Numbers
  BY <1>1 DEF Buffered, Txns
<1>3. CASE s.txn[c].kind = "direct"
  <2> DEFINE q == [s EXCEPT !.common = b]
  <2>1. q \in Results /\ q.pending = s.pending /\ q.drawn = s.drawn /\ q.txn = s.txn
          /\ q.sent = s.sent
    BY DEF Results
  <2> HIDE DEF q
  <2>2. Touched(s, q, c)
    BY <2>1 DEF Touched
  <2> QED
    BY <1>2, <1>3, <2>2 DEF Buffer, q
<1>4. CASE s.txn[c].kind # "direct"
  <2> DEFINE t == [s.txn[c] EXCEPT !.buf = b]
             q == Put(s, c, t)
  <2>1. /\ t \in Txns /\ t.kind = s.txn[c].kind /\ t.ready = s.txn[c].ready
        /\ t.left = s.txn[c].left /\ t.seg = s.txn[c].seg /\ t.mixed = s.txn[c].mixed
    BY <1>1 DEF Txns
  <2>2. Buffer(s, c, b) = q
    BY <1>4 DEF Buffer, Put
  <2> HIDE DEF t
  <2>3. /\ q \in Results /\ q.pending = s.pending /\ q.drawn = s.drawn
        /\ q.txn = [s.txn EXCEPT ![c] = t] /\ q.sent = s.sent
    BY <2>1, PutFacts
  <2> HIDE DEF q
  <2>4. q.txn[c] = t /\ t # None /\ \A d \in Cids : d # c => q.txn[d] = s.txn[d]
    BY <1>1, <2>1, <2>3, TransactionAssumption
  <2>5. Touched(s, q, c)
    BY <2>1, <2>3, <2>4 DEF Touched
  <2> QED
    BY <1>2, <2>2, <2>5
<1> QED
  BY <1>3, <1>4

\* Nor does the frame that is expected next.
LEMMA NextTouches ==
  ASSUME NEW s \in Results, NEW c \in Cids, s.txn[c] # None, NEW m \in 0..MaxSegs
  PROVE  Touched(s, [s EXCEPT !.txn[c].next = m], c)
<1>1. s.txn[c] \in Txns /\ s.txn \in [Cids -> Txns \cup {None}]
  BY DEF Results
<1> DEFINE t == [s.txn[c] EXCEPT !.next = m]
           q == Put(s, c, t)
<1>2. /\ t \in Txns /\ t.kind = s.txn[c].kind /\ t.ready = s.txn[c].ready
      /\ t.left = s.txn[c].left /\ t.seg = s.txn[c].seg /\ t.mixed = s.txn[c].mixed
  BY <1>1 DEF Txns
<1>3. [s EXCEPT !.txn[c].next = m] = q
  BY DEF Put
<1> HIDE DEF t
<1>4. /\ q \in Results /\ q.pending = s.pending /\ q.drawn = s.drawn
      /\ q.txn = [s.txn EXCEPT ![c] = t] /\ q.sent = s.sent
  BY <1>2, PutFacts
<1> HIDE DEF q
<1>5. q.txn[c] = t /\ t # None /\ \A d \in Cids : d # c => q.txn[d] = s.txn[d]
  BY <1>1, <1>2, <1>4, TransactionAssumption
<1>6. Touched(s, q, c)
  BY <1>2, <1>4, <1>5 DEF Touched
<1> QED
  BY <1>3, <1>6

\* A continuation frame keeps to what is sound, where one that a request does not wait for
\* spoils its channel.
LEMMA AppendedSound ==
  ASSUME told \in [Channels -> Nat \cup {None}], NEW s, NEW p0, NEW sp, Sound(s, p0, sp),
         s.sent = <<>>,
         NEW c \in Cids, c \in 1..s.drawn, s.txn[c] # None, NEW n \in Numbers,
         c \notin spoilt \cup sp => s.txn[c].kind = "cbor" /\ ~s.txn[c].ready,
         NEW q \in Appended(s, c, n)
  PROVE  Sound(q, p0, sp) /\ (n # s.txn[c].next => q.sent = <<>> /\ (q = s \/ Touched(s, q, c)))
<1> DEFINE b == Buffered(s, c)
           m == Following(n, b)
           s1 == [s EXCEPT !.txn[c].next = m]
           b2 == b \ (n + 1)..(m - 1)
           s2 == Buffer(s1, c, b2)
           r == Buffer(s, c, b \cup {n})
<1>1. s \in Results /\ s.txn[c] \in Txns /\ s.txn[c].next \in 0..MaxSegs /\ n \in Nat
  BY ConstantFacts DEF Sound, Results, Txns, Numbers
<1>2. b \in SUBSET Numbers
  BY <1>1, BufferTouches
<1>3. q \in IF n > s.txn[c].next THEN {r}
            ELSE IF n < s.txn[c].next THEN {s}
            ELSE IF m < s.txn[c].need THEN {s2}
            ELSE Run(s2, c, s2.txn[c]) \cup (IF s.txn[c].kind = "direct" THEN {} ELSE {Raise(s2)})
  BY DEF Appended
<1>4. CASE n > s.txn[c].next
  <2>1. q = r
    BY <1>3, <1>4
  <2>2. b \cup {n} \in SUBSET Numbers
    BY <1>2
  <2>3. Touched(s, q, c)
    <3> HIDE DEF b
    <3> QED
      BY <1>1, <2>1, <2>2, BufferTouches
  <2>4. Sound(q, p0, sp) /\ q.sent = <<>>
    BY <2>3, TouchedSound DEF Touched
  <2> QED
    BY <2>3, <2>4
<1>5. CASE n < s.txn[c].next
  <2>1. q = s
    BY <1>1, <1>3, <1>5
  <2> QED
    BY <2>1
<1>6. CASE n = s.txn[c].next
  <2>1. m \in 0..MaxSegs
    <3> HIDE DEF b
    <3> QED
      BY <1>2, FollowingFacts
  <2> HIDE DEF b, m
  <2>2. Touched(s, s1, c)
    BY <1>1, <2>1, NextTouches
  <2> HIDE DEF s1
  <2>3. s1 \in Results /\ s1.txn[c] # None /\ b2 \in SUBSET Numbers
    BY <1>2, <2>2 DEF Touched
  <2> HIDE DEF b2
  <2>4. Touched(s1, s2, c)
    BY <2>3, BufferTouches
  <2> HIDE DEF s2
  <2>5. Sound(s2, p0, sp) /\ s2.sent = <<>> /\ s2.drawn = s.drawn
    <3>1. Sound(s1, p0, sp) /\ s1.sent = <<>> /\ s1.drawn = s.drawn
      BY <2>2, TouchedSound DEF Touched
    <3> QED
      BY <2>4, <3>1, TouchedSound DEF Touched
  <2>6. /\ s2.txn[c] \in Txns /\ s2.txn[c].kind = s.txn[c].kind /\ s2.txn[c].ready = s.txn[c].ready
        /\ s2.txn[c].seg = s.txn[c].seg
    <3>1. /\ s2.txn[c] # None /\ s2.txn[c].kind = s1.txn[c].kind /\ s2.txn[c].ready = s1.txn[c].ready
          /\ s2.txn[c].seg = s1.txn[c].seg /\ s2 \in Results
      BY <2>4 DEF Touched
    <3>2. s1.txn[c].kind = s.txn[c].kind /\ s1.txn[c].ready = s.txn[c].ready
            /\ s1.txn[c].seg = s.txn[c].seg
      BY <2>2 DEF Touched
    <3>3. s2.txn \in [Cids -> Txns \cup {None}]
      BY <3>1 DEF Results
    <3> QED
      BY <3>1, <3>2, <3>3
  <2>7. ~(n > s.txn[c].next) /\ ~(n < s.txn[c].next)
    BY <1>1, <1>6
  <2>8. CASE q = s2 \/ q = Raise(s2)
    BY <1>6, <2>5, <2>8, RaiseSound
  <2>9. CASE q \in Run(s2, c, s2.txn[c])
    <3>1. c \notin spoilt \cup sp => s.txn[c].kind = "cbor" /\ s.txn[c].seg = 0
      BY DEF Sound, Good
    <3>2. Sound(q, p0, sp)
      BY <2>5, <2>6, <2>9, <3>1, RunSound
    <3> QED
      BY <1>6, <3>2
  <2>10. q = s2 \/ q = Raise(s2) \/ q \in Run(s2, c, s2.txn[c])
    BY <1>3, <2>7
  <2> QED
    BY <2>8, <2>9, <2>10
<1> QED
  BY <1>1, <1>4, <1>5, <1>6

\* Every handler starts from what is there, with the queue p.
StartOf(s, p) ==
    s \in Results /\ s.pending = p /\ s.drawn = drawn /\ s.txn = txn /\ s.sent = <<>>

LEMMA NowFacts ==
  ASSUME TypeOK
  PROVE  /\ StartOf(Now, pending)
         /\ \A w \in Waiting : LET p == Append(pending, w) IN StartOf([Now EXCEPT !.pending = p], p)
<1>1. Now \in Results
  BY DEF TypeOK, Now, Results, Waiting
<1>2. StartOf(Now, pending)
  BY <1>1 DEF Now, StartOf
<1>3. ASSUME NEW w \in Waiting
      PROVE  LET p == Append(pending, w) IN StartOf([Now EXCEPT !.pending = p], p)
  <2> DEFINE p == Append(pending, w)
  <2>1. p \in Seq(Waiting)
    BY DEF TypeOK, Waiting
  <2> HIDE DEF p
  <2>2. [Now EXCEPT !.pending = p] \in Results
    BY <1>1, <2>1 DEF Results
  <2>3. StartOf([Now EXCEPT !.pending = p], p)
    BY <2>2 DEF Now, StartOf
  <2> QED
    BY <2>3 DEF p
<1> QED
  BY <1>2, <1>3

LEMMA StartSound ==
  ASSUME UsbInv, NEW s, NEW p, NEW sp, StartOf(s, p)
  PROVE  Sound(s, p, sp)
<1>1. QueueOf(s, p) /\ FrameFits(s, sp)
  BY DEF StartOf, QueueOf, FrameFits
<1>2. ASSUME NEW d \in Cids PROVE Good(s, d, sp)
  <2>1. d \notin Allocated => txn[d] = None
    BY DEF UsbInv, TypeOK
  <2>2. Has(d) /\ d \notin spoilt =>
          /\ txn[d].kind = "cbor" /\ ~txn[d].ready => txn[d].seg = 0
          /\ txn[d].ready => /\ txn[d].left > 0 /\ txn[d].kind = "cbor" /\ ~txn[d].mixed
                             /\ txn[d].seg > 0 => told[d] = txn[d].seg - 1
    BY DEF UsbInv, InStep
  <2>3. s.drawn = drawn /\ s.txn = txn /\ After(s, d) = told[d]
    BY DEF StartOf, After
  <2>4. Has(d) <=> txn[d] # None
    BY <2>1 DEF Has
  <2> QED
    BY <2>1, <2>2, <2>3, <2>4 DEF Good, Allocated
<1> QED
  BY <1>1, <1>2 DEF Sound, StartOf

\* Commands of the two kinds as they are made.
LEMMA CommandFacts ==
  ASSUME NEW kind \in {"direct", "cbor"}, NEW need \in 0..MaxSegs, NEW left \in 0..MaxSegs
  PROVE  LET t == Command(kind, need, left) IN
         t \in Txns /\ t.kind = kind /\ ~t.ready /\ t.left = left /\ t.seg = 0 /\ ~t.mixed
  BY ConstantFacts DEF Command, Txns

\* An empty command may send its reply.
LEMMA DirectDue ==
  ASSUME NEW c, NEW sp
  PROVE  Command("direct", 0, 1) \in Txns /\ Due(c, Command("direct", 0, 1), sp)
<1> DEFINE t == Command("direct", 0, 1)
<1>1. 0 \in 0..MaxSegs /\ 1 \in 0..MaxSegs
  BY ConstantFacts
<1>2. t \in Txns /\ t.kind = "direct" /\ ~t.ready /\ t.left = 1 /\ t.seg = 0 /\ ~t.mixed
  BY <1>1, CommandFacts
<1> HIDE DEF t
<1>3. Due(c, t, sp)
  BY <1>2 DEF Due
<1> QED
  BY <1>2, <1>3 DEF t

LEMMA CborSound ==
  ASSUME UsbInv, NEW c \in Channels, NEW need \in 0..MaxSegs, NEW q \in CborCommand(Now, c, need)
  PROVE  Sound(q, pending, {})
<1>1. StartOf(Now, pending) /\ Sound(Now, pending, {}) /\ told \in [Channels -> Nat \cup {None}]
  BY NowFacts, StartSound DEF UsbInv, TypeOK
<1>2. CASE q = Raise(Now)
  BY <1>1, <1>2, RaiseSound
<1>3. CASE q # Raise(Now)
  <2> DEFINE t == Command("cbor", need, 0)
  <2>1. 0 \in 0..MaxSegs
    BY ConstantFacts
  <2>2. t \in Txns /\ t.kind = "cbor" /\ ~t.ready /\ t.seg = 0
    BY <2>1, CommandFacts
  <2>3. /\ c \in Allocated
        /\ (need = 0 /\ q \in Run(Now, c, t)) \/ q = Put(Now, c, t)
    BY <1>3 DEF CborCommand
  <2> HIDE DEF t
  <2>4. c \in Cids /\ c \in 1..Now.drawn /\ Now.sent = <<>>
    BY <1>1, <2>3, ConstantFacts DEF UsbInv, TypeOK, Allocated, StartOf, Cids
  <2>5. CASE q = Put(Now, c, t)
    BY <1>1, <2>2, <2>4, <2>5, PutSound
  <2>6. CASE q \in Run(Now, c, t)
    BY <1>1, <2>2, <2>4, <2>6, RunSound
  <2> QED
    BY <2>3, <2>5, <2>6
<1> QED
  BY <1>2, <1>3

LEMMA MsgSound ==
  ASSUME UsbInv, NEW c \in Channels, NEW v \in BOOLEAN, NEW q \in MsgCommand(Now, c, v)
  PROVE  Sound(q, pending, {})
<1>1. StartOf(Now, pending) /\ Sound(Now, pending, {}) /\ told \in [Channels -> Nat \cup {None}]
  BY NowFacts, StartSound DEF UsbInv, TypeOK
<1>2. CASE q = Raise(Now) \/ q = Now
  BY <1>1, <1>2, RaiseSound
<1>3. CASE q # Raise(Now) /\ q # Now
  <2> DEFINE t == Command("direct", 0, 1)
  <2>1. c \in Allocated /\ q = SendSegment(Now, c, c, t)
    BY <1>3 DEF MsgCommand
  <2>2. t \in Txns /\ Due(c, t, {})
    BY DirectDue
  <2>3. c \in Cids /\ c \in 1..Now.drawn /\ Now.sent = <<>>
    BY <1>1, <2>1, ConstantFacts DEF UsbInv, TypeOK, Allocated, StartOf, Cids
  <2> HIDE DEF t
  <2> QED
    BY <1>1, <2>1, <2>2, <2>3, SendSound
<1> QED
  BY <1>2, <1>3

LEMMA SequenceSound ==
  ASSUME UsbInv, NEW c \in Cids, NEW n \in Numbers, NEW q \in Sequence(Now, c, n), NEW sp,
         Has(c) /\ (txn[c].kind = "direct" \/ txn[c].ready) => c \in sp
  PROVE  Sound(q, pending, sp)
<1>1. StartOf(Now, pending) /\ Sound(Now, pending, sp) /\ told \in [Channels -> Nat \cup {None}]
  BY NowFacts, StartSound DEF UsbInv, TypeOK
<1>2. CASE ~Has(c)
  <2>1. q = Now
    BY <1>2 DEF Sequence
  <2> QED
    BY <1>1, <2>1
<1>3. CASE Has(c)
  <2>1. /\ Now.sent = <<>> /\ Now.txn = txn /\ c \in 1..Now.drawn /\ txn[c] # None /\ txn[c] \in Txns
        /\ Now \in Results
    BY <1>1, <1>3 DEF Has, Allocated, StartOf, UsbInv, TypeOK
  <2>2. c \notin spoilt \cup sp => txn[c].kind = "cbor" /\ ~txn[c].ready
    BY <1>3, <2>1 DEF Txns
  <2>3. CASE n # txn[c].next /\ txn[c].ready
    <3>1. PICK a \in Appended(Now, c, n) : q = SendSegment(a, c, c, a.txn[c])
      BY <1>3, <2>3 DEF Sequence
    <3>2. Sound(a, pending, sp) /\ a.sent = <<>> /\ (a = Now \/ Touched(Now, a, c))
      BY <1>1, <2>1, <2>2, <2>3, AppendedSound
    <3>3. a.drawn = Now.drawn /\ a.txn[c] # None /\ a.txn[c].ready
      BY <2>1, <2>3, <3>2 DEF Touched
    <3>4. a.txn[c] \in Txns
      BY <3>2, <3>3 DEF Sound, Results
    <3>5. Due(c, a.txn[c], sp)
      <4>1. c \in sp
        BY <1>3, <2>3
      <4> QED
        BY <4>1 DEF Due
    <3> QED
      BY <1>1, <2>1, <3>1, <3>2, <3>3, <3>4, <3>5, SendSound
  <2>4. CASE ~(n # txn[c].next /\ txn[c].ready)
    <3>1. q \in Appended(Now, c, n)
      BY <1>3, <2>4 DEF Sequence
    <3> QED
      BY <1>1, <2>1, <2>2, <3>1, AppendedSound
  <2> QED
    BY <2>3, <2>4
<1> QED
  BY <1>2, <1>3

\* An empty command kept at "new" answers under channel c, which its reply then takes along.
LEMMA AnswerSound ==
  ASSUME NEW r, NEW p0, NEW sp, Sound(r, p0, sp), r.sent = <<>>, NEW c \in Channels,
         NEW new \in Cids, new \in 1..r.drawn,
         NEW t \in Txns, t.kind = "direct", ~t.ready, t.left = 1, t.seg = 0,
         NEW q, q = SendSegment(r, c, new, t)
  PROVE  Sound(q, p0, sp)
<1>1. r \in Results /\ r.pending = p0 /\ r.txn \in [Cids -> Txns \cup {None}]
  BY DEF Sound, QueueOf, Results
<1>2. /\ q \in Results /\ q.drawn = r.drawn
      /\ r.pending # <<>> =>
            /\ q.pending = Tail(r.pending)
            /\ q.sent = <<[to |-> Head(r.pending), frame |-> FrameOf(c, t)]>>
            /\ q.txn = SentTxns(r, c, new, t)
  <2>1. SentFrom(q, r, c, new, t)
    BY <1>1, SendFacts
  <2> QED
    BY <2>1 DEF SentFrom
<1>3. CASE r.pending = <<>>
  <2>1. q = Put(r, new, t)
    BY <1>3 DEF SendSegment
  <2> QED
    BY <2>1, PutSound
<1>4. CASE r.pending # <<>>
  <2> DEFINE f == FrameOf(c, t)
             u == Counted(t)
             w == [r.txn EXCEPT ![new] = u]
  <2>1. /\ q.pending = Tail(p0) /\ q.sent = <<[to |-> Head(p0), frame |-> f]>>
        /\ q.txn = SentTxns(r, c, new, t)
    BY <1>1, <1>2, <1>4
  <2>2. f \in Frames /\ f.cid = c /\ f.first
    BY FrameFacts
  <2>3. u \in Txns /\ u.kind = "direct" /\ ~u.ready /\ u.left = 0 /\ u # None
    BY CountedFacts, TransactionAssumption
  <2>4. SentTxns(r, c, new, t) =
          IF u.left = 0 /\ c \in 1..r.drawn /\ w[c] # None THEN [w EXCEPT ![c] = None] ELSE w
    BY DEF SentTxns
  <2> HIDE DEF f, u
  <2>5. q.sent # <<>> /\ q.sent[1].frame = f
    BY <2>1
  <2>6. QueueOf(q, p0) /\ FrameFits(q, sp)
    BY <1>1, <1>4, <2>1, <2>2, <2>5 DEF QueueOf, FrameFits
  <2>7. \A d \in Cids : w[d] = IF d = new THEN u ELSE r.txn[d]
    BY <1>1
  <2>8. w \in [Cids -> Txns \cup {None}]
    BY <1>1, <2>3
  <2> HIDE DEF w
  <2>9. \A d \in Cids : d # c => q.txn[d] = w[d]
    BY <2>1, <2>4, <2>8
  <2>10. ASSUME NEW d \in Cids, d = c PROVE Good(q, d, sp)
    <3>1. q.txn[c] = None
      <4>1. CASE c \in 1..r.drawn /\ w[c] # None
        BY <2>1, <2>3, <2>4, <2>8, <2>10, <4>1
      <4>2. CASE c \in 1..r.drawn /\ w[c] = None
        BY <2>1, <2>4, <4>2
      <4>3. CASE c \notin 1..r.drawn
        <5>1. c # new /\ r.txn[c] = None
          BY <2>10, <4>3 DEF Sound, Good
        <5> QED
          BY <2>1, <2>4, <2>7, <2>10, <4>3, <5>1
      <4> QED
        BY <4>1, <4>2, <4>3
    <3> QED
      BY <2>10, <3>1 DEF Good
  <2>11. ASSUME NEW d \in Cids, d # c, d = new PROVE Good(q, d, sp)
    <3>1. q.txn[d] = u
      BY <2>7, <2>9, <2>11
    <3> QED
      BY <1>2, <2>3, <2>11, <3>1 DEF Good
  <2>12. ASSUME NEW d \in Cids, d # c, d # new PROVE Good(q, d, sp)
    <3>1. q.txn[d] = r.txn[d] /\ Good(r, d, sp)
      BY <2>7, <2>9, <2>12 DEF Sound
    <3> QED
      BY <1>2, <2>2, <2>5, <2>12, <3>1, GoodSame
  <2> QED
    BY <1>2, <2>6, <2>10, <2>11, <2>12 DEF Sound
<1> QED
  BY <1>3, <1>4

\* A channel is drawn, new or not.
LEMMA InitSound ==
  ASSUME UsbInv, NEW c \in Channels, NEW q \in InitCommand(Now, c)
  PROVE  Sound(q, pending, {})
<1> USE ConstantFacts
<1> DEFINE t == Command("direct", 0, 1)
           r(n) == [Now EXCEPT !.drawn = IF n > drawn THEN n ELSE drawn]
<1>1. PICK new \in Cids : new <= drawn + 1 /\ q = SendSegment(r(new), c, new, t)
  <2>1. Now.drawn = drawn
    BY DEF Now
  <2> QED
    BY <2>1 DEF InitCommand
<1>2. /\ Sound(Now, pending, {}) /\ Now \in Results /\ Now.sent = <<>> /\ Now.pending = pending
      /\ Now.txn = txn /\ Now.drawn = drawn /\ drawn \in 0..MaxCids
  <2>1. StartOf(Now, pending)
    BY NowFacts DEF UsbInv
  <2> QED
    BY <2>1, StartSound DEF UsbInv, TypeOK, StartOf
<1> DEFINE e == IF new > drawn THEN new ELSE drawn
           s == [Now EXCEPT !.drawn = e]
<1>3. e \in 0..MaxCids /\ drawn <= e /\ new \in 1..e
  BY <1>1, <1>2 DEF Cids
<1>4. t \in Txns /\ t.kind = "direct" /\ ~t.ready /\ t.left = 1 /\ t.seg = 0
  BY CommandFacts
<1>5. q = SendSegment(s, c, new, t)
  BY <1>1
<1> HIDE DEF e, t
<1>6. /\ s \in Results /\ s.sent = <<>> /\ s.pending = pending /\ s.txn = txn /\ s.drawn = e
  BY <1>2, <1>3 DEF Results
<1> HIDE DEF s, r
<1>7. \A d \in Cids : d \notin 1..e => d \notin 1..drawn
  BY <1>2, <1>3
<1>8. ASSUME NEW d \in Cids PROVE Good(s, d, {})
  <2>1. Good(Now, d, {}) /\ After(s, d) = After(Now, d)
    BY <1>2, <1>6 DEF Sound, After
  <2> QED
    BY <1>2, <1>6, <1>7, <2>1 DEF Good
<1>9. QueueOf(s, pending) /\ FrameFits(s, {})
  BY <1>6 DEF QueueOf, FrameFits
<1>10. Sound(s, pending, {}) /\ new \in 1..s.drawn
  BY <1>3, <1>6, <1>8, <1>9 DEF Sound
<1> QED
  BY <1>4, <1>5, <1>6, <1>10, AnswerSound

\* An IN URB that comes takes its place in the queue and may be the one a frame goes to.
LEMMA SubmitSound ==
  ASSUME UsbInv, NEW w \in Waiting,
         NEW s, s = [Now EXCEPT !.pending = Append(pending, w)],
         NEW q \in IF \E c \in Cids : Ready(c)
                   THEN {SendSegment(s, FirstReady, FirstReady, txn[FirstReady])} ELSE {s}
  PROVE  Sound(q, Append(pending, w), {})
<1> DEFINE p == Append(pending, w)
<1>1. StartOf(s, p)
  BY NowFacts DEF UsbInv
<1> HIDE DEF p
<1>2. Sound(s, p, {}) /\ told \in [Channels -> Nat \cup {None}] /\ s.sent = <<>> /\ s.drawn = drawn
  BY <1>1, StartSound DEF UsbInv, TypeOK, StartOf
<1>3. CASE ~\E c \in Cids : Ready(c)
  BY <1>2, <1>3 DEF p
<1>4. CASE \E c \in Cids : Ready(c)
  <2> DEFINE T == {c \in Allocated : Ready(c)}
  <2>1. PICK x \in T : \A y \in T : x <= y
    <3>1. T \in SUBSET Nat /\ T # {}
      BY <1>4 DEF UsbInv, TypeOK, Allocated, Ready, Has
    <3> HIDE DEF T
    <3> QED
      BY <3>1, LeastNumber
  <2>2. \A d \in 1..(x - 1) : ~Ready(d)
    <3> SUFFICES ASSUME NEW d \in 1..(x - 1), Ready(d) PROVE FALSE
      OBVIOUS
    <3>1. x \in Nat /\ d \in Nat /\ d < x
      BY <2>1 DEF Allocated
    <3>2. d \in T
      BY DEF Ready, Has
    <3> QED
      BY <2>1, <3>1, <3>2
  <2> DEFINE c == FirstReady
  <2>3. c \in Allocated /\ Ready(c)
    BY <2>1, <2>2 DEF FirstReady
  <2> HIDE DEF c
  <2>4. c \in Cids /\ c \in 1..s.drawn /\ txn[c] \in Txns /\ Has(c)
    BY <1>2, <2>3, ConstantFacts DEF UsbInv, TypeOK, Allocated, Ready, Has, Cids
  <2>5. Due(c, txn[c], {})
    <3>1. txn[c].ready
      BY <2>3 DEF Ready
    <3>2. c \notin spoilt =>
             /\ txn[c].left > 0 /\ txn[c].kind = "cbor" /\ ~txn[c].mixed
             /\ txn[c].seg > 0 => told[c] = txn[c].seg - 1
      BY <2>4, <3>1 DEF UsbInv, InStep
    <3> QED
      BY <3>1, <3>2 DEF Due
  <2>6. q = SendSegment(s, c, c, txn[c])
    BY <1>4 DEF c
  <2>7. Sound(q, p, {})
    BY <1>2, <2>4, <2>5, <2>6, SendSound
  <2> QED
    BY <2>7 DEF p
<1> QED
  BY <1>3, <1>4
----------------------------------------------------------------------------
(* The queue of IN URBs. *)

\* URBs p wait, stale ones first, of which the client waits for o.
Queued(p, o) ==
    /\ p \in Seq(Waiting)
    /\ \A i, j \in DOMAIN p : i < j /\ p[j].stale => p[i].stale
    /\ \A i, j \in DOMAIN p :
           ~p[i].stale =>
               p[i].urb \in o /\ (~p[j].stale /\ p[i].urb = p[j].urb => i = j)

\* The first takes its URB along ...
LEMMA TailQueued ==
  ASSUME NEW p, NEW o, Queued(p, o), p # <<>>
  PROVE  /\ Head(p) \in Waiting /\ Head(p) = p[1] /\ 1 \in DOMAIN p
         /\ Head(p).stale => Queued(Tail(p), o)
         /\ ~Head(p).stale => Queued(Tail(p), o \ {Head(p).urb})
         /\ \A i \in DOMAIN Tail(p) : i + 1 \in DOMAIN p /\ Tail(p)[i] = p[i + 1]
<1> DEFINE t == Tail(p)
<1>1. p \in Seq(Waiting)
  BY DEF Queued
<1>2. /\ t \in Seq(Waiting) /\ Len(t) = Len(p) - 1 /\ Len(p) \in Nat \ {0}
      /\ \A i \in 1..Len(t) : t[i] = p[i + 1]
      /\ Head(p) = p[1] /\ Head(p) \in Waiting /\ DOMAIN p = 1..Len(p) /\ DOMAIN t = 1..Len(t)
  BY <1>1, HeadTailProperties, EmptySeq, LenProperties
<1> HIDE DEF t
<1>3. 1 \in DOMAIN p /\ \A i \in DOMAIN t : i \in Nat /\ i + 1 \in DOMAIN p /\ t[i] = p[i + 1]
        /\ i + 1 # 1
  BY <1>2
<1>4. \A i, j \in DOMAIN t : i < j /\ t[j].stale => t[i].stale
  <2> SUFFICES ASSUME NEW i \in DOMAIN t, NEW j \in DOMAIN t, i < j, t[j].stale PROVE t[i].stale
    OBVIOUS
  <2>1. i + 1 < j + 1
    BY <1>3
  <2> QED
    BY <1>3, <2>1 DEF Queued
<1>5. \A i, j \in DOMAIN t :
          ~t[i].stale => t[i].urb \in o /\ (~t[j].stale /\ t[i].urb = t[j].urb => i = j)
  <2> SUFFICES ASSUME NEW i \in DOMAIN t, NEW j \in DOMAIN t, ~t[i].stale
               PROVE  t[i].urb \in o /\ (~t[j].stale /\ t[i].urb = t[j].urb => i = j)
    OBVIOUS
  <2>1. i + 1 = j + 1 => i = j
    BY <1>3
  <2> QED
    BY <1>3, <2>1 DEF Queued
<1>6. ASSUME ~Head(p).stale, NEW i \in DOMAIN t, ~t[i].stale PROVE t[i].urb # Head(p).urb
  <2> SUFFICES ASSUME t[i].urb = Head(p).urb PROVE FALSE
    OBVIOUS
  <2>1. 1 = i + 1
    BY <1>2, <1>3, <1>6 DEF Queued
  <2> QED
    BY <1>3, <2>1
<1>7. Queued(t, o)
  BY <1>2, <1>4, <1>5 DEF Queued
<1>8. ASSUME ~Head(p).stale PROVE Queued(t, o \ {Head(p).urb})
  BY <1>2, <1>4, <1>5, <1>6, <1>8 DEF Queued
<1> QED
  BY <1>2, <1>3, <1>7, <1>8 DEF t

\* ... and one that the client did not wait for yet goes to the end.
LEMMA AppendQueued ==
  ASSUME NEW p, NEW o, Queued(p, o), NEW u \in Urbs, u \notin o
  PROVE  LET w == [urb |-> u, stale |-> FALSE] IN
         /\ w \in Waiting /\ Queued(Append(p, w), o \cup {u})
         /\ (\E i \in DOMAIN Append(p, w) : Append(p, w)[i].stale) => \E i \in DOMAIN p : p[i].stale
<1> DEFINE w == [urb |-> u, stale |-> FALSE]
           t == Append(p, w)
           n == Len(p) + 1
<1>1. p \in Seq(Waiting) /\ w \in Waiting /\ w.urb = u /\ ~w.stale
  BY DEF Queued, Waiting
<1> HIDE DEF w
<1>2. /\ t \in Seq(Waiting) /\ Len(t) = n /\ Len(p) \in Nat
      /\ \A i \in 1..Len(p) : t[i] = p[i]
      /\ t[n] = w /\ DOMAIN p = 1..Len(p) /\ DOMAIN t = 1..Len(t)
  BY <1>1, AppendProperties, LenProperties
<1> HIDE DEF t
<1>3. \A i \in DOMAIN t : (i \in DOMAIN p /\ t[i] = p[i] /\ i < n) \/ (i = n /\ t[i] = w)
  BY <1>2
<1> HIDE DEF n
<1>4. \A i \in DOMAIN t : t[i].stale => i \in DOMAIN p /\ p[i].stale /\ t[i] = p[i]
  BY <1>1, <1>3
<1>5. \A i, j \in DOMAIN t : i < j /\ t[j].stale => t[i].stale
  <2> SUFFICES ASSUME NEW i \in DOMAIN t, NEW j \in DOMAIN t, i < j, t[j].stale PROVE t[i].stale
    OBVIOUS
  <2>1. j \in DOMAIN p /\ p[j].stale /\ j < n
    BY <1>1, <1>3
  <2>2. i \in DOMAIN p /\ t[i] = p[i]
    BY <1>2, <1>3, <2>1 DEF n
  <2> QED
    BY <2>1, <2>2 DEF Queued
<1>6. \A i, j \in DOMAIN t :
          ~t[i].stale => t[i].urb \in o \cup {u} /\ (~t[j].stale /\ t[i].urb = t[j].urb => i = j)
  <2> SUFFICES ASSUME NEW i \in DOMAIN t, NEW j \in DOMAIN t, ~t[i].stale
               PROVE  t[i].urb \in o \cup {u} /\ (~t[j].stale /\ t[i].urb = t[j].urb => i = j)
    OBVIOUS
  <2>1. \A k \in DOMAIN p : ~p[k].stale => p[k].urb \in o /\ p[k].urb # u
    BY DEF Queued
  <2> QED
    BY <1>1, <1>3, <2>1 DEF Queued
<1> QED
  BY <1>1, <1>2, <1>4, <1>5, <1>6 DEF Queued, t, w
----------------------------------------------------------------------------
(* Steps. *)

\* The queue and what waits in it, as the invariant has them.
LEMMA QueueMeaning ==
  ASSUME pending \in Seq(Waiting)
  PROVE  /\ StaleFirst /\ WaitingIsOwed /\ link # "shared" =>
               /\ Queued(pending, owed)
               /\ (\E i \in DOMAIN pending : pending[i].stale) => spoilt = Channels
         /\ Queued(pending, owed)
              /\ ((\E i \in DOMAIN pending : pending[i].stale) => spoilt = Channels)
              /\ (link = "shared" => spoilt = Channels)
               => StaleFirst /\ WaitingIsOwed
<1>1. \A i, j \in DOMAIN pending : i \in Nat /\ j \in Nat
  BY DEF Waiting
<1> QED
  BY <1>1 DEF Queued, StaleFirst, WaitingIsOwed

\* What a step does to its client.
LEMMA BecomesFacts ==
  ASSUME UsbInv, NEW q, NEW p0, NEW u \in SUBSET Urbs, NEW sp \in SUBSET Channels,
         Sound(q, p0, sp), Queued(p0, owed \cup u),
         (\E i \in DOMAIN p0 : p0[i].stale) => spoilt = Channels, Becomes(q, u, sp)
  PROVE  /\ Queued(q.pending, owed') /\ owed' \subseteq Urbs
         /\ (\E i \in DOMAIN q.pending : q.pending[i].stale) => spoilt = Channels
         /\ garbled' = {} /\ told' \in [Channels -> Nat \cup {None}]
         /\ \A c \in Cids : c \notin spoilt \cup sp => told'[c] = After(q, c)
<1> USE ConstantFacts
<1> DEFINE mine == {i \in DOMAIN q.sent : ~q.sent[i].to.stale}
           f == q.sent[1].frame
           fits == f.first \/ (told[f.cid] # None /\ f.num = told[f.cid] /\ ~f.mixed)
           sp2 == spoilt \cup sp
<1>1. /\ owed' = (owed \cup u) \ {q.sent[i].to.urb : i \in mine}
      /\ spoilt' = sp2
      /\ told' = [c \in Channels |->
                      IF c \in sp2 THEN None
                      ELSE IF mine = {} \/ f.cid # c THEN told[c]
                      ELSE IF f.first THEN 0 ELSE IF told[c] = None THEN None ELSE told[c] + 1]
      /\ garbled' = (IF mine = {} \/ fits THEN garbled ELSE garbled \cup {f.cid}) \ sp2
  BY DEF Becomes
<1>2. garbled = {} /\ told \in [Channels -> Nat \cup {None}] /\ owed \subseteq Urbs
        /\ spoilt \subseteq Channels
  BY DEF UsbInv, TypeOK, RepliesInOrder
<1>3. CASE q.sent = <<>>
  <2>1. mine = {}
    BY <1>3
  <2>2. owed' = owed \cup u /\ garbled' = {}
    BY <1>1, <1>2, <2>1
  <2>3. told' = [c \in Channels |-> IF c \in sp2 THEN None ELSE told[c]]
    BY <1>1, <2>1
  <2>4. q.pending = p0
    BY <1>3 DEF Sound, QueueOf
  <2> HIDE DEF mine, f, fits
  <2>5. \A c \in Cids : c \notin spoilt \cup sp => told'[c] = After(q, c)
    BY <1>3, <2>3 DEF After
  <2> QED
    BY <1>2, <2>2, <2>3, <2>4, <2>5
<1>4. CASE q.sent # <<>>
  <2>1. PICK g \in Frames : p0 # <<>> /\ q.pending = Tail(p0)
             /\ q.sent = <<[to |-> Head(p0), frame |-> g]>>
    BY <1>4 DEF Sound, QueueOf
  <2>2. /\ Head(p0) \in Waiting /\ Head(p0) = p0[1] /\ 1 \in DOMAIN p0
        /\ Head(p0).stale => Queued(Tail(p0), owed \cup u)
        /\ ~Head(p0).stale => Queued(Tail(p0), (owed \cup u) \ {Head(p0).urb})
        /\ \A i \in DOMAIN Tail(p0) : i + 1 \in DOMAIN p0 /\ Tail(p0)[i] = p0[i + 1]
    BY <2>1, TailQueued
  <2>3. f = g /\ g.cid \in Channels /\ DOMAIN q.sent = {1} /\ q.sent[1].to = Head(p0)
    BY <2>1 DEF Frames
  <2>4. (\E i \in DOMAIN q.pending : q.pending[i].stale) => spoilt = Channels
    BY <2>1, <2>2
  <2>5. CASE Head(p0).stale
    <3>1. mine = {}
      BY <2>3, <2>5
    <3>2. spoilt = Channels
      BY <2>2, <2>5
    <3>3. owed' = owed \cup u /\ garbled' = {} /\ told' = [c \in Channels |-> None]
      BY <1>1, <1>2, <3>1, <3>2
    <3> HIDE DEF mine, f, fits
    <3> QED
      BY <1>2, <2>1, <2>2, <2>4, <2>5, <3>2, <3>3
  <2>6. CASE ~Head(p0).stale
    <3>1. mine = {1} /\ mine # {}
      BY <2>3, <2>6
    <3>2. {q.sent[i].to.urb : i \in mine} = {Head(p0).urb}
      BY <2>3, <3>1
    <3>3. owed' = (owed \cup u) \ {Head(p0).urb}
      BY <1>1, <3>2
    <3>4. garbled' = {}
      <4>1. fits \/ f.cid \in sp2
        BY <1>4 DEF Sound, FrameFits
      <4> HIDE DEF fits, f, mine
      <4> QED
        BY <1>1, <1>2, <3>1, <4>1
    <3> HIDE DEF fits, mine
    <3>5. told' = [c \in Channels |->
                      IF c \in sp2 THEN None
                      ELSE IF g.cid # c THEN told[c]
                      ELSE IF g.first THEN 0 ELSE IF told[c] = None THEN None ELSE told[c] + 1]
      BY <1>1, <2>3, <3>1
    <3>6. told' \in [Channels -> Nat \cup {None}]
      <4>1. \A c \in Channels : told[c] \in Nat \cup {None} /\ (told[c] # None => told[c] + 1 \in Nat)
        BY <1>2
      <4> QED
        BY <3>5, <4>1
    <3>7. \A c \in Cids : c \notin spoilt \cup sp => told'[c] = After(q, c)
      <4> SUFFICES ASSUME NEW c \in Cids, c \notin spoilt \cup sp PROVE told'[c] = After(q, c)
        OBVIOUS
      <4>1. told'[c] = IF g.cid # c THEN told[c]
                       ELSE IF g.first THEN 0 ELSE IF told[c] = None THEN None ELSE told[c] + 1
        BY <3>5
      <4>2. After(q, c) = IF g.cid # c THEN told[c]
                          ELSE IF g.first THEN 0 ELSE IF told[c] = None THEN None ELSE told[c] + 1
        BY <1>4, <2>3 DEF After
      <4> QED
        BY <4>1, <4>2
    <3>8. Queued(q.pending, owed') /\ owed' \subseteq Urbs
      BY <1>2, <2>1, <2>2, <2>6, <3>3
    <3> QED
      BY <2>4, <3>4, <3>6, <3>7, <3>8
  <2> QED
    BY <2>5, <2>6
<1> QED
  BY <1>3, <1>4

LEMMA BecomesKeeps ==
  ASSUME UsbInv, NEW q, NEW p0, NEW u \in SUBSET Urbs, NEW sp \in SUBSET Channels,
         Sound(q, p0, sp), Queued(p0, owed \cup u),
         (\E i \in DOMAIN p0 : p0[i].stale) => spoilt = Channels, Becomes(q, u, sp), Attached
  PROVE  UsbInv'
<1> USE ConstantFacts
<1>1. /\ Queued(q.pending, owed') /\ owed' \subseteq Urbs
      /\ (\E i \in DOMAIN q.pending : q.pending[i].stale) => spoilt = Channels
      /\ garbled' = {} /\ told' \in [Channels -> Nat \cup {None}]
      /\ \A c \in Cids : c \notin spoilt \cup sp => told'[c] = After(q, c)
  BY BecomesFacts
<1>2. /\ pending' = q.pending /\ drawn' = q.drawn /\ txn' = q.txn /\ common' = q.common
      /\ link' \in {"idle", "attached"} /\ spoilt' = spoilt \cup sp /\ moved' \in BOOLEAN
           /\ plugged' = plugged
  BY DEF Becomes, Attached
<1>3. spoilt \subseteq Channels /\ plugged \in BOOLEAN
  BY DEF UsbInv, TypeOK
<1>4. /\ q.pending \in Seq(Waiting) /\ q.drawn \in 0..MaxCids /\ q.txn \in [Cids -> Txns \cup {None}]
      /\ q.common \in SUBSET Numbers /\ \A c \in Cids : Good(q, c, sp)
  BY DEF Sound, Results
<1>5. \A c \in Cids : (c \notin Allocated => txn[c] = None)'
  BY <1>2, <1>4 DEF Good, Allocated
<1>6. TypeOK'
  BY <1>1, <1>2, <1>3, <1>4, <1>5 DEF TypeOK, Waiting
<1>7. InStep'
  <2> SUFFICES ASSUME NEW c \in Cids, c \notin spoilt', Has(c)'
               PROVE  (LET t == txn[c] IN
                       /\ t.kind = "cbor" /\ ~t.ready => t.seg = 0
                       /\ t.ready => /\ t.left > 0 /\ t.kind = "cbor" /\ ~t.mixed
                                     /\ t.seg > 0 => told[c] = t.seg - 1)'
    BY DEF InStep
  <2>1. Good(q, c, sp) /\ q.txn[c] # None
    BY <1>2, <1>4 DEF Has
  <2>2. c \notin spoilt \cup sp => told'[c] = After(q, c)
    BY <1>1
  <2> QED
    BY <1>2, <2>1, <2>2 DEF Good
<1>8. (StaleFirst /\ WaitingIsOwed)'
  <2>1. pending' \in Seq(Waiting) /\ Queued(pending', owed')
    BY <1>1, <1>2, <1>4
  <2>2. (\E i \in DOMAIN pending' : pending'[i].stale) => spoilt' = Channels
    BY <1>1, <1>2, <1>3
  <2>3. \A i, j \in DOMAIN pending' : i \in Nat /\ j \in Nat
    BY <2>1
  <2> QED
    BY <1>2, <2>1, <2>2, <2>3 DEF Queued, StaleFirst, WaitingIsOwed
<1> QED
  BY <1>1, <1>6, <1>7, <1>8 DEF UsbInv, RepliesInOrder

\* Taking one element out.
LEMMA RemoveFacts ==
  ASSUME NEW S, NEW p \in Seq(S), NEW i \in DOMAIN p
  PROVE  LET r == RemoveAt(p, i) IN
         /\ r \in Seq(S) /\ Len(r) = Len(p) - 1 /\ DOMAIN r = 1..Len(r) /\ DOMAIN p = 1..Len(p)
         /\ Len(p) \in Nat
         /\ \A k \in DOMAIN r : r[k] = IF k < i THEN p[k] ELSE p[k + 1]
<1> DEFINE n == Len(p)
           a == SubSeq(p, 1, i - 1)
           b == SubSeq(p, i + 1, n)
           r == a \o b
<1>1. n \in Nat /\ i \in 1..n /\ DOMAIN p = 1..n
  BY LenProperties
<1>2. \A k \in 1..n : p[k] \in S
  BY <1>1, ElementOfSeq
<1>3. a \in Seq(S) /\ Len(a) = i - 1 /\ \A k \in 1..(i - 1) : a[k] = p[k]
  BY <1>1, <1>2, SubSeqProperties
<1>4. b \in Seq(S) /\ Len(b) = n - i /\ \A k \in 1..(n - i) : b[k] = p[i + k]
  BY <1>1, <1>2, SubSeqProperties
<1> HIDE DEF a, b, n
<1>5. /\ r \in Seq(S) /\ Len(r) = Len(a) + Len(b)
      /\ \A k \in 1..Len(a) + Len(b) : r[k] = IF k <= Len(a) THEN a[k] ELSE b[k - Len(a)]
  BY <1>3, <1>4, ConcatProperties
<1> HIDE DEF r
<1>6. Len(r) = n - 1 /\ DOMAIN r = 1..Len(r)
  BY <1>1, <1>3, <1>4, <1>5, LenProperties
<1>7. ASSUME NEW k \in DOMAIN r PROVE r[k] = IF k < i THEN p[k] ELSE p[k + 1]
  <2>1. k \in 1..(n - 1) /\ r[k] = IF k <= i - 1 THEN a[k] ELSE b[k - (i - 1)]
    BY <1>1, <1>3, <1>4, <1>5, <1>6
  <2>2. CASE k < i
    <3>1. k \in 1..(i - 1)
      BY <1>1, <2>1, <2>2
    <3> QED
      BY <1>3, <2>1, <2>2, <3>1
  <2>3. CASE ~(k < i)
    <3>1. k - (i - 1) \in 1..(n - i) /\ i + (k - (i - 1)) = k + 1 /\ ~(k <= i - 1)
      BY <1>1, <2>1, <2>3
    <3> QED
      BY <1>4, <2>1, <2>3, <3>1
  <2> QED
    BY <2>2, <2>3
<1>8. RemoveAt(p, i) = r
  BY DEF RemoveAt, r, a, b, n
<1> QED
  BY <1>1, <1>5, <1>6, <1>7, <1>8 DEF n

\* unlink takes out the last IN URB with its number, which is the one its client waits for if any is.
LEMMA UnlinkQueued ==
  ASSUME NEW p, NEW o, Queued(p, o), NEW u,
         NEW i \in DOMAIN p, p[i].urb = u, \A j \in DOMAIN p : p[j].urb = u => j <= i
  PROVE  /\ Queued(RemoveAt(p, i), o \ {u})
         /\ (\E k \in DOMAIN RemoveAt(p, i) : RemoveAt(p, i)[k].stale)
              => \E k \in DOMAIN p : p[k].stale
<1> DEFINE r == RemoveAt(p, i)
<1>1. p \in Seq(Waiting)
  BY DEF Queued
<1>2. /\ r \in Seq(Waiting) /\ Len(r) = Len(p) - 1 /\ DOMAIN r = 1..Len(r) /\ DOMAIN p = 1..Len(p)
      /\ Len(p) \in Nat /\ \A k \in DOMAIN r : r[k] = IF k < i THEN p[k] ELSE p[k + 1]
  BY <1>1, RemoveFacts
<1> HIDE DEF r
<1> DEFINE old(k) == IF k < i THEN k ELSE k + 1
<1>3. \A k \in DOMAIN r : old(k) \in DOMAIN p /\ r[k] = p[old(k)] /\ old(k) # i /\ k \in Nat
  BY <1>2
<1>4. \A k, l \in DOMAIN r : (k < l => old(k) < old(l)) /\ (old(k) = old(l) => k = l)
  BY <1>2
<1> HIDE DEF old
<1>5. \A k, l \in DOMAIN r : k < l /\ r[l].stale => r[k].stale
  BY <1>3, <1>4 DEF Queued
<1>6. \A j \in DOMAIN p : j # i /\ p[j].urb = u => p[j].stale
  <2> SUFFICES ASSUME NEW j \in DOMAIN p, j # i, p[j].urb = u, ~p[j].stale PROVE FALSE
    BY <1>1, <1>2 DEF Waiting
  <2>1. j < i
    BY <1>2
  <2>2. ~p[i].stale
    BY <2>1 DEF Queued
  <2> QED
    BY <2>2 DEF Queued
<1>7. \A k, l \in DOMAIN r :
          ~r[k].stale => r[k].urb \in o \ {u} /\ (~r[l].stale /\ r[k].urb = r[l].urb => k = l)
  <2> SUFFICES ASSUME NEW k \in DOMAIN r, NEW l \in DOMAIN r, ~r[k].stale
               PROVE  r[k].urb \in o \ {u} /\ (~r[l].stale /\ r[k].urb = r[l].urb => k = l)
    OBVIOUS
  <2>1. r[k].urb \in o /\ r[k].urb # u
    BY <1>3, <1>6 DEF Queued
  <2>2. ~r[l].stale /\ r[k].urb = r[l].urb => old(k) = old(l)
    BY <1>3 DEF Queued
  <2> QED
    BY <1>4, <2>1, <2>2
<1> QED
  BY <1>2, <1>3, <1>5, <1>7 DEF Queued, r

\* The queue of a connection that begins is stale.
LEMMA ConnectKeeps ==
  ASSUME UsbInv, Connect
  PROVE  UsbInv'
<1> USE ConstantFacts
<1>1. /\ pending' = [i \in DOMAIN pending |-> [pending[i] EXCEPT !.stale = TRUE]]
      /\ owed' = {} /\ told' = [c \in Channels |-> None] /\ garbled' = {} /\ moved' = FALSE
      /\ spoilt' = (IF pending = <<>> THEN Allocated ELSE Channels) /\ link' = "open"
      /\ plugged' = plugged /\ drawn' = drawn /\ txn' = txn /\ common' = common
  BY DEF Connect
<1>2. pending \in Seq(Waiting)
  BY DEF UsbInv, TypeOK, Waiting
<1>3. /\ pending' \in Seq(Waiting) /\ \A i \in DOMAIN pending' : pending'[i].stale
      /\ (DOMAIN pending' # {} => spoilt' = Channels)
  <2>1. DOMAIN pending = 1..Len(pending) /\ Len(pending) \in Nat
          /\ \A i \in DOMAIN pending : pending[i] \in Waiting
    BY <1>2, LenProperties, ElementOfSeq
  <2>2. \A i \in DOMAIN pending : [pending[i] EXCEPT !.stale = TRUE] \in Waiting
                                  /\ [pending[i] EXCEPT !.stale = TRUE].stale
    BY <2>1 DEF Waiting
  <2>3. DOMAIN pending' = DOMAIN pending /\ \A i \in DOMAIN pending' : pending'[i] \in Waiting
          /\ pending'[i].stale
    BY <1>1, <2>2
  <2>4. pending' \in Seq(Waiting)
    <3>1. pending' = [i \in 1..Len(pending) |-> pending'[i]]
      BY <1>1, <2>1
    <3> QED
      BY <2>1, <2>3, <3>1, IsASeq
  <2>5. DOMAIN pending' # {} => pending # <<>>
    BY <2>1, <2>3
  <2> QED
    BY <1>1, <2>3, <2>4, <2>5
<1>4. StaleFirst' /\ WaitingIsOwed'
  BY <1>1, <1>3 DEF StaleFirst, WaitingIsOwed
<1>5. Allocated \subseteq Channels /\ \A c \in Cids : Has(c) => c \in Allocated
  BY DEF UsbInv, TypeOK, Allocated, Has, Cids, Channels
<1>6. TypeOK'
  <2>1. spoilt' \subseteq Channels
    BY <1>1, <1>5
  <2> QED
    BY <1>1, <1>3, <2>1 DEF UsbInv, TypeOK, Waiting, Allocated
<1>7. InStep'
  <2>1. \A c \in Cids : Has(c)' => c \in spoilt'
    BY <1>1, <1>5 DEF Has, Allocated
  <2> QED
    BY <1>1, <2>1 DEF UsbInv, InStep, Has, Allocated
<1> QED
  BY <1>1, <1>4, <1>6, <1>7 DEF UsbInv, RepliesInOrder

\* Nothing of the device and its client changes.
LEMMA SameKeeps ==
  ASSUME UsbInv, UNCHANGED <<owed, pending, drawn, txn, common, told, spoilt, garbled>>,
         link' = link \/ (link # "shared" /\ link' \in {"idle", "attached"}),
         plugged' \in BOOLEAN, moved' \in BOOLEAN
  PROVE  UsbInv'
<1>1. TypeOK'
  BY DEF UsbInv, TypeOK, Allocated
<1>2. InStep'
  BY DEF UsbInv, InStep, Has, Allocated
<1> QED
  BY <1>1, <1>2 DEF UsbInv, StaleFirst, WaitingIsOwed, RepliesInOrder

\* When there are several connections nobody counts on anything.
LEMMA ShareKeeps ==
  ASSUME UsbInv, Share
  PROVE  UsbInv'
<1>1. /\ link' = "shared" /\ moved' = FALSE /\ owed' = {} /\ told' = [c \in Channels |-> None]
      /\ spoilt' = Channels /\ garbled' = {} /\ plugged' = plugged
      /\ pending' = pending /\ drawn' = drawn /\ txn' = txn /\ common' = common
  BY DEF Share, Device
<1>2. TypeOK'
  BY <1>1 DEF UsbInv, TypeOK, Allocated
<1>3. InStep' /\ WaitingIsOwed' /\ RepliesInOrder' /\ StaleFirst'
  BY <1>1, ConstantFacts DEF UsbInv, InStep, WaitingIsOwed, RepliesInOrder, StaleFirst
<1> QED
  BY <1>2, <1>3 DEF UsbInv

\* Whatever they leave in pending is stale, and whatever they leave in cids is on a channel that is
\* spoilt.
LEMMA PartKeeps ==
  ASSUME UsbInv, Part
  PROVE  UsbInv'
<1> USE ConstantFacts
<1>1. /\ link' = "idle" /\ moved' = FALSE /\ plugged' = plugged
      /\ owed' = owed /\ told' = told /\ spoilt' = spoilt /\ garbled' = garbled
      /\ pending' \in SeqOf([urb : Urbs, stale : {TRUE}], MaxStale)
      /\ drawn' \in drawn..MaxCids /\ common' \in SUBSET (Numbers \ {0})
  BY DEF Part, Client
<1>2. spoilt = Channels /\ garbled = {} /\ drawn \in 0..MaxCids
  BY DEF Part, UsbInv, StaleFirst, RepliesInOrder, TypeOK
<1>3. PICK f \in [1..drawn' -> Leftovers \cup {None}] :
          txn' = [c \in Cids |-> IF c <= drawn' THEN f[c] ELSE None]
  BY DEF Part
<1>4. drawn' \in 0..MaxCids /\ \A c \in Cids : c <= drawn' <=> c \in 1..drawn'
  BY <1>1, <1>2 DEF Cids
<1>5. txn' \in [Cids -> Txns \cup {None}] /\ \A c \in Cids : c \notin 1..drawn' => txn'[c] = None
  BY <1>3, <1>4, TransactionAssumption
<1>6. pending' \in Seq(Waiting) /\ \A i \in DOMAIN pending' : pending'[i].stale
  <2>1. PICK n \in 0..MaxStale : pending' \in [1..n -> [urb : Urbs, stale : {TRUE}]]
    BY <1>1 DEF SeqOf
  <2>2. \A w \in [urb : Urbs, stale : {TRUE}] : w \in Waiting /\ w.stale
    BY DEF Waiting
  <2>3. DOMAIN pending' = 1..n /\ \A i \in 1..n : pending'[i] \in Waiting /\ pending'[i].stale
    BY <2>1, <2>2
  <2>4. pending' = [i \in 1..n |-> pending'[i]]
    BY <2>1
  <2>5. pending' \in Seq(Waiting)
    BY <2>3, <2>4, IsASeq
  <2> QED
    BY <2>3, <2>5
<1>7. TypeOK'
  BY <1>1, <1>2, <1>4, <1>5, <1>6 DEF UsbInv, TypeOK, Allocated, Waiting
<1>8. StaleFirst' /\ WaitingIsOwed'
  BY <1>1, <1>2, <1>6 DEF StaleFirst, WaitingIsOwed
<1>9. InStep' /\ RepliesInOrder'
  BY <1>1, <1>2 DEF InStep, RepliesInOrder
<1> QED
  BY <1>7, <1>8, <1>9 DEF UsbInv

LEMMA UnlinkKeeps ==
  ASSUME UsbInv, Unlink
  PROVE  UsbInv'
<1>1. PICK u \in Urbs :
          LET here == {i \in DOMAIN pending : pending[i].urb = u}
          IN  /\ pending' = IF here = {} THEN pending
                            ELSE RemoveAt(pending, CHOOSE i \in here : \A j \in here : j <= i)
              /\ owed' = owed \ {u}
  BY DEF Unlink
<1>2. /\ link' = link /\ plugged' = plugged /\ drawn' = drawn /\ txn' = txn /\ common' = common
      /\ told' = told /\ spoilt' = spoilt /\ garbled' = garbled /\ moved' = FALSE
      /\ link # "shared"
  BY DEF Unlink, Attached
<1>3. pending \in Seq(Waiting) /\ owed \subseteq Urbs
  BY DEF UsbInv, TypeOK, Waiting
<1>4. Queued(pending, owed) /\ ((\E i \in DOMAIN pending : pending[i].stale) => spoilt = Channels)
  BY <1>3, QueueMeaning DEF UsbInv, Attached, SubmitIn, Unlink
<1> DEFINE here == {i \in DOMAIN pending : pending[i].urb = u}
<1>5. Queued(pending', owed') /\ ((\E i \in DOMAIN pending' : pending'[i].stale) => spoilt = Channels)
  <2>1. CASE here = {}
    <3>1. pending' = pending /\ owed' = owed \ {u}
      BY <1>1, <2>1
    <3>2. Queued(pending, owed \ {u})
      BY <1>4, <2>1 DEF Queued
    <3> QED
      BY <1>4, <3>1, <3>2
  <2>2. CASE here # {}
    <3>1. here \in SUBSET (1..Len(pending)) /\ Len(pending) \in Nat
      BY <1>3, LenProperties
    <3>2. \E i \in here : \A j \in here : j <= i
      <4> HIDE DEF here
      <4> QED
        BY <2>2, <3>1, GreatestNumber
    <3> DEFINE i == CHOOSE k \in here : \A j \in here : j <= k
    <3>3. i \in here /\ \A j \in here : j <= i
      BY <3>2
    <3>4. pending' = RemoveAt(pending, i) /\ owed' = owed \ {u}
      BY <1>1, <2>2
    <3> HIDE DEF i
    <3>5. i \in DOMAIN pending /\ pending[i].urb = u
            /\ \A j \in DOMAIN pending : pending[j].urb = u => j <= i
      BY <3>3
    <3>6. /\ Queued(RemoveAt(pending, i), owed \ {u})
          /\ (\E k \in DOMAIN RemoveAt(pending, i) : RemoveAt(pending, i)[k].stale)
               => \E k \in DOMAIN pending : pending[k].stale
      BY <1>4, <3>5, UnlinkQueued
    <3> QED
      BY <1>4, <3>4, <3>6
  <2> QED
    BY <2>1, <2>2
<1> HIDE DEF here
<1>6. pending' \in Seq(Waiting) /\ owed' \subseteq Urbs
  BY <1>1, <1>3, <1>5 DEF Queued
<1>7. StaleFirst' /\ WaitingIsOwed'
  <2>1. \A i, j \in DOMAIN pending' : i \in Nat /\ j \in Nat
    BY <1>6
  <2> QED
    BY <1>2, <1>5, <2>1 DEF Queued, StaleFirst, WaitingIsOwed
<1>8. TypeOK'
  BY <1>2, <1>6 DEF UsbInv, TypeOK, Waiting, Allocated
<1>9. InStep'
  BY <1>2 DEF UsbInv, InStep, Has, Allocated
<1> QED
  BY <1>2, <1>7, <1>8, <1>9 DEF UsbInv, RepliesInOrder

LEMMA SubmitInKeeps ==
  ASSUME UsbInv, SubmitIn
  PROVE  UsbInv'
<1> DEFINE u == CHOOSE n \in Urbs \ owed : \A m \in Urbs \ owed : n <= m
           w == [urb |-> u, stale |-> FALSE]
           p == Append(pending, w)
           s == [Now EXCEPT !.pending = p]
<1>1. PICK q \in IF \E c \in Cids : Ready(c)
                 THEN {SendSegment(s, FirstReady, FirstReady, txn[FirstReady])} ELSE {s} :
          Becomes(q, {u}, {})
  <2>1. s = [Now EXCEPT !.pending = Append(@, [urb |-> u, stale |-> FALSE])]
    BY DEF Now
  <2> QED
    BY <2>1 DEF SubmitIn
<1>2. u \in Urbs /\ u \notin owed
  <2>1. Urbs \ owed # {} /\ Urbs \ owed \in SUBSET Nat
    <3>1. owed # Urbs
      BY DEF SubmitIn
    <3>2. owed \subseteq Urbs
      BY DEF UsbInv, TypeOK
    <3>3. Urbs \subseteq Nat
      BY DEF Urbs
    <3> QED
      BY <3>1, <3>2, <3>3
  <2>2. \E n \in Urbs \ owed : \A m \in Urbs \ owed : n <= m
    BY <2>1, LeastNumber
  <2> QED
    BY <2>2
<1> HIDE DEF u
<1>3. pending \in Seq(Waiting)
  BY DEF UsbInv, TypeOK, Waiting
<1>4. Queued(pending, owed) /\ ((\E i \in DOMAIN pending : pending[i].stale) => spoilt = Channels)
  BY <1>3, QueueMeaning DEF UsbInv, Attached, SubmitIn, Unlink
<1>5. /\ w \in Waiting /\ Queued(p, owed \cup {u})
      /\ (\E i \in DOMAIN p : p[i].stale) => spoilt = Channels
  BY <1>2, <1>4, AppendQueued
<1> HIDE DEF w
<1>6. Sound(q, p, {})
  <2> HIDE DEF s
  <2>1. s = [Now EXCEPT !.pending = Append(pending, w)]
    BY DEF s
  <2> QED
    BY <1>1, <1>5, <2>1, SubmitSound
<1> HIDE DEF p, s
<1>7. {u} \in SUBSET Urbs /\ {} \in SUBSET Channels
  BY <1>2
<1> QED
  BY <1>1, <1>5, <1>6, <1>7, BecomesKeeps DEF SubmitIn

\* A handler that takes no IN URB.
LEMMA OutKeeps ==
  ASSUME UsbInv, NEW q, NEW sp \in SUBSET Channels, Sound(q, pending, sp), Becomes(q, {}, sp),
         Attached
  PROVE  UsbInv'
<1>1. pending \in Seq(Waiting)
  BY DEF UsbInv, TypeOK, Waiting
<1>2. Queued(pending, owed) /\ ((\E i \in DOMAIN pending : pending[i].stale) => spoilt = Channels)
  BY <1>1, QueueMeaning DEF UsbInv, Attached
<1>3. owed \cup {} = owed /\ {} \in SUBSET Urbs
  OBVIOUS
<1> QED
  BY <1>2, <1>3, BecomesKeeps

LEMMA NextUsbInv ==
  ASSUME UsbInv, [Next]_vars
  PROVE  UsbInv'
<1>1. CASE Connect
  BY <1>1, ConnectKeeps
<1>2. CASE Import \/ Disconnect \/ Unplug \/ Closing
  <2>1. plugged \in BOOLEAN
    BY DEF UsbInv, TypeOK
  <2> QED
    BY <1>2, <2>1, SameKeeps DEF Import, Disconnect, Unplug, Closing, Device, Client
<1>3. CASE SubmitIn
  BY <1>3, SubmitInKeeps
<1>4. CASE OutInit
  <2>1. PICK c \in Channels : \E s \in InitCommand(Now, c) : Becomes(s, {}, {})
    BY <1>4 DEF OutInit
  <2>2. PICK s \in InitCommand(Now, c) : Becomes(s, {}, {})
    BY <2>1
  <2> QED
    BY <1>4, <2>2, InitSound, OutKeeps DEF OutInit
<1>5. CASE OutCbor
  <2>1. PICK c \in Channels, need \in 0..MaxSegs :
             \E s \in CborCommand(Now, c, need) : Becomes(s, {}, {})
    BY <1>5 DEF OutCbor
  <2>2. PICK s \in CborCommand(Now, c, need) : Becomes(s, {}, {})
    BY <2>1
  <2> QED
    BY <1>5, <2>2, CborSound, OutKeeps DEF OutCbor
<1>6. CASE OutMsg
  <2>1. PICK c \in Channels, v \in BOOLEAN : \E s \in MsgCommand(Now, c, v) : Becomes(s, {}, {})
    BY <1>6 DEF OutMsg
  <2>2. PICK s \in MsgCommand(Now, c, v) : Becomes(s, {}, {})
    BY <2>1
  <2> QED
    BY <1>6, <2>2, MsgSound, OutKeeps DEF OutMsg
<1>7. CASE OutSequence
  <2>1. PICK c \in Cids, n \in Numbers : \E s \in Sequence(Now, c, n) :
            Becomes(s, {}, IF Has(c) /\ (txn[c].kind = "direct" \/ txn[c].ready) THEN {c} ELSE {})
    BY <1>7 DEF OutSequence
  <2> DEFINE sp == IF Has(c) /\ (txn[c].kind = "direct" \/ txn[c].ready) THEN {c} ELSE {}
  <2>2. PICK s \in Sequence(Now, c, n) : Becomes(s, {}, sp)
    BY <2>1
  <2>3. /\ sp \in SUBSET Channels
        /\ Has(c) /\ (txn[c].kind = "direct" \/ txn[c].ready) => c \in sp
    BY ConstantFacts
  <2> HIDE DEF sp
  <2>4. Sound(s, pending, sp)
    BY <2>3, SequenceSound
  <2> QED
    BY <1>7, <2>2, <2>3, <2>4, OutKeeps DEF OutSequence
<1>8. CASE Unlink
  BY <1>8, UnlinkKeeps
<1>9. CASE Share
  BY <1>9, ShareKeeps
<1>10. CASE Part
  BY <1>10, PartKeeps
<1>11. CASE UNCHANGED vars
  BY <1>11, SameKeeps DEF vars, UsbInv, TypeOK
<1> QED
  BY <1>1, <1>2, <1>3, <1>4, <1>5, <1>6, <1>7, <1>8, <1>9, <1>10, <1>11 DEF Next

----------------------------------------------------------------------------
(* Theorems. *)

\* The inductive invariant: the types, and, as _handle_outgoing, send_response_segment and unlink
\* leave them, the queue with its stale URBs first and the transactions in step with their clients.
THEOREM Invariance == Spec => []UsbInv
<1>1. Init => UsbInv
  <2> SUFFICES ASSUME Init PROVE UsbInv
    OBVIOUS
  <2>1. /\ link = "idle" /\ plugged = TRUE /\ owed = {} /\ pending = <<>> /\ drawn = 0
        /\ txn = [c \in Cids |-> None] /\ common = {} /\ told = [c \in Channels |-> None]
        /\ spoilt = {} /\ garbled = {} /\ moved = FALSE
    BY DEF Init
  <2>2. TypeOK
    <3>1. /\ pending \in Seq([urb : Urbs, stale : BOOLEAN]) /\ drawn \in 0..MaxCids
          /\ told \in [Channels -> Nat \cup {None}]
      BY <2>1, ConstantFacts
    <3>2. txn \in [Cids -> Txns \cup {None}] /\ \A c \in Cids : txn[c] = None
      BY <2>1
    <3> QED
      BY <2>1, <3>1, <3>2 DEF TypeOK
  <2>3. InStep
    BY <2>1 DEF InStep, Has
  <2> QED
    BY <2>1, <2>2, <2>3 DEF UsbInv, StaleFirst, WaitingIsOwed, RepliesInOrder
<1>2. UsbInv /\ [Next]_vars => UsbInv'
  BY NextUsbInv
<1> QED
  BY <1>1, <1>2, PTL DEF Spec

\* However many IN URBs a client has under way, and whatever was left of an earlier connection, no
\* URB of pending is completed twice or after its unlink (_handle_unlink).
THEOREM WaitingTheorem == Spec => []WaitingIsOwed
<1>1. UsbInv => WaitingIsOwed
  BY DEF UsbInv
<1> QED
  BY <1>1, Invariance, PTL

\* For any number of channels and frames: a client that keeps to the protocol gets the frames of a
\* reply in order, from one run of its command (CBORCommand.get_rsp_seg).
THEOREM OrderTheorem == Spec => []RepliesInOrder
<1>1. UsbInv => RepliesInOrder
  BY DEF UsbInv
<1> QED
  BY <1>1, Invariance, PTL
=============================================================================
