------------------------------- MODULE UsbIp -------------------------------
(***************************************************************************)
(* The USB/IP transport, platform/usbip_device.py: a TCP client imports    *)
(* the device and submits and unlinks URBs; the thread of its connection   *)
(* handles them one after another.  IN URBs wait in "pending" until there  *)
(* is a frame to send; OUT URBs carry CTAPHID frames, which CBORCommand of *)
(* ctap/cborcmd.py assembles and answers.                                  *)
(*                                                                         *)
(* cids and pending are class attributes: they outlive the connection, and *)
(* every connection has a thread of its own that works on them without a   *)
(* lock.  The model follows a connection while its thread is the only one  *)
(* at work on them.  When there are more (Share), what they do to each     *)
(* other is anybody's guess: the model only takes up what they leave, when *)
(* all of them are gone (Part).  The keep-alive threads are created and    *)
(* never started.                                                          *)
(***************************************************************************)
EXTENDS Naturals, Sequences, FiniteSets, SequencesExt

CONSTANTS
    MaxCids,    \* bound: channel ids drawn, numbered in the order they are first drawn
    Broadcast,  \* the channel a client sends INIT on
    MaxUrbs,    \* bound: IN URBs a client has under way at a time
    MaxSegs,    \* bound: frames in a reply, and continuation frames in a request
    MaxStale,   \* bound: URBs that were left waiting when a client connects
    Leftovers,  \* the transactions that threads may leave which have worked on them side by side
    None

ASSUME UsbIpAssumption ==
    /\ MaxCids \in Nat \ {0} /\ MaxUrbs \in Nat \ {0} /\ MaxSegs \in Nat \ {0}
    /\ MaxStale \in Nat /\ Broadcast \notin Nat /\ None \notin Nat

Cids == 1..MaxCids
Urbs == 1..MaxUrbs
Channels == Cids \cup {Broadcast}
Numbers == 0..(MaxSegs - 1)     \* of continuation frames

VARIABLES
    link,       \* "idle" no connection, "open" one that is not attached, "attached" one that
                \* is, "shared" several, or one whose client is gone and whose thread is not
    plugged,    \* the container lists the device
    owed,       \* client: IN URBs it waits for
    pending,    \* IN URBs waiting, oldest first; stale ones were submitted on another connection
    drawn,      \* how many channels cids has; they are looked through in this order
    txn,        \* per channel: the cborCmd of its context
    common,     \* frame numbers in the buffer that empty commands share, a class attribute
    told,       \* client: per channel, continuation frames of the reply it has seen, or None
    spoilt,     \* history: channels whose client can not count on a reply in order
    garbled,    \* history: other channels on which a frame came that did not fit
    moved       \* history: the last step sent a frame

vars == <<link, plugged, owed, pending, drawn, txn, common, told, spoilt, garbled, moved>>

\* A CBORCommand.  "direct" ones are made empty and filled in by ctaphid_init and ctaphid_msg.
\* need: continuation frames that complete the request; next: the one expected; buf: those
\* that came early; left: frames of the reply that remain; seg: response_segment; mixed: the
\* command ran again when part of its reply was out.
Command(kind, need, left) ==
    [kind |-> kind, need |-> need, next |-> 0, buf |-> {}, ready |-> FALSE, left |-> left,
     seg |-> 0, mixed |-> FALSE]

Txns == [kind : {"direct", "cbor"}, need : 0..MaxSegs, next : 0..MaxSegs, buf : SUBSET Numbers,
         ready : BOOLEAN, left : 0..MaxSegs, seg : Nat, mixed : BOOLEAN]

ASSUME TransactionAssumption == None \notin Txns /\ Leftovers \subseteq Txns

Init ==
    /\ link = "idle" /\ plugged = TRUE
    /\ owed = {} /\ pending = <<>>
    /\ drawn = 0 /\ txn = [c \in Cids |-> None] /\ common = {}
    /\ told = [c \in Channels |-> None] /\ spoilt = {} /\ garbled = {}
    /\ moved = FALSE

Allocated == 1..drawn
Has(c) == c \in Allocated /\ txn[c] # None

Device == <<pending, drawn, txn, common>>
Client == <<owed, told, spoilt, garbled>>

----------------------------------------------------------------------------
(* Connections *)

\* A client connects; it knows nothing of what an earlier one was waiting for.
Connect ==
    /\ link = "idle" /\ Len(pending) <= MaxStale /\ link' = "open"
    /\ pending' = [i \in DOMAIN pending |-> [pending[i] EXCEPT !.stale = TRUE]]
    /\ owed' = {} /\ told' = [c \in Channels |-> None]
    /\ spoilt' = IF pending = <<>> THEN Allocated ELSE Channels
    /\ garbled' = {} /\ moved' = FALSE
    /\ UNCHANGED <<plugged, drawn, txn, common>>

\* OP_REQ_IMPORT attaches when the bus id is listed, and is a KeyError in handle_attach when
\* it is not.  Whether the device is attached already is not asked.
Import ==
    /\ link = "open"
    /\ link' = IF plugged THEN "attached" ELSE "idle"
    /\ moved' = FALSE
    /\ UNCHANGED <<plugged, Device, Client>>

\* The client closes the connection, or sends a command that the loop raises for.
Disconnect ==
    /\ link \in {"open", "attached"}
    /\ link' = "idle" /\ moved' = FALSE
    /\ UNCHANGED <<plugged, Device, Client>>

\* remove_usb_device and detach_all: an attached connection closes when it looks next.
Unplug ==
    /\ plugged /\ plugged' = FALSE /\ moved' = FALSE
    /\ UNCHANGED <<link, Device, Client>>

Closing ==
    /\ link = "attached" /\ ~plugged
    /\ link' = "idle" /\ moved' = FALSE
    /\ UNCHANGED <<plugged, Device, Client>>

----------------------------------------------------------------------------
(* Several connections *)

\* Another client imports the device, which attaches everybody who asks; or this connection is
\* lost while its thread is at a URB, and may be for as long as a user takes to answer; or a frame
\* can not be sent.  Nobody can count on anything any more.
Share ==
    /\ link = "attached" \/ (link = "open" /\ plugged)
    /\ link' = "shared" /\ moved' = FALSE
    /\ owed' = {} /\ told' = [c \in Channels |-> None] /\ spoilt' = Channels /\ garbled' = {}
    /\ UNCHANGED <<plugged, Device>>

\* The last of them is gone.  Their threads may have left any URBs, have drawn channels, and leave
\* transactions and the buffer in states that no thread makes on its own; a frame 0 is never early.
Part ==
    /\ link = "shared" /\ link' = "idle"
    /\ pending' \in SeqOf([urb : Urbs, stale : {TRUE}], MaxStale)
    /\ drawn' \in drawn..MaxCids
    /\ \E f \in [1..drawn' -> Leftovers \cup {None}] :
          txn' = [c \in Cids |-> IF c <= drawn' THEN f[c] ELSE None]
    /\ common' \in SUBSET (Numbers \ {0})
    /\ moved' = FALSE
    /\ UNCHANGED <<plugged, Client>>

----------------------------------------------------------------------------
(* What the handling of one URB does, as a record: the new values and the  *)
(* frames sent; raised says that an exception ended the connection.        *)

Now == [pending |-> pending, drawn |-> drawn, txn |-> txn, common |-> common, sent |-> <<>>,
        raised |-> FALSE]

Raise(s) == [s EXCEPT !.raised = TRUE]
Put(s, c, t) == [s EXCEPT !.txn[c] = t]

\* Mutant: the offset for the first frame is left out.
FrameOfMutant(c, t) == [cid |-> c, first |-> t.seg = 0, num |-> t.seg, mixed |-> t.mixed]

\* get_rsp_seg numbers the continuation frames from 0.
FrameOf(c, t) == [cid |-> c, first |-> t.seg = 0, num |-> IF t.seg < 2 THEN 0 ELSE t.seg - 1,
                  mixed |-> t.mixed]

\* Mutant: the transaction stays when its reply is out.
SendSegmentMutant(s, c, at, t) ==
    IF s.pending = <<>> THEN Put(s, at, t)
    ELSE [Put(s, at, [t EXCEPT !.seg = @ + 1, !.left = IF @ = 0 THEN 0 ELSE @ - 1])
             EXCEPT !.pending = Tail(@),
                    !.sent = Append(@, [to |-> Head(s.pending), frame |-> FrameOf(c, t)])]

\* send_response_segment: one frame of t, which is kept at channel "at", goes to the oldest
\* waiting IN URB under channel id c.  A reply that is out takes c's transaction with it; del
\* raises a KeyError when c has none.
SendSegment(s, c, at, t) ==
    IF s.pending = <<>> THEN Put(s, at, t)
    ELSE LET u == [t EXCEPT !.seg = @ + 1, !.left = IF @ = 0 THEN 0 ELSE @ - 1]
             out == [Put(s, at, u) EXCEPT !.pending = Tail(@),
                        !.sent = Append(@, [to |-> Head(s.pending), frame |-> FrameOf(c, t)])]
         IN  IF u.left > 0 \/ c = Broadcast THEN out
             ELSE IF c <= out.drawn /\ out.txn[c] # None THEN Put(out, c, None)
             ELSE Raise(out)

\* unpack: the command makes a reply of any length.  An empty command has no command byte and
\* is answered with an error.
Run(s, c, t) ==
    {SendSegment(s, c, c, [t EXCEPT !.ready = TRUE, !.left = n, !.mixed = t.seg > 0]) :
        n \in IF t.kind = "direct" THEN {1} ELSE 1..MaxSegs}

\* ctaphid_init: any id is drawn, in use or not, with no look at cids.  The reply goes out
\* under the channel of the request, at once or not at all.
InitCommand(s, c) ==
    {SendSegment([s EXCEPT !.drawn = IF new > @ THEN new ELSE @], c, new, Command("direct", 0, 1)) :
        new \in {n \in Cids : n <= drawn + 1}}

\* ctaphid_cbor: the constructor runs a request that came whole, and may raise; an unknown
\* channel is a KeyError after that.  A message that just fills the first frame waits for
\* another.
CborCommand(s, c, need) ==
    {Raise(s)} \cup
    (IF c \notin Allocated THEN {}
     ELSE IF need = 0 THEN Run(s, c, Command("cbor", 0, 0)) ELSE {Put(s, c, Command("cbor", need, 0))})

\* ctaphid_msg: the version request is answered, all others are not.
MsgCommand(s, c, version) ==
    IF ~version THEN {s}
    ELSE IF c \notin Allocated THEN {Raise(s)}
    ELSE {SendSegment(s, c, c, Command("direct", 0, 1))}

\* The frame expected once n is there and those of b that follow it without a gap.
Following(n, b) == CHOOSE m \in (n + 1)..(n + 1 + MaxSegs) :
                      m \notin b /\ \A k \in (n + 1)..(m - 1) : k \in b

Buffered(s, c) == IF s.txn[c].kind = "direct" THEN s.common ELSE s.txn[c].buf
Buffer(s, c, b) == IF s.txn[c].kind = "direct" THEN [s EXCEPT !.common = b]
                   ELSE [s EXCEPT !.txn[c].buf = b]

\* append_segment, for a frame that is early, late or expected: the last is appended with those
\* that were waiting for it, and when the request is complete it runs, again if need be.
Appended(s, c, n) ==
    LET b == Buffered(s, c)
        m == Following(n, b)
        s2 == Buffer([s EXCEPT !.txn[c].next = m], c, b \ (n + 1)..(m - 1))
    IN  IF n > s.txn[c].next THEN {Buffer(s, c, b \cup {n})}
        ELSE IF n < s.txn[c].next THEN {s}
        ELSE IF m < s.txn[c].need THEN {s2}
        ELSE Run(s2, c, s2.txn[c]) \cup (IF s.txn[c].kind = "direct" THEN {} ELSE {Raise(s2)})

\* _handle_incoming_sequence: what is ready is sent, also when the frame was none of it.
Sequence(s, c, n) ==
    IF ~Has(c) THEN {s}
    ELSE IF n # txn[c].next /\ txn[c].ready
    THEN {SendSegment(q, c, c, q.txn[c]) : q \in Appended(s, c, n)}
    ELSE Appended(s, c, n)

----------------------------------------------------------------------------
(* URBs *)

\* The step that handled a URB, which is u if it was an IN URB, and spoilt the channels sp.  At
\* most one frame was sent; a first frame starts a reply and others continue it.
Becomes(s, u, sp) ==
    LET mine == {i \in DOMAIN s.sent : ~s.sent[i].to.stale}
        f == s.sent[1].frame
        fits == f.first \/ (told[f.cid] # None /\ f.num = told[f.cid] /\ ~f.mixed)
    IN  /\ pending' = s.pending /\ drawn' = s.drawn /\ txn' = s.txn /\ common' = s.common
        /\ link' = IF s.raised THEN "idle" ELSE link
        /\ owed' = (owed \cup u) \ {s.sent[i].to.urb : i \in mine}
        /\ spoilt' = spoilt \cup sp /\ moved' = (s.sent # <<>>)
        /\ told' = [c \in Channels |->
                        IF c \in spoilt' THEN None
                        ELSE IF mine = {} \/ f.cid # c THEN told[c]
                        ELSE IF f.first THEN 0 ELSE IF told[c] = None THEN None ELSE told[c] + 1]
        /\ garbled' = (IF mine = {} \/ fits THEN garbled ELSE garbled \cup {f.cid}) \ spoilt'
        /\ UNCHANGED plugged

Attached == link = "attached" /\ plugged

\* _handle_outgoing: the IN URB waits, and takes a frame of the first channel that has a
\* reply ready.
Ready(c) == Has(c) /\ txn[c].ready
FirstReady == CHOOSE c \in Allocated : Ready(c) /\ \A d \in 1..(c - 1) : ~Ready(d)

\* Mutant: an IN URB only waits; frames go out when a command or a frame comes in.
SubmitInMutant ==
    /\ Attached /\ owed # Urbs
    /\ LET u == CHOOSE n \in Urbs \ owed : \A m \in Urbs \ owed : n <= m
       IN  Becomes([Now EXCEPT !.pending = Append(@, [urb |-> u, stale |-> FALSE])], {u}, {})

SubmitIn ==
    /\ Attached /\ owed # Urbs
    /\ LET u == CHOOSE n \in Urbs \ owed : \A m \in Urbs \ owed : n <= m
           s == [Now EXCEPT !.pending = Append(@, [urb |-> u, stale |-> FALSE])]
       IN  \E q \in IF \E c \in Cids : Ready(c)
                    THEN {SendSegment(s, FirstReady, FirstReady, txn[FirstReady])} ELSE {s} :
              Becomes(q, {u}, {})

\* _handle_incoming_cmd and the handlers of commands.
OutInit ==
    Attached /\ \E c \in Channels : \E s \in InitCommand(Now, c) : Becomes(s, {}, {})

OutCbor ==
    Attached /\ \E c \in Channels, need \in 0..MaxSegs : \E s \in CborCommand(Now, c, need) :
        Becomes(s, {}, {})

OutMsg ==
    Attached /\ \E c \in Channels, v \in BOOLEAN : \E s \in MsgCommand(Now, c, v) : Becomes(s, {}, {})

\* Continuation frames, in any order; a client that sends one after its request was complete, or
\* to an empty command, spoils its channel.
OutSequence ==
    Attached /\ \E c \in Cids, n \in Numbers : \E s \in Sequence(Now, c, n) :
        Becomes(s, {}, IF Has(c) /\ (txn[c].kind = "direct" \/ txn[c].ready) THEN {c} ELSE {})

\* Mutant: the request is looked up and reported, and stays in pending.
UnlinkMutant ==
    /\ Attached
    /\ \E u \in Urbs : owed' = owed \ {u}
    /\ moved' = FALSE
    /\ UNCHANGED <<link, plugged, Device, told, spoilt, garbled>>

\* unlink: an IN URB that still waits is taken out.  The client is done with it in any case.
Unlink ==
    /\ Attached
    /\ \E u \in Urbs :
          LET here == {i \in DOMAIN pending : pending[i].urb = u}
          IN  /\ pending' = IF here = {} THEN pending
                            ELSE RemoveAt(pending, CHOOSE i \in here : \A j \in here : j <= i)
              /\ owed' = owed \ {u}
    /\ moved' = FALSE
    /\ UNCHANGED <<link, plugged, drawn, txn, common, told, spoilt, garbled>>

\* Control requests, PING, CANCEL, KEEPALIVE, ERROR, unknown commands and the device list are
\* answered or not, and change nothing.

Next ==
    \/ Connect \/ Import \/ Disconnect \/ Unplug \/ Closing
    \/ Share \/ Part
    \/ SubmitIn \/ OutInit \/ OutCbor \/ OutMsg \/ OutSequence \/ Unlink

Spec == Init /\ [][Next]_vars

\* usbhid always has an IN URB under way.
FairSpec == Spec /\ WF_vars(SubmitIn)

----------------------------------------------------------------------------
(* Properties *)

\* The types of the variables; a channel that was never drawn has no transaction.
TypeOK ==
    /\ link \in {"idle", "open", "attached", "shared"} /\ plugged \in BOOLEAN
    /\ owed \subseteq Urbs /\ pending \in Seq([urb : Urbs, stale : BOOLEAN]) /\ drawn \in 0..MaxCids
    /\ txn \in [Cids -> Txns \cup {None}]
    /\ \A c \in Cids : c \notin Allocated => txn[c] = None
    /\ common \subseteq Numbers /\ spoilt \subseteq Channels
    /\ told \in [Channels -> Nat \cup {None}]
    /\ garbled \subseteq Channels /\ moved \in BOOLEAN

\* On a connection that no other is served beside, an IN URB that waits for a frame is one that
\* its client waits for, and is there once: no URB is completed twice, or after it was unlinked.
WaitingIsOwed ==
    \A i, j \in DOMAIN pending :
        link # "shared" /\ ~pending[i].stale =>
            /\ pending[i].urb \in owed
            /\ (~pending[j].stale /\ pending[i].urb = pending[j].urb) => i = j

\* A client that keeps to the protocol, on a connection that no URBs of another were left on and
\* that none was served beside, gets the frames of a reply on a channel drawn on it from the first
\* one on, in order, without a gap and from one run of its command: whatever other channels do,
\* and whatever earlier connections have left in cids, side by side or not.
RepliesInOrder == garbled = {}

\* URBs that were left wait before all others, and while one waits nobody counts on a reply;
\* nor does anybody while there are several connections.
StaleFirst ==
    /\ \A i, j \in DOMAIN pending : i < j /\ pending[j].stale => pending[i].stale
    /\ (\E i \in DOMAIN pending : pending[i].stale) => spoilt = Channels
    /\ link = "shared" => spoilt = Channels

\* On a channel that is not spoilt, a request that is not complete has sent nothing, and a reply
\* that is ready has frames left, is from one run of its command, and its next frame is the one
\* its client expects.
InStep ==
    \A c \in Cids \ spoilt : Has(c) => LET t == txn[c] IN
        /\ t.kind = "cbor" /\ ~t.ready => t.seg = 0
        /\ t.ready => /\ t.left > 0 /\ t.kind = "cbor" /\ ~t.mixed
                      /\ t.seg > 0 => told[c] = t.seg - 1

\* The inductive invariant.
UsbInv == TypeOK /\ StaleFirst /\ InStep /\ WaitingIsOwed /\ RepliesInOrder

\* As long as a reply is ready, frames go out: with a client that polls, a reply can not be
\* left behind, unless URBs of another connection took frames of it.
RepliesGoOut ==
    (\E c \in Cids : Ready(c))
        ~> (moved \/ ~Attached \/ Broadcast \in spoilt \/ ~\E c \in Cids : Ready(c))

=============================================================================
