--------------------------- MODULE Session_proofs ---------------------------
(***************************************************************************)
(* Whatever the watchdog, the clock and the desktop application do between *)
(* the steps of a request, what it signs with and stores is of the session *)
(* it began with.                                                          *)
(***************************************************************************)
EXTENDS Session, TLAPS

\* All of the invariant but the types.
Meaning == EntriesCohere /\ NoDuplicate /\ StepsFit /\ SameSession /\ Authorised /\ KeyInHand
           /\ StillExcluded /\ ImageFits

\* None is no wallet, PIN, token, entry or session.
LEMMA NoneFacts ==
  /\ None \notin Wallets /\ None # PlatKey /\ None \notin PINs /\ None \notin Tokens
  /\ None \notin Entry /\ None \notin Session
  /\ None # "made" /\ None # Absent /\ Absent # "made" /\ PlatKey \notin Wallets
  BY SessionAssumption, NoEntryAssumption DEF Keys, Tokens

\* Which kind of request an operation is.
LEMMA JobFacts ==
  ASSUME TypeOK
  PROVE  /\ job # NoRequest => job.c \in Channels
         /\ job.op \in {"make", "assert"} => job \in Sign
         /\ job.op = "token" => job \in GetToken
         /\ job.op # "none" => job # NoRequest
  BY DEF TypeOK, Plain, Sign, GetToken, NoRequest

\* The session of an entry.
LEMMA SessionFacts ==
  ASSUME TypeOK, NEW c \in Channels
  PROVE  /\ open[c] \in Entry \cup {None}
         /\ SessionOf(open[c]) \in Session \cup {None}
         /\ (SessionOf(open[c]) = None) <=> (open[c] = None)
         /\ open[c] # None => /\ SessionOf(open[c]).upv = open[c].upv
                              /\ SessionOf(open[c]).wallet = open[c].wallet
                              /\ SessionOf(open[c]).pin = open[c].pin
                              /\ SessionOf(open[c]).token = open[c].token
  BY NoneFacts DEF TypeOK, SessionOf, Entry, Session

\* At first there is no session and no request.
LEMMA InitSessionInv == Init => SessionInv
<1> SUFFICES ASSUME Init PROVE SessionInv
  OBVIOUS
<1>1. TypeOK
  <2>1. retry \in RetriesMin..Retries /\ tokens \in 0..MaxTokens
    BY SessionAssumption DEF Init, RetriesMin
  <2>2. creds \in [Wallets -> [Accounts -> Nat]] /\ pin \in [Wallets -> PINs \cup {None}]
    BY DEF Init
  <2> QED
    BY <2>1, <2>2 DEF Init, TypeOK
<1>2. Meaning
  BY DEF Init, Meaning, EntriesCohere, NoDuplicate, StepsFit, SameSession, Authorised, Choosing,
         KeyInHand, StillExcluded, ImageFits, NoRequest
<1> QED
  BY <1>1, <1>2 DEF SessionInv, Meaning

\* A request that ends leaves nothing behind.
LEMMA EndFacts ==
  ASSUME SessionInv, NEW r, NEW k, End(r, k)
  PROVE  /\ StepsFit' /\ SameSession' /\ Authorised' /\ KeyInHand' /\ StillExcluded' /\ ImageFits'
         /\ pc' = "idle" /\ job' = NoRequest /\ ref' = None /\ key' = None /\ resident' = FALSE
         /\ first' = None /\ popped' = FALSE /\ image' = None /\ touched' = FALSE
  BY DEF End, StepsFit, SameSession, Authorised, Choosing, KeyInHand, StillExcluded, ImageFits,
    NoRequest

\* A request that begins holds nothing yet.
LEMMA BeginKeeps ==
  ASSUME SessionInv, Request
  PROVE  TypeOK' /\ Meaning'
<1> USE NoneFacts, SessionAssumption
<1>1. PICK j \in Plain \cup Sign \cup GetToken :
        /\ Begin(j)
        /\ j.op = "retries" => retry > RetriesMin
        /\ j.op = "token" => tokens < MaxTokens
  BY DEF Request, Plain, Sign, GetToken
<1>2. /\ j.op \in {"info", "select", "retries", "agree", "make", "assert", "token"}
      /\ j.c \in Channels
  BY DEF Plain, Sign, GetToken
<1>3. TypeOK'
  BY <1>1, <1>2, SessionFacts DEF Begin, SessionInv, TypeOK, disk
<1>4. EntriesCohere' /\ NoDuplicate'
  BY <1>1 DEF Begin, SessionInv, EntriesCohere, NoDuplicate, disk
<1>5. SameSession'
  BY <1>1, <1>2 DEF Begin, SameSession
<1>6. StepsFit' /\ Authorised' /\ KeyInHand' /\ StillExcluded' /\ ImageFits'
  BY <1>1, <1>2 DEF Begin, StepsFit, Authorised, Choosing, KeyInHand, StillExcluded, ImageFits,
    SessionInv
<1> QED
  BY <1>3, <1>4, <1>5, <1>6 DEF Meaning

\* What a step that leaves the sessions and the wallets alone does not disturb.
LEMMA CalmKeeps ==
  ASSUME SessionInv, UNCHANGED <<open, Rest>>,
         pc' = "idle" \/ (pc # "idle" /\ UNCHANGED <<job, first, popped>>)
  PROVE  EntriesCohere' /\ NoDuplicate' /\ SameSession'
  BY DEF SessionInv, EntriesCohere, NoDuplicate, SameSession, Rest, disk

\* Each variable keeps its type in the steps that decide whether a request is let in ...
LEMMA AdmitTypes ==
  ASSUME SessionInv, Presence \/ Ask \/ Parse \/ Uv \/ Auth \/ Refuse
  PROVE  TypeOK'
<1> USE NoneFacts, SessionAssumption, JobFacts DEF SessionInv, TypeOK, Rest, disk, Goes, Takes, End
<1>1. CASE Presence
  BY <1>1 DEF Presence, Verified
<1>2. CASE Ask
  <2>1. job.c \in Channels
    BY <1>2 DEF Ask, StepsFit
  <2>2. CASE CacheUp(job.c) /\ End("ok", None)
    <3>1. open' \in [Channels -> Entry \cup {None}]
      BY <2>1, <2>2 DEF CacheUp, NewEntry, Entry
    <3> QED
      BY <1>2, <2>2, <3>1 DEF Ask
  <2>3. CASE UNCHANGED open /\ End("denied", None)
    BY <1>2, <2>3 DEF Ask
  <2> QED
    BY <1>2, <2>2, <2>3 DEF Ask
<1>3. CASE Parse
  BY <1>3 DEF Parse
<1>4. CASE Uv
  BY <1>4 DEF Uv, Verified
<1>5. CASE Auth
  BY <1>5 DEF Auth, TokenOf
<1>6. CASE Refuse
  BY <1>6 DEF Refuse
<1> QED
  BY <1>1, <1>2, <1>3, <1>4, <1>5, <1>6

\* ... and they begin nothing for a session that is not the one the request began with.
LEMMA AdmitKeeps ==
  ASSUME SessionInv, Presence \/ Ask \/ Parse \/ Uv \/ Auth \/ Refuse
  PROVE  Meaning'
<1> USE NoneFacts DEF Meaning, SessionInv, Rest, disk, Goes, Takes, End
<1>1. CASE Presence
  <2>1. EntriesCohere' /\ NoDuplicate' /\ SameSession'
    BY <1>1, CalmKeeps DEF Presence
  <2>2. StepsFit'
    BY <1>1 DEF Presence, Verified, StepsFit, NoRequest
  <2>3. Authorised'
    BY <1>1, SessionFacts, JobFacts
       DEF Presence, Verified, StepsFit, Authorised, Choosing, SameSession, TypeOK, Sign
  <2>4. KeyInHand'
    BY <1>1 DEF Presence, Verified, StepsFit, Authorised, KeyInHand, Choosing
  <2>5. StillExcluded' /\ ImageFits'
    BY <1>1 DEF Presence, Verified, StepsFit, StillExcluded, ImageFits, KeyInHand, Choosing
  <2> QED
    BY <2>1, <2>2, <2>3, <2>4, <2>5
<1>2. CASE Ask
  <2>1. StepsFit' /\ SameSession' /\ Authorised' /\ KeyInHand' /\ StillExcluded' /\ ImageFits'
    BY <1>2, EndFacts DEF Ask
  <2>2. EntriesCohere'
    <3>1. job.c \in Channels
      BY <1>2, JobFacts DEF Ask, StepsFit
    <3>2. CASE CacheUp(job.c)
      BY <1>2, <3>1, <3>2, SessionFacts DEF Ask, CacheUp, NewEntry, EntriesCohere, Entry, TypeOK
    <3>3. CASE UNCHANGED open
      BY <1>2, <3>3 DEF Ask, EntriesCohere
    <3> QED
      BY <1>2, <3>2, <3>3 DEF Ask
  <2>3. NoDuplicate'
    BY <1>2 DEF Ask, NoDuplicate
  <2> QED
    BY <2>1, <2>2, <2>3
<1>3. CASE Parse
  <2>1. EntriesCohere' /\ NoDuplicate' /\ SameSession'
    BY <1>3, CalmKeeps DEF Parse
  <2>2. StepsFit'
    BY <1>3 DEF Parse, StepsFit, NoRequest
  <2>3. Authorised'
    BY <1>3 DEF Parse, StepsFit, Authorised, Choosing
  <2>4. KeyInHand'
    BY <1>3 DEF Parse, StepsFit, Authorised, KeyInHand, Choosing
  <2>5. StillExcluded' /\ ImageFits'
    BY <1>3 DEF Parse, StepsFit, StillExcluded, ImageFits, KeyInHand, Choosing
  <2> QED
    BY <2>1, <2>2, <2>3, <2>4, <2>5
<1>4. CASE Uv
  <2>1. EntriesCohere' /\ NoDuplicate' /\ SameSession'
    BY <1>4, CalmKeeps DEF Uv
  <2>2. StepsFit'
    BY <1>4 DEF Uv, Verified, StepsFit, NoRequest
  <2>3. Authorised'
    BY <1>4, SessionFacts, JobFacts
       DEF Uv, Verified, StepsFit, Authorised, Choosing, SameSession, TypeOK, Sign
  <2>4. KeyInHand'
    BY <1>4 DEF Uv, Verified, StepsFit, Authorised, KeyInHand, Choosing
  <2>5. StillExcluded' /\ ImageFits'
    BY <1>4 DEF Uv, Verified, StepsFit, StillExcluded, ImageFits, KeyInHand, Choosing
  <2> QED
    BY <2>1, <2>2, <2>3, <2>4, <2>5
<1>5. CASE Auth
  <2>1. EntriesCohere' /\ NoDuplicate' /\ SameSession'
    BY <1>5, CalmKeeps DEF Auth
  <2>2. StepsFit'
    BY <1>5 DEF Auth, TokenOf, StepsFit, NoRequest
  <2>3. Authorised'
    BY <1>5, SessionFacts, JobFacts
       DEF Auth, TokenOf, StepsFit, Authorised, Choosing, SameSession, TypeOK, Sign
  <2>4. KeyInHand'
    BY <1>5 DEF Auth, TokenOf, StepsFit, Authorised, KeyInHand, Choosing
  <2>5. StillExcluded' /\ ImageFits'
    BY <1>5 DEF Auth, TokenOf, StepsFit, StillExcluded, ImageFits, KeyInHand, Choosing
  <2> QED
    BY <2>1, <2>2, <2>3, <2>4, <2>5
<1>6. CASE Refuse
  <2>1. EntriesCohere' /\ NoDuplicate' /\ SameSession'
    BY <1>6, CalmKeeps DEF Refuse
  <2>2. StepsFit'
    BY <1>6 DEF Refuse, StepsFit, NoRequest
  <2>3. Authorised'
    BY <1>6 DEF Refuse, StepsFit, Authorised, Choosing
  <2>4. KeyInHand'
    BY <1>6 DEF Refuse, StepsFit, Authorised, KeyInHand, Choosing
  <2>5. StillExcluded' /\ ImageFits'
    BY <1>6 DEF Refuse, StepsFit, StillExcluded, ImageFits, KeyInHand, Choosing
  <2> QED
    BY <2>1, <2>2, <2>3, <2>4, <2>5
<1> QED
  BY <1>1, <1>2, <1>3, <1>4, <1>5, <1>6

\* The steps that look for the key to sign with keep the types ...
LEMMA ResolveTypes ==
  ASSUME SessionInv, Resolve \/ Lookup \/ HasWallet \/ Take \/ Load \/ Platform
  PROVE  TypeOK'
<1> USE NoneFacts, SessionAssumption, JobFacts DEF SessionInv, TypeOK, Rest, disk, Goes, Takes, End
<1>1. CASE Resolve
  BY <1>1 DEF Resolve, Verified
<1>2. CASE Lookup
  BY <1>2 DEF Lookup
<1>3. CASE HasWallet
  BY <1>3 DEF HasWallet
<1>4. CASE Take
  <2>1. SessionOf(open[job.c]) \in Session \cup {None}
    BY <1>4, SessionFacts DEF Take, StepsFit
  <2> QED
    BY <1>4, <2>1 DEF Take
<1>5. CASE Load
  <2>1. CASE End("raised", None)
    BY <1>5, <2>1 DEF Load
  <2>2. CASE ~End("raised", None)
    <3>1. key' \in Keys
      BY <1>5, <2>2 DEF Load, KeyInHand, Authorised, Choosing, Session, Keys
    <3>2. resident' = (creds[ref.wallet][job.account] > 0)
      BY <1>5, <2>2 DEF Load
    <3>3. resident' \in BOOLEAN
      <4>1. CASE creds[ref.wallet][job.account] > 0
        BY <3>2, <4>1
      <4>2. CASE ~(creds[ref.wallet][job.account] > 0)
        BY <3>2, <4>2
      <4> QED
        BY <4>1, <4>2
    <3> QED
      BY <1>5, <2>2, <3>1, <3>3 DEF Load
  <2> QED
    BY <2>1, <2>2
<1>6. CASE Platform
  BY <1>6 DEF Platform, Keys
<1> QED
  BY <1>1, <1>2, <1>3, <1>4, <1>5, <1>6

\* ... and what they find is the wallet of that session, or the platform key.
LEMMA ResolveKeeps ==
  ASSUME SessionInv, Resolve \/ Lookup \/ HasWallet \/ Take \/ Load \/ Platform
  PROVE  Meaning'
<1> USE NoneFacts DEF Meaning, SessionInv, Rest, disk, Goes, Takes, End
<1>1. CASE Resolve
  <2>1. EntriesCohere' /\ NoDuplicate' /\ SameSession'
    BY <1>1, CalmKeeps DEF Resolve
  <2>2. StepsFit'
    BY <1>1 DEF Resolve, Verified, StepsFit, NoRequest
  <2>3. Authorised'
    BY <1>1 DEF Resolve, Verified, StepsFit, Authorised, Choosing
  <2>4. KeyInHand'
    BY <1>1, SessionFacts, JobFacts
       DEF Resolve, Verified, StepsFit, Authorised, KeyInHand, Choosing, SameSession, TypeOK, Sign
  <2>5. StillExcluded' /\ ImageFits'
    BY <1>1 DEF Resolve, Verified, StepsFit, StillExcluded, ImageFits, KeyInHand, Choosing
  <2> QED
    BY <2>1, <2>2, <2>3, <2>4, <2>5
<1>2. CASE Lookup
  <2>1. EntriesCohere' /\ NoDuplicate' /\ SameSession'
    BY <1>2, CalmKeeps DEF Lookup
  <2>2. StepsFit'
    BY <1>2 DEF Lookup, StepsFit, NoRequest
  <2>3. Authorised'
    BY <1>2 DEF Lookup, StepsFit, Authorised, Choosing
  <2>4. KeyInHand'
    BY <1>2 DEF Lookup, StepsFit, Authorised, KeyInHand, Choosing
  <2>5. StillExcluded' /\ ImageFits'
    BY <1>2 DEF Lookup, StepsFit, StillExcluded, ImageFits, KeyInHand, Choosing
  <2> QED
    BY <2>1, <2>2, <2>3, <2>4, <2>5
<1>3. CASE HasWallet
  <2>1. EntriesCohere' /\ NoDuplicate' /\ SameSession'
    BY <1>3, CalmKeeps DEF HasWallet
  <2>2. StepsFit'
    BY <1>3 DEF HasWallet, StepsFit, NoRequest
  <2>3. Authorised'
    BY <1>3 DEF HasWallet, StepsFit, Authorised, Choosing
  <2>4. KeyInHand'
    BY <1>3, SessionFacts, JobFacts
       DEF HasWallet, StepsFit, Authorised, KeyInHand, Choosing, SameSession, TypeOK, Sign
  <2>5. StillExcluded' /\ ImageFits'
    BY <1>3 DEF HasWallet, StepsFit, StillExcluded, ImageFits, KeyInHand, Choosing
  <2> QED
    BY <2>1, <2>2, <2>3, <2>4, <2>5
<1>4. CASE Take
  <2>1. EntriesCohere' /\ NoDuplicate' /\ SameSession'
    BY <1>4, CalmKeeps DEF Take
  <2>2. StepsFit'
    BY <1>4 DEF Take, StepsFit, NoRequest
  <2>3. Authorised'
    BY <1>4 DEF Take, StepsFit, Authorised, Choosing
  <2>4. KeyInHand'
    BY <1>4, SessionFacts, JobFacts
       DEF Take, StepsFit, Authorised, KeyInHand, Choosing, SameSession, TypeOK, Sign
  <2>5. StillExcluded' /\ ImageFits'
    BY <1>4 DEF Take, StepsFit, StillExcluded, ImageFits, KeyInHand, Choosing
  <2> QED
    BY <2>1, <2>2, <2>3, <2>4, <2>5
<1>5. CASE Load
  <2>1. EntriesCohere' /\ NoDuplicate' /\ SameSession'
    BY <1>5, CalmKeeps DEF Load
  <2>2. StepsFit'
    BY <1>5 DEF Load, StepsFit, NoRequest
  <2>3. Authorised'
    BY <1>5 DEF Load, StepsFit, Authorised, Choosing
  <2>4. CASE End("raised", None)
    <3>1. KeyInHand' /\ StillExcluded' /\ ImageFits'
      BY <1>5, <2>4, EndFacts DEF Load
    <3> QED
      BY <2>1, <2>2, <2>3, <3>1
  <2>5. CASE ~End("raised", None)
    <3>1. /\ pc' \in {"attest", "choose"} /\ key' = ref.wallet
          /\ UNCHANGED <<ref, job, first, popped, creds, image, touched>>
          /\ pc = "load"
          /\ resident' = (creds[ref.wallet][job.account] > 0)
      BY <1>5, <2>5 DEF Load
    <3>2. ref = first /\ ref.wallet \in Wallets /\ job.account \in Accounts
      <4>1. pc = "load" /\ ref = first /\ ref.wallet # None /\ first # None /\ job \in Sign
        BY <1>5, JobFacts DEF Load, StepsFit, Authorised, Choosing, KeyInHand
      <4> QED
        BY <4>1 DEF TypeOK, Session, Sign
    <3>3. creds[ref.wallet][job.account] \in Nat
      BY <3>2 DEF TypeOK
    <3>4. KeyInHand'
      BY <3>1, <3>2 DEF KeyInHand
    <3>5. resident' <=> (creds[ref.wallet][job.account] > 0)
      BY <3>1, <3>3
    <3>6. StillExcluded' /\ ImageFits'
      BY <3>1, <3>2, <3>3, <3>5 DEF StillExcluded, ImageFits
    <3> QED
      BY <2>1, <2>2, <2>3, <3>4, <3>6
  <2> QED
    BY <2>4, <2>5
<1>6. CASE Platform
  <2>1. EntriesCohere' /\ NoDuplicate' /\ SameSession'
    BY <1>6, CalmKeeps DEF Platform
  <2>2. StepsFit'
    BY <1>6 DEF Platform, StepsFit, NoRequest
  <2>3. Authorised'
    BY <1>6 DEF Platform, StepsFit, Authorised, Choosing
  <2>4. KeyInHand'
    BY <1>6 DEF Platform, StepsFit, Authorised, KeyInHand, Choosing
  <2>5. StillExcluded' /\ ImageFits'
    BY <1>6 DEF Platform, StepsFit, StillExcluded, ImageFits, KeyInHand, Choosing
  <2> QED
    BY <2>1, <2>2, <2>3, <2>4, <2>5
<1> QED
  BY <1>1, <1>2, <1>3, <1>4, <1>5, <1>6

\* The steps that answer a makeCredential or getAssertion keep the types ...
LEMMA SignTypes ==
  ASSUME SessionInv, Attest \/ Save \/ Write \/ Choose
  PROVE  TypeOK'
<1> USE NoneFacts, SessionAssumption, JobFacts DEF SessionInv, TypeOK, Rest, disk, Goes, Takes, End
<1>1. CASE Attest
  BY <1>1 DEF Attest
<1>2. CASE Save
  <2>1. creds[ref.wallet] \in [Accounts -> Nat]
    BY <1>2 DEF Save, StepsFit, KeyInHand, Choosing
  <2> QED
    BY <1>2, <2>1 DEF Save
<1>3. CASE Write
  <2>1. ref.wallet \in Wallets /\ job.account \in Accounts /\ ref.pin \in PINs \cup {None}
    BY <1>3 DEF Write, StepsFit, Authorised, KeyInHand, Choosing, Sign, Session
  <2>2. [image EXCEPT ![job.account] = @ + 1] \in [Accounts -> Nat]
    BY <1>3, <2>1 DEF Write, ImageFits
  <2>3. creds' \in [Wallets -> [Accounts -> Nat]]
    BY <1>3, <2>1, <2>2 DEF Write
  <2>4. pin' \in [Wallets -> PINs \cup {None}]
    BY <1>3, <2>1 DEF Write
  <2> QED
    BY <1>3, <2>3, <2>4 DEF Write
<1>4. CASE Choose
  BY <1>4 DEF Choose
<1> QED
  BY <1>1, <1>2, <1>3, <1>4

\* What a save leaves: nothing new, or what it had loaded and one credential of the account, in
\* the wallet of the session and under its PIN or none.
LEMMA WriteFacts ==
  ASSUME SessionInv, Write
  PROVE  /\ ref = first /\ key = first.wallet /\ ref.wallet \in Wallets /\ job.account \in Accounts
         /\ done'.op = "make" /\ done'.result \in {"ok", "raised"}
         /\ \A w \in Wallets \ {ref.wallet} : creds'[w] = creds[w] /\ pin'[w] = pin[w]
         /\ \/ creds' = creds
            \/ /\ creds'[ref.wallet] \in [Accounts -> 0..1] /\ creds'[ref.wallet][job.account] = 1
               /\ \A a \in Accounts \ {job.account} : creds'[ref.wallet][a] = image[a]
               /\ pin'[ref.wallet] \in {first.pin, None}
               /\ done'.result = "ok" => pin'[ref.wallet] = first.pin /\ done'.key = key
<1> USE JobFacts DEF SessionInv, End
<1>1. /\ ref = first /\ key = first.wallet /\ ref.wallet \in Wallets /\ job.account \in Accounts
      /\ job.op = "make"
  BY DEF Write, StepsFit, KeyInHand, Choosing, Sign
<1>2. /\ done'.op = "make" /\ done'.result \in {"ok", "raised"}
  BY <1>1 DEF Write
<1>3. \A w \in Wallets \ {ref.wallet} : creds'[w] = creds[w] /\ pin'[w] = pin[w]
  BY <1>1 DEF Write, TypeOK
<1>4. CASE creds' = creds
  BY <1>1, <1>2, <1>3, <1>4
<1>5. CASE creds' # creds
  <2>1. creds'[ref.wallet] = [image EXCEPT ![job.account] = @ + 1]
    BY <1>1, <1>5 DEF Write, TypeOK
  <2>2. image \in [Accounts -> 0..1] /\ image[job.account] = 0
    BY DEF Write, ImageFits
  <2>3. /\ creds'[ref.wallet] \in [Accounts -> 0..1] /\ creds'[ref.wallet][job.account] = 1
        /\ \A a \in Accounts \ {job.account} : creds'[ref.wallet][a] = image[a]
    BY <1>1, <2>1, <2>2
  <2>4. /\ pin'[ref.wallet] \in {first.pin, None}
        /\ done'.result = "ok" => pin'[ref.wallet] = first.pin /\ done'.key = key
    BY <1>1, <1>5 DEF Write, TypeOK
  <2> QED
    BY <1>1, <1>2, <1>3, <2>3, <2>4
<1> QED
  BY <1>4, <1>5

\* ... and store a credential only when the account had none.
LEMMA SignKeeps ==
  ASSUME SessionInv, Attest \/ Save \/ Write \/ Choose
  PROVE  Meaning'
<1> USE NoneFacts DEF Meaning, SessionInv, Rest, disk, Goes, Takes, End
<1>1. CASE Attest
  <2>1. EntriesCohere' /\ NoDuplicate' /\ SameSession'
    BY <1>1, CalmKeeps DEF Attest
  <2>2. StepsFit'
    BY <1>1 DEF Attest, StepsFit, NoRequest
  <2>3. Authorised'
    BY <1>1 DEF Attest, StepsFit, Authorised, Choosing
  <2>4. KeyInHand'
    BY <1>1 DEF Attest, StepsFit, Authorised, KeyInHand, Choosing
  <2>5. StillExcluded' /\ ImageFits'
    BY <1>1 DEF Attest, StepsFit, StillExcluded, ImageFits, KeyInHand, Choosing
  <2> QED
    BY <2>1, <2>2, <2>3, <2>4, <2>5
<1>2. CASE Save
  <2>1. EntriesCohere' /\ NoDuplicate' /\ SameSession'
    BY <1>2, CalmKeeps DEF Save
  <2>2. StepsFit'
    BY <1>2 DEF Save, StepsFit, NoRequest
  <2>3. Authorised'
    BY <1>2 DEF Save, StepsFit, Authorised, Choosing
  <2>4. KeyInHand'
    BY <1>2 DEF Save, StepsFit, Authorised, KeyInHand, Choosing
  <2>5. StillExcluded'
    BY <1>2 DEF Save, StepsFit, StillExcluded, KeyInHand, Choosing
  <2>6. ImageFits'
    <3>1. CASE End("raised", None)
      BY <1>2, <3>1, EndFacts
    <3>2. CASE ~End("raised", None)
      <4>1. /\ image' = creds[ref.wallet] /\ pin[ref.wallet] = ref.pin /\ pc' = "write"
            /\ UNCHANGED <<ref, job, pin, creds, touched>>
        BY <1>2, <3>2 DEF Save
      <4>2. /\ ref.wallet \in Wallets /\ ref.wallet = key /\ key # None /\ ~resident
            /\ job.account \in Accounts
        BY <1>2, JobFacts DEF Save, StepsFit, KeyInHand, StillExcluded, Choosing, Sign
      <4>3. creds[ref.wallet] \in [Accounts -> Nat] /\ \A a \in Accounts : creds[ref.wallet][a] <= 1
        BY <4>2 DEF NoDuplicate, TypeOK
      <4>4. creds[ref.wallet][job.account] = 0
        BY <1>2, <4>2 DEF Save, StillExcluded
      <4>5. image' \in [Accounts -> 0..1] /\ image'[job.account] = 0
        BY <4>1, <4>3, <4>4
      <4> QED
        BY <4>1, <4>5 DEF ImageFits
    <3> QED
      BY <3>1, <3>2
  <2> QED
    BY <2>1, <2>2, <2>3, <2>4, <2>5, <2>6
<1>3. CASE Write
  <2>1. /\ StepsFit' /\ SameSession' /\ Authorised' /\ KeyInHand'
        /\ StillExcluded' /\ ImageFits'
    BY <1>3, EndFacts DEF Write
  <2>2. EntriesCohere'
    BY <1>3 DEF Write, EntriesCohere
  <2>3. NoDuplicate'
    BY <1>3, WriteFacts DEF NoDuplicate
  <2> QED
    BY <2>1, <2>2, <2>3
<1>4. CASE Choose
  <2>1. EntriesCohere' /\ NoDuplicate' /\ SameSession'
    BY <1>4, CalmKeeps DEF Choose
  <2>2. StepsFit'
    BY <1>4 DEF Choose, StepsFit, NoRequest
  <2>3. Authorised'
    BY <1>4 DEF Choose, StepsFit, Authorised, Choosing
  <2>4. KeyInHand'
    BY <1>4 DEF Choose, StepsFit, Authorised, KeyInHand, Choosing
  <2>5. StillExcluded' /\ ImageFits'
    BY <1>4 DEF Choose, StepsFit, StillExcluded, ImageFits, KeyInHand, Choosing
  <2> QED
    BY <2>1, <2>2, <2>3, <2>4, <2>5
<1> QED
  BY <1>1, <1>2, <1>3, <1>4

\* The PIN protocol keeps the types ...
LEMMA PinTypes ==
  ASSUME SessionInv, PinRetries \/ Agree \/ Decapsulate \/ Validate \/ Store
  PROVE  TypeOK'
<1> USE NoneFacts, SessionAssumption, JobFacts DEF SessionInv, TypeOK, Rest, disk, Goes, Takes, End
<1>1. CASE PinRetries
  <2>1. retry' \in RetriesMin..Retries
    BY <1>1 DEF PinRetries, StepsFit, RetriesMin
  <2> QED
    BY <1>1, <2>1 DEF PinRetries
<1>2. CASE Agree
  <2> DEFINE old == IF open[job.c] = None THEN NewEntry ELSE open[job.c]
  <2>1. job.c \in Channels
    BY <1>2 DEF Agree, StepsFit
  <2>2. old \in Entry
    BY <2>1 DEF NewEntry, Entry
  <2>3. [old EXCEPT !.pair = "made"] \in Entry
    BY <2>2 DEF Entry
  <2>4. open' = open \/ open' = [open EXCEPT ![job.c] = [old EXCEPT !.pair = "made"]]
    BY <1>2 DEF Agree
  <2> HIDE DEF old
  <2>5. open' \in [Channels -> Entry \cup {None}]
    BY <2>1, <2>3, <2>4
  <2> QED
    BY <1>2, <2>5 DEF Agree
<1>3. CASE Decapsulate
  BY <1>3 DEF Decapsulate, HasPair
<1>4. CASE Validate
  <2>1. retry' \in RetriesMin..Retries /\ key' \in Keys \cup {None}
    BY <1>4 DEF Validate, Keys, RetriesMin
  <2> QED
    BY <1>4, <2>1 DEF Validate
<1>5. CASE Store
  <2>1. /\ job.c \in Channels /\ job.pin \in PINs /\ key \in Wallets
        /\ tokens + 1 \in Tokens /\ tokens + 1 \in 0..MaxTokens
    BY <1>5 DEF Store, StepsFit, KeyInHand, GetToken, Tokens
  <2>2. PICK p \in {"made", None, Absent} :
          open' = [open EXCEPT ![job.c] = [upv |-> "verified", wallet |-> key, pin |-> job.pin,
                                           token |-> tokens + 1, age |-> 0, pair |-> p]]
    BY <1>5, <2>1 DEF Store, Entry
  <2>3. [upv |-> "verified", wallet |-> key, pin |-> job.pin, token |-> tokens + 1, age |-> 0,
         pair |-> p] \in Entry
    BY <2>1 DEF Entry
  <2>4. open' \in [Channels -> Entry \cup {None}] /\ latest' \in [Channels -> Tokens \cup {None}]
    BY <1>5, <2>1, <2>2, <2>3 DEF Store
  <2> QED
    BY <1>5, <2>1, <2>4 DEF Store
<1> QED
  BY <1>1, <1>2, <1>3, <1>4, <1>5

\* ... and leaves in the entry of the channel the token it issues.
LEMMA PinKeeps ==
  ASSUME SessionInv, PinRetries \/ Agree \/ Decapsulate \/ Validate \/ Store
  PROVE  Meaning'
<1> USE NoneFacts DEF Meaning, SessionInv, Rest, disk, Goes, Takes, End
<1>1. CASE PinRetries
  <2>1. StepsFit' /\ SameSession' /\ Authorised' /\ KeyInHand' /\ StillExcluded' /\ ImageFits'
    BY <1>1, EndFacts DEF PinRetries
  <2>2. EntriesCohere'
    BY <1>1 DEF PinRetries, EntriesCohere
  <2>3. NoDuplicate'
    BY <1>1 DEF PinRetries, NoDuplicate
  <2> QED
    BY <2>1, <2>2, <2>3
<1>2. CASE Agree
  <2>1. StepsFit' /\ SameSession' /\ Authorised' /\ KeyInHand' /\ StillExcluded' /\ ImageFits'
    BY <1>2, EndFacts DEF Agree
  <2>2. EntriesCohere'
    <3> DEFINE old == IF open[job.c] = None THEN NewEntry ELSE open[job.c]
    <3>1. job.c \in Channels
      BY <1>2, JobFacts DEF Agree, StepsFit
    <3>2. old \in Entry
      BY <3>1, SessionAssumption DEF NewEntry, Entry, TypeOK
    <3>3. open' = open \/ open' = [open EXCEPT ![job.c] = [old EXCEPT !.pair = "made"]]
      BY <1>2 DEF Agree
    <3>4. /\ (old.wallet = None) <=> (old.token = None)
          /\ (old.pin = None) <=> (old.token = None)
          /\ old.token # None => old.upv = "verified" /\ old.token = latest[job.c]
      BY <3>1 DEF NewEntry, EntriesCohere
    <3> HIDE DEF old
    <3>5. latest' = latest
      BY <1>2 DEF Agree
    <3> QED
      BY <3>1, <3>2, <3>3, <3>4, <3>5 DEF EntriesCohere, Entry, TypeOK
  <2>3. NoDuplicate'
    BY <1>2 DEF Agree, NoDuplicate
  <2> QED
    BY <2>1, <2>2, <2>3
<1>3. CASE Decapsulate
  <2>1. EntriesCohere' /\ NoDuplicate' /\ SameSession'
    BY <1>3, CalmKeeps DEF Decapsulate
  <2>2. StepsFit'
    BY <1>3 DEF Decapsulate, HasPair, StepsFit, NoRequest
  <2>3. Authorised'
    BY <1>3 DEF Decapsulate, HasPair, StepsFit, Authorised, Choosing
  <2>4. KeyInHand'
    BY <1>3 DEF Decapsulate, HasPair, StepsFit, Authorised, KeyInHand, Choosing
  <2>5. StillExcluded' /\ ImageFits'
    BY <1>3 DEF Decapsulate, HasPair, StepsFit, StillExcluded, ImageFits, KeyInHand, Choosing
  <2> QED
    BY <2>1, <2>2, <2>3, <2>4, <2>5
<1>4. CASE Validate
  <2>1. EntriesCohere' /\ NoDuplicate' /\ SameSession'
    BY <1>4 DEF Validate, EntriesCohere, NoDuplicate, SameSession
  <2>2. StepsFit'
    BY <1>4 DEF Validate, StepsFit, NoRequest
  <2>3. Authorised'
    BY <1>4 DEF Validate, StepsFit, Authorised, Choosing
  <2>4. KeyInHand'
    BY <1>4 DEF Validate, StepsFit, Authorised, KeyInHand, Choosing
  <2>5. StillExcluded' /\ ImageFits'
    BY <1>4 DEF Validate, StepsFit, StillExcluded, ImageFits, KeyInHand, Choosing
  <2> QED
    BY <2>1, <2>2, <2>3, <2>4, <2>5
<1>5. CASE Store
  <2>1. StepsFit' /\ SameSession' /\ Authorised' /\ KeyInHand' /\ StillExcluded' /\ ImageFits'
    BY <1>5, EndFacts DEF Store
  <2>2. EntriesCohere'
    <3>1. job.c \in Channels /\ job.pin \in PINs /\ key \in Wallets /\ tokens + 1 # None
      BY <1>5, JobFacts, SessionAssumption DEF Store, StepsFit, KeyInHand, GetToken, TypeOK, Tokens
    <3>2. /\ open'[job.c].upv = "verified" /\ open'[job.c].wallet = key /\ open'[job.c].pin = job.pin
          /\ open'[job.c].token = tokens + 1 /\ latest'[job.c] = tokens + 1
      BY <1>5, <3>1 DEF Store, TypeOK
    <3>3. \A c \in Channels \ {job.c} : open'[c] = open[c] /\ latest'[c] = latest[c]
      BY <1>5, <3>1 DEF Store, TypeOK
    <3> QED
      BY <3>1, <3>2, <3>3 DEF EntriesCohere
  <2>3. NoDuplicate'
    BY <1>5 DEF Store, NoDuplicate
  <2> QED
    BY <2>1, <2>2, <2>3
<1> QED
  BY <1>1, <1>2, <1>3, <1>4, <1>5

\* What runs beside a request and leaves all its own variables alone.
LEMMA BesideKeeps ==
  ASSUME SessionInv, U2F \/ Watch \/ Tick \/ Suspend \/ \E w \in Wallets : Desktop(w)
  PROVE  TypeOK' /\ Meaning'
<1> USE NoneFacts, SessionAssumption DEF SessionInv, Meaning, req, disk, ghost, Choosing
<1>1. CASE U2F
  <2>1. UNCHANGED <<open, retry, req, disk, tokens, looked, ghost>>
    BY <1>1 DEF U2F, Version, Register, Authenticate, U2FAnswer
  <2> QED
    BY <2>1 DEF TypeOK, EntriesCohere, NoDuplicate, StepsFit, SameSession, Authorised, KeyInHand,
                StillExcluded, ImageFits
<1>2. CASE Watch
  <2>1. popped' \in BOOLEAN
    BY Zenon, <1>2 DEF Watch
  <2>2. TypeOK'
    BY <1>2, <2>1 DEF Watch, TypeOK
  <2>3. \A c \in Channels : open'[c] = open[c] \/ (Expired(c) /\ open'[c] = None)
    BY <1>2 DEF Watch
  <2>4. popped => popped'
    BY Zenon, <1>2 DEF Watch
  <2>5. pc # "idle" /\ Expired(job.c) => popped'
    BY Zenon, <1>2 DEF Watch
  <2>6. EntriesCohere' /\ NoDuplicate'
    BY <1>2, <2>3 DEF Watch, EntriesCohere, NoDuplicate
  <2>7. SameSession'
    <3>1. pc # "idle" => job.c \in Channels
      BY JobFacts DEF StepsFit, TypeOK
    <3> QED
      BY <1>2, <2>3, <2>4, <2>5, <3>1 DEF Watch, SameSession, SessionOf
  <2>8. StepsFit' /\ Authorised' /\ KeyInHand' /\ StillExcluded' /\ ImageFits'
    BY <1>2, <2>4 DEF Watch, StepsFit, Authorised, KeyInHand, StillExcluded, ImageFits, Expired
  <2> QED
    BY <2>2, <2>6, <2>7, <2>8
<1>3. CASE Tick \/ Suspend
  <2>1. \A c \in Channels : /\ open'[c] \in Entry \cup {None}
                            /\ SessionOf(open'[c]) = SessionOf(open[c])
                            /\ (open'[c] = None) <=> (open[c] = None)
                            /\ open'[c] # None => /\ open'[c].wallet = open[c].wallet
                                                  /\ open'[c].pin = open[c].pin
                                                  /\ open'[c].token = open[c].token
                                                  /\ open'[c].upv = open[c].upv
    BY <1>3 DEF Tick, Suspend, SessionOf, Entry, TypeOK
  <2>2. open' = [c \in Channels |-> open'[c]]
    BY <1>3 DEF Tick, Suspend
  <2>3. TypeOK'
    <3>1. open' \in [Channels -> Entry \cup {None}]
      BY <2>1, <2>2
    <3>2. looked' \in BOOLEAN
      BY <1>3 DEF Tick, Suspend
    <3>3. /\ UNCHANGED <<retry, pc, job, ref, key, resident, image, pin, creds, tokens>>
          /\ UNCHANGED <<first, popped, touched, latest>>
      BY <1>3 DEF Tick, Suspend
    <3> QED
      BY <3>1, <3>2, <3>3 DEF TypeOK
  <2>4. EntriesCohere' /\ NoDuplicate'
    BY <1>3, <2>1 DEF Tick, Suspend, EntriesCohere, NoDuplicate
  <2>5. SameSession'
    <3>1. pc # "idle" => job.c \in Channels
      BY JobFacts DEF StepsFit, TypeOK
    <3> QED
      BY <1>3, <2>1, <3>1 DEF Tick, Suspend, SameSession
  <2>6. StepsFit' /\ Authorised' /\ KeyInHand' /\ StillExcluded' /\ ImageFits'
    BY <1>3 DEF Tick, Suspend, StepsFit, Authorised, KeyInHand, StillExcluded, ImageFits
  <2> QED
    BY <2>3, <2>4, <2>5, <2>6
<1>4. ASSUME NEW w \in Wallets, Desktop(w)
      PROVE  TypeOK' /\ Meaning'
  <2>1. PICK kept \in SUBSET Accounts :
          creds' = [creds EXCEPT ![w] = [a \in Accounts |-> IF a \in kept THEN creds[w][a] ELSE 0]]
    BY <1>4 DEF Desktop
  <2>2. /\ creds' \in [Wallets -> [Accounts -> Nat]]
        /\ \A v \in Wallets, a \in Accounts : creds'[v][a] = creds[v][a] \/ creds'[v][a] = 0
        /\ \A v \in Wallets \ {w} : creds'[v] = creds[v]
    BY <2>1 DEF TypeOK
  <2>3. /\ pin' \in [Wallets -> PINs \cup {None}]
        /\ \A v \in Wallets \ {w} : pin'[v] = pin[v]
    BY <1>4 DEF Desktop, TypeOK
  <2>4. touched' \in BOOLEAN
    BY Zenon, <1>4 DEF Desktop
  <2>5. TypeOK'
    BY <1>4, <2>2, <2>3, <2>4 DEF Desktop, TypeOK
  <2>6. EntriesCohere' /\ NoDuplicate'
    BY <1>4, <2>2 DEF Desktop, EntriesCohere, NoDuplicate
  <2>7. StepsFit' /\ SameSession' /\ Authorised' /\ KeyInHand'
    BY <1>4 DEF Desktop, StepsFit, SameSession, Authorised, KeyInHand
  <2>8. StillExcluded'
    <3>1. pc \in {"attest", "save", "write"} => job.account \in Accounts
      BY JobFacts DEF StepsFit, TypeOK, Sign
    <3> QED
      BY <1>4, <2>2, <3>1 DEF Desktop, StillExcluded
  <2>9. ImageFits'
    <3>1. UNCHANGED <<pc, image, job, ref>>
      BY <1>4 DEF Desktop
    <3>2. pc # "write" => ~touched'
      BY Zenon, <1>4 DEF Desktop, ImageFits
    <3>3. pc = "write" /\ ~touched' => ~touched /\ w # ref.wallet
      BY Zenon, <1>4 DEF Desktop
    <3>4. pc = "write" => ref.wallet \in Wallets
      BY DEF KeyInHand
    <3> QED
      BY <2>2, <2>3, <3>1, <3>2, <3>3, <3>4 DEF ImageFits
  <2> QED
    BY <2>5, <2>6, <2>7, <2>8, <2>9
<1> QED
  BY <1>1, <1>2, <1>3, <1>4

\* Every step keeps the invariant.
LEMMA NextSessionInv == SessionInv /\ [Next]_vars => SessionInv'
<1> SUFFICES ASSUME SessionInv, [Next]_vars
             PROVE  TypeOK' /\ Meaning'
  BY DEF SessionInv, Meaning
<1>1. CASE Request
  BY <1>1, BeginKeeps
<1>2. CASE Presence \/ Ask \/ Parse \/ Uv \/ Auth \/ Refuse
  BY <1>2, AdmitTypes, AdmitKeeps
<1>3. CASE Resolve \/ Lookup \/ HasWallet \/ Take \/ Load \/ Platform
  BY <1>3, ResolveTypes, ResolveKeeps
<1>4. CASE Attest \/ Save \/ Write \/ Choose
  BY <1>4, SignTypes, SignKeeps
<1>5. CASE PinRetries \/ Agree \/ Decapsulate \/ Validate \/ Store
  BY <1>5, PinTypes, PinKeeps
<1>6. CASE U2F \/ Watch \/ Tick \/ Suspend \/ \E w \in Wallets : Desktop(w)
  BY <1>6, BesideKeeps
<1>7. CASE UNCHANGED vars
  BY <1>7
      DEF vars, req, disk, ghost, SessionInv, TypeOK, Meaning, EntriesCohere, NoDuplicate, StepsFit,
              SameSession, Authorised, Choosing, KeyInHand, StillExcluded, ImageFits
<1> QED
  BY <1>1, <1>2, <1>3, <1>4, <1>5, <1>6, <1>7 DEF Next, CborStep

----------------------------------------------------------------------------
\* Whatever the watchdog, the clock and the desktop application do meanwhile, what a request has
\* in hand is what belongs to the session it began with, for any channels, wallets and accounts.
THEOREM Invariance == Spec => []SessionInv
  BY InitSessionInv, NextSessionInv, PTL DEF Spec

\* The entry of a channel holds its last token, and wallet, PIN and token together or none.
THEOREM EntriesTheorem == Spec => []EntriesCohere
<1>1. SessionInv => EntriesCohere
  BY DEF SessionInv
<1> QED
  BY <1>1, Invariance, PTL

\* No account has two resident credentials in a wallet.
THEOREM DuplicateTheorem == Spec => []NoDuplicate
<1>1. SessionInv => NoDuplicate
  BY DEF SessionInv
<1> QED
  BY <1>1, Invariance, PTL

\* What answers a makeCredential or getAssertion with success.
LEMMA AnswerFacts ==
  ASSUME SessionInv, Next, done'.op \in {"make", "assert"}, done'.result = "ok"
  PROVE  /\ Attest \/ Write \/ Choose
         /\ done' = [op |-> job.op, c |-> job.c, result |-> "ok", key |-> key]
<1> USE DEF Goes, Takes, End, NoAnswer
<1>1. CASE Attest
  BY <1>1 DEF Attest
<1>2. CASE Write
  BY <1>2 DEF Write
<1>3. CASE Choose
  BY <1>3 DEF Choose
<1>4. CASE Presence \/ Ask \/ PinRetries \/ Agree \/ Store
  BY <1>4 DEF Presence, Ask, PinRetries, Agree, Store, SessionInv, StepsFit
<1>5. CASE Parse \/ Uv \/ Auth \/ Refuse \/ Resolve \/ Lookup \/ HasWallet \/ Take \/ Load
           \/ Platform \/ Save \/ Decapsulate \/ Validate
  BY <1>5 DEF Parse, Uv, Auth, Refuse, Resolve, Lookup, HasWallet, Take, Load, Platform, Save,
              Decapsulate, Validate
<1>6. CASE U2F
  BY <1>6 DEF U2F, Version, Register, Authenticate, U2FAnswer
<1>7. CASE Request \/ Watch \/ Tick \/ Suspend \/ \E w \in Wallets : Desktop(w)
  BY <1>7 DEF Request, Begin, Watch, Tick, Suspend, Desktop
<1> QED
  BY <1>1, <1>2, <1>3, <1>4, <1>5, <1>6, <1>7 DEF Next, CborStep

\* What is signed is signed under the session that the request began with: with its wallet and its
\* token, and by makeCredential with the platform key only without a wallet or after an ejection.
THEOREM KeyTheorem == Spec => KeyOfTheSession
<1>1. ASSUME SessionInv, Next, done'.op \in {"make", "assert"}, done'.result = "ok"
      PROVE  /\ first # None /\ first.upv = "verified"
             /\ job.auth \in {None, first.token}
             /\ done'.key \in Wallets => done'.key = first.wallet
             /\ (done'.op = "make" /\ done'.key \notin Wallets) => (first.wallet = None \/ popped)
  <2>1. pc \in {"attest", "write", "choose"} /\ done'.op = job.op /\ done'.key = key
    BY <1>1, AnswerFacts DEF Attest, Write, Choose
  <2>2. key \in Keys
    BY <1>1, <2>1 DEF SessionInv, TypeOK, KeyInHand
  <2> QED
    BY <1>1, <2>1, <2>2 DEF SessionInv, StepsFit, Authorised, Choosing, KeyInHand, Keys
<1>2. SessionInv /\ [Next]_vars =>
        [(done'.op \in {"make", "assert"} /\ done'.result = "ok") =>
          /\ first # None /\ first.upv = "verified"
          /\ job.auth \in {None, first.token}
          /\ done'.key \in Wallets => done'.key = first.wallet
          /\ (done'.op = "make" /\ done'.key \notin Wallets) => (first.wallet = None \/ popped)]_vars
  BY <1>1
<1> QED
  BY <1>2, Invariance, PTL DEF KeyOfTheSession, Spec

\* Only the save of a makeCredential adds to the resident credentials of a wallet.
LEMMA StoreFacts ==
  ASSUME SessionInv, Next, NEW w \in Wallets, NEW a \in Accounts, creds'[w][a] > creds[w][a]
  PROVE  Write
<1>1. creds[w][a] \in Nat
  BY DEF SessionInv, TypeOK
<1>2. creds' # creds
  BY <1>1
<1>3. ASSUME NEW v \in Wallets, Desktop(v)
      PROVE  FALSE
  <2>1. PICK kept \in SUBSET Accounts :
          creds' = [creds EXCEPT ![v] = [b \in Accounts |-> IF b \in kept THEN creds[v][b] ELSE 0]]
    BY <1>3 DEF Desktop
  <2>2. creds'[w][a] = creds[w][a] \/ creds'[w][a] = 0
    BY <2>1 DEF SessionInv, TypeOK
  <2> QED
    BY <1>1, <2>2
<1>4. CASE Request \/ U2F \/ Watch \/ Tick \/ Suspend
  BY <1>2, <1>4
     DEF Request, Begin, U2F, Version, Register, Authenticate, U2FAnswer, Watch, Tick, Suspend,
                    disk
<1>5. CASE \/ Presence \/ Ask \/ Parse \/ Uv \/ Auth \/ Refuse \/ Resolve \/ Lookup \/ HasWallet
           \/ Take \/ Load \/ Platform \/ Attest \/ Save \/ Choose
           \/ PinRetries \/ Agree \/ Decapsulate \/ Validate \/ Store
  BY <1>2, <1>5 DEF Presence, Ask, Parse, Uv, Auth, Refuse, Resolve, Lookup, HasWallet, Take, Load,
                    Platform, Attest, Save, Choose, PinRetries, Agree, Decapsulate, Validate, Store,
                    Rest, disk
<1> QED
  BY <1>3, <1>4, <1>5 DEF Next, CborStep

\* A resident credential goes into the wallet of the session, which the save leaves under the
\* session's PIN or shut; and unless the application came between the load and the save, that PIN
\* was in force and the credential is the one asked for.
THEOREM StoreTheorem == Spec => StoresForTheSession
<1>1. ASSUME SessionInv, Next, NEW w \in Wallets, NEW a \in Accounts, creds'[w][a] > creds[w][a]
      PROVE  /\ first.wallet = w /\ pin'[w] \in {first.pin, None}
             /\ done'.op = "make" /\ done'.result \in {"ok", "raised"}
             /\ done'.result = "ok" => pin'[w] = first.pin /\ done'.key = w
             /\ ~touched => pin[w] = first.pin /\ job.account = a
  <2>1. Write
    BY <1>1, StoreFacts
  <2>2. creds[w][a] \in Nat /\ creds' # creds /\ creds'[w] # creds[w]
    BY <1>1 DEF SessionInv, TypeOK
  <2>3. w = ref.wallet /\ ref = first /\ key = first.wallet
    BY <1>1, <2>1, <2>2, WriteFacts
  <2>4. /\ pin'[w] \in {first.pin, None}
        /\ done'.op = "make" /\ done'.result \in {"ok", "raised"}
        /\ done'.result = "ok" => pin'[w] = first.pin /\ done'.key = w
        /\ a # job.account => creds'[w][a] = image[a]
    BY <1>1, <2>1, <2>2, <2>3, WriteFacts
  <2>5. ~touched => pin[w] = first.pin /\ creds[w] = image
    BY <1>1, <2>1, <2>3 DEF Write, SessionInv, ImageFits
  <2>6. ~touched => job.account = a
    BY <1>1, <2>2, <2>4, <2>5
  <2> QED
    BY <2>3, <2>4, <2>5, <2>6
<1>2. SessionInv /\ [Next]_vars =>
        [\A w \in Wallets, a \in Accounts : creds'[w][a] > creds[w][a] =>
          /\ first.wallet = w /\ pin'[w] \in {first.pin, None}
          /\ done'.op = "make" /\ done'.result \in {"ok", "raised"}
          /\ done'.result = "ok" => pin'[w] = first.pin /\ done'.key = w
          /\ ~touched => pin[w] = first.pin /\ job.account = a]_vars
  BY <1>1
<1> QED
  BY <1>2, Invariance, PTL DEF StoresForTheSession, Spec

----------------------------------------------------------------------------
\* With the watchdog, an entry that it has looked at is younger than _exp_time.
AgeInv ==
    \A c \in Channels : open[c] # None => open[c].age <= Exp /\ (looked => open[c].age < Exp)

\* A step of a request makes no entry older than it found it.
LEMMA RequestAges ==
  ASSUME SessionInv, Request \/ CborStep
  PROVE  /\ looked' = looked
         /\ \A c \in Channels : open'[c] # None =>
               open'[c].age = 0 \/ (open[c] # None /\ open'[c].age = open[c].age)
<1> USE DEF Goes, Takes, End, Rest, disk
<1>1. CASE open' = open /\ looked' = looked
  BY <1>1
<1>2. CASE Request \/ Presence \/ Parse \/ Uv \/ Auth \/ Refuse \/ Resolve \/ Lookup \/ HasWallet
           \/ Take \/ Load \/ Platform
  BY <1>1, <1>2
      DEF Request, Begin, Presence, Parse, Uv, Auth, Refuse, Resolve, Lookup, HasWallet, Take,
                    Load, Platform
<1>3. CASE Attest \/ Save \/ Write \/ Choose \/ PinRetries \/ Decapsulate \/ Validate
  BY <1>1, <1>3 DEF Attest, Save, Write, Choose, PinRetries, Decapsulate, Validate
<1>4. CASE Ask
  BY <1>4, SessionFacts, JobFacts
     DEF Ask, CacheUp, NewEntry, Entry, SessionInv, TypeOK, StepsFit
<1>5. CASE Agree
  BY <1>5, SessionFacts, JobFacts
     DEF Agree, NewEntry, Entry, SessionInv, TypeOK, StepsFit, SameSession, TypeOK, Sign
<1>6. CASE Store
  BY <1>6, SessionFacts, JobFacts
     DEF Store, Entry, SessionInv, TypeOK, StepsFit, SameSession, TypeOK, Sign
<1> QED
  BY <1>2, <1>3, <1>4, <1>5, <1>6 DEF CborStep

\* On a machine whose clock does not jump, no session outlives _exp_time as long as the watchdog
\* looks in every second.
THEOREM ExpiryTheorem ==
  ASSUME Watchdog, ~Suspends
  PROVE  Spec => []NoneExpired
<1> USE SessionAssumption
<1>1. Init => AgeInv
  BY DEF Init, AgeInv
<1>2. ASSUME SessionInv, AgeInv, [Next]_vars
      PROVE  AgeInv'
  <2>1. \A c \in Channels : open[c] # None => open[c] \in Entry /\ open[c].age \in Nat
    BY <1>2 DEF SessionInv, TypeOK, Entry
  <2>2. CASE Request \/ CborStep
    BY <1>2, <2>1, <2>2, RequestAges DEF AgeInv
  <2>3. CASE Watch
    BY <1>2, <2>1, <2>3 DEF Watch, Expired, AgeInv
  <2>4. CASE Tick
    <3>1. \A c \in Channels : open'[c] # None =>
             open[c] # None /\ open[c].age < Exp /\ open'[c].age = open[c].age + 1
      BY <1>2, <2>1, <2>4 DEF Tick, AgeInv, Entry
    <3>2. looked' = FALSE
      BY <2>4 DEF Tick
    <3> QED
      BY <2>1, <3>1, <3>2 DEF AgeInv
  <2>5. CASE Suspend
    BY <2>5 DEF Suspend
  <2>6. CASE U2F \/ (\E w \in Wallets : Desktop(w)) \/ UNCHANGED vars
    BY <1>2, <2>6 DEF U2F, Version, Register, Authenticate, U2FAnswer, Desktop, vars, AgeInv
  <2> QED
    BY <1>2, <2>2, <2>3, <2>4, <2>5, <2>6 DEF Next
<1>3. SessionInv /\ AgeInv /\ [Next]_vars => AgeInv'
  BY <1>2
<1>4. AgeInv => NoneExpired
  BY DEF AgeInv, NoneExpired
<1> QED
  BY <1>1, <1>3, <1>4, Invariance, PTL DEF Spec
=============================================================================
