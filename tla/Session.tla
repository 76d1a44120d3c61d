------------------------------ MODULE Session ------------------------------
(***************************************************************************)
(* What the authenticator keeps for a channel and what it signs with:      *)
(* AuthenticatorAPI of ctap/api.py, the CBOR handlers of ctap/cborcmd.py   *)
(* and the U2F handlers of ctap/u2fapi.py with authenticator/u2f.py.       *)
(*                                                                         *)
(* Assumption: one CBOR request runs at a time.  On UHID cids_lock sees to *)
(* it, on USB/IP nothing does when clients have two connections (UsbIp).   *)
(* What runs beside the request is the watchdog that ejects channels, U2F  *)
(* requests, the desktop application that changes wallets and the platform *)
(* key, and the clock.  A step of a request is one critical section of     *)
(* _lock, one unlocked access to _open_keys, or one load or save of a      *)
(* wallet.                                                                 *)
(***************************************************************************)
EXTENDS Integers, FiniteSets

CONSTANTS
    Channels,   \* channel ids
    Wallets,    \* .passkey files
    Accounts,   \* relying party and user
    PINs,
    Exp,        \* _exp_time, in ticks of the clock
    Retries,    \* _pin_retry at first and after a correct PIN
    Watchdog,   \* AuthenticatorAPI() was called: on USB/IP, not on UHID
    Suspends,   \* the wall clock may jump forward
    MaxTokens,  \* bound: PIN tokens issued
    PlatKey,    \* the platform key
    None,
    Absent      \* the entry has no such field

Keys == Wallets \cup {PlatKey}

ASSUME SessionAssumption ==
    /\ Exp \in Nat \ {0} /\ Retries \in Nat
    /\ Watchdog \in BOOLEAN /\ Suspends \in BOOLEAN
    /\ MaxTokens \in Nat
    /\ PlatKey \notin Wallets
    /\ None \notin Keys \cup PINs \cup Nat \cup {"made", Absent} /\ Absent # "made"

Tokens == 1..MaxTokens

\* An entry of _open_keys.  wallet, pin and token are the fields
\* file, ph and pinAuth, which are there together or not at all; pair is pin_token_kp; age is
\* the time since tStart, everything past Exp being the same.
Entry == [upv : {"unknown", "verified"}, wallet : Wallets \cup {None}, pin : PINs \cup {None},
          token : Tokens \cup {None}, pair : {"made", None, Absent}, age : 0..Exp + 1]

\* What of an entry a request goes by.
Session == [upv : {"unknown", "verified"}, wallet : Wallets \cup {None}, pin : PINs \cup {None},
            token : Tokens \cup {None}]

ASSUME NoEntryAssumption == None \notin Entry \cup Session

SessionOf(e) == IF e = None THEN None
                ELSE [upv |-> e.upv, wallet |-> e.wallet, pin |-> e.pin, token |-> e.token]

\* CBOR requests.  "auth" is the token that pinAuth was computed with.  The other parameters
\* are chosen where the code reads them.
Plain == [op : {"info", "select", "retries", "agree"}, c : Channels]
Sign == [op : {"make", "assert"}, c : Channels, auth : Tokens \cup {None}, account : Accounts]
GetToken == [op : {"token"}, c : Channels, pin : PINs]

VARIABLES
    open,       \* _open_keys: per channel an entry or None
    retry,      \* _pin_retry
    pc, job,    \* the request that runs: where it is, what was asked
    ref,        \* the entry it took from _open_keys (its session), or None
    key,        \* the key it is to sign with, or None
    resident,   \* the account has a resident credential in the wallet it loaded
    image,      \* in the middle of update_passkey: the credentials it has loaded, or None
    pin,        \* per wallet: the PIN that opens it, None when none does: no such file, one of
                \* its two files is not whole, or they are not of one save
    creds,      \* per wallet: resident credentials per account
    tokens,     \* how many were issued
    looked,     \* the watchdog has looked since the clock moved
    done,       \* what this step answered: to what, on which channel, the key it signed with
    first,      \* history: the entry of the channel when the request began
    popped,     \* history: the watchdog has ejected the channel during the request
    touched,    \* history: the application has changed the wallet under update_passkey
    latest      \* history: per channel, the last token issued to it

req == <<pc, job, ref, key, resident, image>>
disk == <<pin, creds>>
ghost == <<first, popped, touched, latest>>
vars == <<open, retry, req, disk, tokens, looked, done, ghost>>

----------------------------------------------------------------------------
(* Requests.                                                               *)

NoRequest == [op |-> "none"]
NoAnswer == [op |-> "none", c |-> None, result |-> "none", key |-> None]

Init ==
    /\ open = [c \in Channels |-> None]
    /\ retry = Retries
    /\ pc = "idle" /\ job = NoRequest /\ ref = None /\ key = None /\ resident = FALSE
    /\ image = None
    /\ pin \in [Wallets -> PINs]
    /\ creds = [w \in Wallets |-> [a \in Accounts |-> 0]]
    /\ tokens = 0
    /\ looked = TRUE
    /\ done = NoAnswer
    /\ first = None /\ popped = FALSE /\ touched = FALSE
    /\ latest = [c \in Channels |-> None]

Begin(j) ==
    /\ pc = "idle"
    /\ pc' = CASE j.op = "retries" -> "retries"
               [] j.op = "agree" -> "agree"
               [] j.op = "token" -> "decapsulate"
               [] OTHER -> "presence"
    /\ job' = j
    /\ first' = SessionOf(open[j.c]) /\ popped' = FALSE /\ done' = NoAnswer
    /\ UNCHANGED <<open, retry, ref, key, resident, image, disk, tokens, looked, touched, latest>>

\* What a client may ask: with a token it was given, not one of the future.  RetriesMin and
\* MaxTokens bound the model; the code has no such bounds.
RetriesMin == -1
Given(t) == t \in 1..tokens \cup {None}
Request ==
    \/ \E j \in Plain :
          /\ j.op = "retries" => retry > RetriesMin
          /\ Begin(j)
    \/ \E j \in Sign : Given(j.auth) /\ Begin(j)
    \/ \E j \in GetToken : tokens < MaxTokens /\ Begin(j)

\* _set_rsp_fields, or an exception that leaves the request unanswered ("raised").
End(result, k) ==
    /\ pc' = "idle"
    /\ done' = [op |-> job.op, c |-> job.c, result |-> result, key |-> k]
    /\ ref' = None /\ key' = None /\ resident' = FALSE /\ image' = None
    /\ job' = NoRequest /\ first' = None /\ popped' = FALSE /\ touched' = FALSE

\* Where a request goes on: the request is not over.
Takes(l) == pc' = l /\ done' = NoAnswer /\ UNCHANGED <<job, first, popped, touched>>
Goes(l) == Takes(l) /\ UNCHANGED <<ref, key, resident, image>>

Rest == <<retry, disk, tokens, looked, latest>>

Verified(c) == open[c] # None /\ open[c].upv = "verified"

\* has_cached_up, under the lock.
Presence ==
    /\ pc = "presence"
    /\ CASE job.op = "info" -> IF Verified(job.c) THEN End("ok", None) ELSE Goes("ask")
         [] job.op = "select" -> End(IF Verified(job.c) THEN "ok" ELSE "denied", None)
         [] OTHER -> IF Verified(job.c) THEN Goes("parse") ELSE End("denied", None)
    /\ UNCHANGED <<open, Rest>>

NewEntry == [upv |-> "unknown", wallet |-> None, pin |-> None, token |-> None,
             pair |-> Absent, age |-> 0]

\* Mutant: the weaker of the two states is cached.
CacheUpMutant(c) == open' = [open EXCEPT ![c] = [NewEntry EXCEPT !.upv = "present"]]

\* cache_up: a new entry, or the old one with its old tStart.
CacheUp(c) ==
    open' = [open EXCEPT ![c] = [(IF @ = None THEN NewEntry ELSE @) EXCEPT !.upv = "verified"]]

\* The rest of gather_user_presence, which UserPresence models.
Ask ==
    /\ pc = "ask"
    /\ \/ CacheUp(job.c) /\ End("ok", None)
       \/ UNCHANGED open /\ End("denied", None)
    /\ UNCHANGED Rest

\* The request is decoded: a parameter may be missing, the CBOR may be none.
Parse ==
    /\ pc = "parse"
    /\ \/ End("missing", None)
       \/ End("raised", None)
       \/ /\ job.op = "make"
          /\ \E uv \in BOOLEAN :
                Goes(IF uv THEN "uv" ELSE IF job.auth # None THEN "auth" ELSE "resolve")
       \/ /\ job.op = "assert"
          /\ \E uv \in BOOLEAN :
                CASE job.auth # None -> Goes("auth")
                  [] uv /\ job.auth = None -> End("puat", None)
                  [] OTHER -> Goes("lookup")
    /\ UNCHANGED <<open, Rest>>

\* makeCredential only: get_user_state, under the lock.
Uv ==
    /\ pc = "uv"
    /\ CASE ~Verified(job.c) -> End("puat", None)
         [] job.auth # None -> Goes("auth")
         [] OTHER -> Goes("resolve")
    /\ UNCHANGED <<open, Rest>>

TokenOf(c) == IF open[c] = None THEN None ELSE open[c].token

\* Mutant: the signature is not compared.
AuthMutant ==
    /\ pc = "auth"
    /\ IF TokenOf(job.c) = None THEN End("raised", None)
       ELSE Goes(IF job.op = "make" THEN "resolve" ELSE "lookup")
    /\ UNCHANGED <<open, Rest>>

\* _verify_pin_token: an HMAC under None raises.
Auth ==
    /\ pc = "auth"
    /\ CASE TokenOf(job.c) = None -> End("raised", None)
         [] TokenOf(job.c) = job.auth -> Goes(IF job.op = "make" THEN "resolve" ELSE "lookup")
         [] OTHER -> Goes("refuse")
    /\ UNCHANGED <<open, Rest>>

\* The error code is chosen by an access without the lock.
Refuse ==
    /\ pc = "refuse"
    /\ End(IF open[job.c] = None THEN "puat" ELSE "pinAuthInvalid", None)
    /\ UNCHANGED <<open, Rest>>

----------------------------------------------------------------------------
(* The key a request is signed with: _resolve_passkey for makeCredential,  *)
(* the start of assertion_out for getAssertion.                            *)

\* get_user_state, under the lock.
Resolve ==
    /\ pc = "resolve"
    /\ Goes(IF Verified(job.c) THEN "take" ELSE "platform")
    /\ UNCHANGED <<open, Rest>>

\* cid in _open_keys.keys(), then _open_keys[cid].get('kp').
Lookup ==
    /\ pc = "lookup"
    /\ Goes(IF open[job.c] = None THEN "platform" ELSE "wallet")
    /\ UNCHANGED <<open, Rest>>

HasWallet ==
    /\ pc = "wallet"
    /\ CASE open[job.c] = None -> End("raised", None)
         [] open[job.c] # None /\ open[job.c].wallet = None -> Goes("platform")
         [] OTHER -> Goes("take")
    /\ UNCHANGED <<open, Rest>>

\* Mutant: it waits for the entry to come back.
TakeMutant ==
    /\ pc = "take" /\ open[job.c] # None
    /\ IF open[job.c].wallet = None THEN Goes("platform")
       ELSE Takes("load") /\ ref' = SessionOf(open[job.c]) /\ UNCHANGED <<key, resident, image>>
    /\ UNCHANGED <<open, Rest>>

\* passkey = _open_keys[cid]: a KeyError if the watchdog came between.
Take ==
    /\ pc = "take"
    /\ CASE open[job.c] = None -> End("raised", None)
         [] open[job.c] # None /\ open[job.c].wallet = None -> Goes("platform")
         [] OTHER -> Takes("load") /\ ref' = SessionOf(open[job.c])
           /\ UNCHANGED <<key, resident, image>>
    /\ UNCHANGED <<open, Rest>>

\* KeyUtils._load_passkey with the PIN hash of the entry: it raises when the wallet has
\* another PIN by now or is gone, and when there is no platform key to read the stash with.
Load ==
    /\ pc = "load"
    /\ \/ End("raised", None)
       \/ /\ pin[ref.wallet] = ref.pin
          /\ Takes(IF job.op = "make" THEN "attest" ELSE "choose")
          /\ key' = ref.wallet /\ resident' = (creds[ref.wallet][job.account] > 0)
          /\ UNCHANGED <<ref, image>>
    /\ UNCHANGED <<open, Rest>>

\* _get_platform_kp, which raises when there is no key to be had.
Platform ==
    /\ pc = "platform"
    /\ \/ End("raised", None)
       \/ /\ Takes(IF job.op = "make" THEN "attest" ELSE "choose")
          /\ key' = PlatKey /\ resident' = FALSE /\ UNCHANGED <<ref, image>>
    /\ UNCHANGED <<open, Rest>>

\* Mutant: _check_credential_excluded is not asked.
AttestMutant ==
    /\ pc = "attest"
    /\ \E rk \in BOOLEAN : IF rk /\ key \in Wallets THEN Goes("save") ELSE End("ok", key)
    /\ UNCHANGED <<open, Rest>>

\* attestation_out: excluded, to be stored (rk), or answered.  The platform key stores
\* nothing, whatever rk is.
Attest ==
    /\ pc = "attest"
    /\ \E rk \in BOOLEAN :
          CASE resident -> End("excluded", None)
            [] ~resident /\ rk /\ key \in Wallets -> Goes("save")
            [] OTHER -> End("ok", key)
    /\ UNCHANGED <<open, Rest>>

\* Mutant: the wallet is not opened under the session's PIN again.
SaveMutant ==
    /\ pc = "save"
    /\ Takes("write") /\ image' = creds[ref.wallet] /\ UNCHANGED <<ref, key, resident>>
    /\ UNCHANGED <<open, Rest>>

\* KeyUtils.update_passkey loads the wallet again, as Load does ...
Save ==
    /\ pc = "save"
    /\ \/ End("raised", None)
       \/ /\ pin[ref.wallet] = ref.pin
          /\ Takes("write") /\ image' = creds[ref.wallet] /\ UNCHANGED <<ref, key, resident>>
    /\ UNCHANGED <<open, Rest>>

\* ... and _save_passkey writes it back with the new credential, whatever has become of the
\* files since: they are created if need be, and open with the session's PIN again.  There may
\* be no platform key, the .passkey file may fail to open or be left empty, and the .stash file
\* likewise.  A save of the application that comes between the two files leaves what one that
\* comes after them may leave, see Desktop.  Wallet has each access to a file.
Write ==
    /\ pc = "write"
    /\ LET Opens(p) == pin' = [pin EXCEPT ![ref.wallet] = p]
           added == [image EXCEPT ![job.account] = @ + 1]
       IN  \/ (UNCHANGED pin \/ Opens(None)) /\ UNCHANGED creds /\ End("raised", None)
           \/ /\ creds' = [creds EXCEPT ![ref.wallet] = added]
              /\ \/ (Opens(ref.pin) \/ Opens(None)) /\ End("raised", None)
                 \/ Opens(ref.pin) /\ End("ok", key)
    /\ UNCHANGED <<open, retry, tokens, looked, latest>>

\* The first credential that the key can recover signs: of the allow list (allowed), or
\* resident in the wallet.  When the wallet has none the platform key is tried.
Choose ==
    /\ pc = "choose"
    /\ \E allowed \in BOOLEAN :
          CASE allowed \/ resident -> End("ok", key)
            [] ~(allowed \/ resident) /\ key \in Wallets -> Goes("platform")
            [] OTHER -> End("noCredentials", None)
    /\ UNCHANGED <<open, Rest>>

----------------------------------------------------------------------------
(* The PIN protocol.                                                       *)

\* get_pin_retries.
PinRetries ==
    /\ pc = "retries"
    /\ retry' = retry - 1
    /\ End("ok", None)
    /\ UNCHANGED <<open, disk, tokens, looked, latest>>

\* _get_or_create_pin_token_kp, under the lock; get_public of None raises.
Agree ==
    /\ pc = "agree"
    /\ LET old == IF open[job.c] = None THEN NewEntry ELSE open[job.c]
       IN  IF old.pair = Absent
           THEN /\ open' = [open EXCEPT ![job.c] = [old EXCEPT !.pair = "made"]]
                /\ End("ok", None)
           ELSE /\ End(IF old.pair = None THEN "raised" ELSE "ok", None)
                /\ UNCHANGED open
    /\ UNCHANGED <<retry, disk, tokens, looked, latest>>

HasPair(c) == open[c] # None /\ open[c].pair = "made"

\* decapsulate takes the pair under the lock: without one it raises.  A PIN that was encrypted
\* to an earlier pair is garbage.
Decapsulate ==
    /\ pc = "decapsulate"
    /\ \/ ~HasPair(job.c) /\ End("raised", None)
       \/ HasPair(job.c) /\ Goes("validate")
       \/ HasPair(job.c) /\ End("pinInvalid", None)
    /\ UNCHANGED <<open, Rest>>

\* _validate_pin: the first file that the PIN opens, in the order of the directory.  Without the
\* platform key it opens none.
Validate ==
    /\ pc = "validate"
    /\ \/ \E w \in Wallets :
             /\ pin[w] = job.pin
             /\ retry' = Retries
             /\ Takes("store") /\ key' = w /\ UNCHANGED <<ref, resident, image>>
       \/ End("pinInvalid", None) /\ UNCHANGED retry
    /\ UNCHANGED <<open, disk, tokens, looked, latest>>

\* Mutant: a channel that has a session keeps its token.
StoreMutant ==
    /\ pc = "store"
    /\ tokens' = tokens + 1
    /\ open' = [open EXCEPT ![job.c] =
                  [upv |-> "verified", wallet |-> key, pin |-> job.pin, age |-> 0, pair |-> "made",
                   token |-> IF TokenOf(job.c) = None THEN tokens + 1 ELSE TokenOf(job.c)]]
    /\ latest' = [latest EXCEPT ![job.c] = tokens + 1]
    /\ End("ok", None)
    /\ UNCHANGED <<retry, disk, looked>>

\* _process_passkey_file replaces the entry under the lock and keeps the pair it finds.
Store ==
    /\ pc = "store"
    /\ tokens' = tokens + 1
    /\ open' = [open EXCEPT ![job.c] =
                  [upv |-> "verified", wallet |-> key, pin |-> job.pin, token |-> tokens + 1,
                    age |-> 0,
                   pair |-> IF @ = None THEN None ELSE IF @.pair = Absent THEN None ELSE @.pair]]
    /\ latest' = [latest EXCEPT ![job.c] = tokens + 1]
    /\ End("ok", None)
    /\ UNCHANGED <<retry, disk, looked>>

CborStep ==
    \/ Presence \/ Ask \/ Parse \/ Uv \/ Auth \/ Refuse \/ Resolve \/ Lookup \/ HasWallet
    \/ Take \/ Load \/ Platform \/ Attest \/ Save \/ Write \/ Choose
    \/ PinRetries \/ Agree \/ Decapsulate \/ Validate \/ Store

----------------------------------------------------------------------------
(* U2F requests: the platform key alone, no lock and no look at _open_keys.*)

\* It reads the platform key once and shares nothing else with a CBOR request, so that the
\* model lets it answer between two of them.
U2FAnswer(c, op, result, k) ==
    /\ pc = "idle"
    /\ done' = [op |-> op, c |-> c, result |-> result, key |-> k]
    /\ UNCHANGED <<open, retry, req, disk, tokens, looked, ghost>>

\* U2FHandler.version, or a request that is too short, of another class or instruction.
Version(c) == \E r \in {"ok", "failed"} : U2FAnswer(c, "version", r, None)

\* The key that U2FAuthenticator.register signs with: the platform key, whose private half is
\* also the key handle under a seed of its own.  A TPM does not let go of it (0x6900).
Registering == {PlatKey, None}

\* U2FHandler.register; it raises when there is no platform key.
Register(c) ==
    \/ \E k \in Registering : U2FAnswer(c, "register", IF k = None THEN "failed" ELSE "ok", k)
    \/ U2FAnswer(c, "register", "raised", None)

\* The key U2FAuthenticator makes of a key handle: the platform key.  _init_kp swallows the
\* failure to recover one and generates a key, here "new".
Recovered == {PlatKey, "new"}

\* U2FHandler.authenticate.  Asked to check only, it goes by the prefix of the handle.
Authenticate(c) ==
    \/ \E k \in Recovered : U2FAnswer(c, "sign", "ok", k)
    \/ \E r \in {"failed", "raised"} : U2FAnswer(c, "sign", r, None)
    \/ \E r \in {"presence", "wrongData"} : U2FAnswer(c, "check", r, None)

U2F == \E c \in Channels : Version(c) \/ Register(c) \/ Authenticate(c)

----------------------------------------------------------------------------
(* What runs beside the requests.                                          *)

\* Mutant: only channels with a wallet are ejected.
ExpiredMutant(c) == open[c] # None /\ open[c].wallet # None /\ open[c].age = Exp

\* _token_expiry_check, under the lock: an entry is ejected in the second in which its age
\* is _exp_time, and only then.
Expired(c) == open[c] # None /\ open[c].age = Exp

Watch ==
    /\ Watchdog
    /\ open' = [c \in Channels |-> IF Expired(c) THEN None ELSE open[c]]
    /\ popped' = (popped \/ (pc # "idle" /\ Expired(job.c)))
    /\ looked' = TRUE /\ done' = NoAnswer
    /\ UNCHANGED <<retry, req, disk, tokens, first, touched, latest>>

\* A second passes.  The watchdog looks every 5 ms; on UHID there is none.
Tick ==
    /\ Watchdog => looked
    /\ open' = [c \in Channels |->
                  IF open[c] = None THEN None
                  ELSE [open[c] EXCEPT !.age = IF @ > Exp THEN @ ELSE @ + 1]]
    /\ looked' = FALSE /\ done' = NoAnswer
    /\ UNCHANGED <<retry, req, disk, tokens, ghost>>

\* The machine slept, or its clock was set, by more than _exp_time.
Suspend ==
    /\ Suspends
    /\ open' = [c \in Channels |-> IF open[c] = None THEN None
                                     ELSE [open[c] EXCEPT !.age = Exp + 1]]
    /\ looked' = FALSE /\ done' = NoAnswer
    /\ UNCHANGED <<retry, req, disk, tokens, ghost>>

\* The desktop application creates a wallet, changes its PIN, deletes it or some of its
\* credentials, fails in the middle of that or is not through with it, or replaces the platform
\* key.  Its Qt main thread makes one change at a time, which loads what is there, takes from it
\* and saves the rest, perhaps over what a request has stored meanwhile: it adds no credential.
Desktop(w) ==
    /\ \E p \in PINs \cup {None} : pin' = [pin EXCEPT ![w] = p]
    /\ \E kept \in SUBSET Accounts :
          creds' = [creds EXCEPT ![w] = [a \in Accounts |-> IF a \in kept THEN @[a] ELSE 0]]
    /\ touched' = (touched \/ (pc = "write" /\ w = ref.wallet))
    /\ done' = NoAnswer
    /\ UNCHANGED <<open, retry, req, tokens, looked, first, popped, latest>>

Next == Request \/ CborStep \/ U2F \/ Watch \/ Tick \/ Suspend
        \/ (\E w \in Wallets : Desktop(w))

Spec == Init /\ [][Next]_vars

\* A request goes on, its user answers or lets it time out, the watchdog and the clock run.
FairSpec == Spec /\ WF_vars(CborStep) /\ WF_vars(Watch) /\ WF_vars(Tick)

----------------------------------------------------------------------------
(* Properties.                                                             *)

TypeOK ==
    /\ open \in [Channels -> Entry \cup {None}]
    /\ retry \in RetriesMin..Retries
    /\ pc \in {"idle", "presence", "ask", "parse", "uv", "auth", "refuse", "resolve", "lookup",
              "wallet", "take", "load", "platform", "attest", "save", "write", "choose",
              "retries", "agree", "decapsulate", "validate", "store"}
    /\ job \in Plain \cup Sign \cup GetToken \cup {NoRequest}
    /\ ref \in Session \cup {None} /\ key \in Keys \cup {None} /\ resident \in BOOLEAN
    /\ image \in [Accounts -> Nat] \cup {None}
    /\ pin \in [Wallets -> PINs \cup {None}]
    /\ creds \in [Wallets -> [Accounts -> Nat]]
    /\ tokens \in 0..MaxTokens
    /\ looked \in BOOLEAN /\ popped \in BOOLEAN /\ touched \in BOOLEAN
    /\ first \in Session \cup {None}
    /\ latest \in [Channels -> Tokens \cup {None}]

\* An entry that holds a wallet holds its PIN and the last token that was issued to the
\* channel, and has its presence verified: a token that was superseded opens nothing.
EntriesCohere ==
    \A c \in Channels : open[c] # None =>
        /\ (open[c].wallet = None) <=> (open[c].token = None)
        /\ (open[c].pin = None) <=> (open[c].token = None)
        /\ open[c].token # None => open[c].upv = "verified" /\ open[c].token = latest[c]

\* "Ejects expired in-memory passkeys handled by open CIDs" (ctap/api.py:57): no entry is
\* older than _exp_time, as long as the watchdog looks in every second.
NoneExpired == \A c \in Channels : open[c] # None => open[c].age <= Exp

\* A wallet has at most one resident credential of an account: the excluded check and the
\* store of two requests do not interleave.
NoDuplicate == \A w \in Wallets, a \in Accounts : creds[w][a] <= 1

\* Which requests are at which step: between two requests nothing is held, and what Request
\* looked at to begin one still holds.
StepsFit ==
    /\ pc = "idle" => job = NoRequest /\ ref = None /\ key = None /\ ~resident /\ first = None
         /\ ~popped
    /\ pc = "presence" => job.op \in {"info", "select", "make", "assert"}
    /\ pc = "ask" => job.op = "info"
    /\ pc = "agree" => job.op = "agree"
    /\ pc = "retries" => job.op = "retries" /\ retry > RetriesMin
    /\ pc \in {"decapsulate", "validate", "store"} => job.op = "token" /\ tokens < MaxTokens
    /\ pc \in {"parse", "auth", "refuse", "take", "load", "platform"} => job.op \in {"make", "assert"}
    /\ pc \in {"uv", "resolve", "attest", "save", "write"} => job.op = "make"
    /\ pc \in {"lookup", "wallet", "choose"} => job.op = "assert"

\* While a request runs, its channel's session is the one it began with, or was ejected.
SameSession ==
    pc # "idle" => \/ SessionOf(open[job.c]) = first
                   \/ open[job.c] = None /\ popped

\* A makeCredential or getAssertion past the look at the presence found it verified, and past
\* the look at pinAuth it has no token or that of its session.
Choosing == {"resolve", "lookup", "wallet", "take", "load", "platform", "attest", "save", "write",
             "choose"}
Authorised ==
    /\ pc \in {"parse", "uv", "auth", "refuse"} \cup Choosing => first # None
         /\ first.upv = "verified"
    /\ pc \in Choosing => job.auth \in {None, first.token}

\* What it took from its session, and which key it has in hand.
KeyInHand ==
    /\ pc \in {"presence", "parse", "uv", "auth"} => key = None
    /\ pc = "load" => ref = first /\ ref.wallet # None
    /\ pc \in {"attest", "choose", "save", "write"} => key # None
    /\ pc \in Choosing /\ key \in Wallets => ref = first /\ key = first.wallet
    /\ pc \in {"save", "write", "store"} => key \in Wallets
    /\ job.op = "make" /\ (pc = "platform" \/ (pc = "attest" /\ key = PlatKey)) =>
          first.wallet = None \/ popped

\* Between the excluded check and the store no other credential of the account is stored.
StillExcluded ==
    /\ pc \in {"save", "write"} => ~resident
    /\ pc \in {"attest", "save", "write"} /\ key \in Wallets /\ ~resident =>
          creds[key][job.account] = 0

\* What update_passkey has loaded is what is there, in a wallet that opens with the session's PIN,
\* unless the application has changed the wallet since.
ImageFits ==
    /\ pc # "write" => image = None /\ ~touched
    /\ pc = "write" =>
          /\ image \in [Accounts -> 0..1] /\ image[job.account] = 0
          /\ ~touched => pin[ref.wallet] = ref.pin /\ creds[ref.wallet] = image

\* The inductive invariant.
SessionInv ==
    /\ TypeOK /\ EntriesCohere /\ NoDuplicate
    /\ StepsFit /\ SameSession /\ Authorised /\ KeyInHand /\ StillExcluded /\ ImageFits

\* A makeCredential or getAssertion that succeeds was asked on a channel whose user was
\* verified when it began, with no token or the token of that session, and is signed with
\* the wallet of that session.  A makeCredential is signed with the platform key only when
\* the session had no wallet or was ejected during the request.
KeyOfTheSession ==
    [][(done'.op \in {"make", "assert"} /\ done'.result = "ok") =>
          /\ first # None /\ first.upv = "verified"
          /\ job.auth \in {None, first.token}
          /\ done'.key \in Wallets => done'.key = first.wallet
          /\ (done'.op = "make" /\ done'.key \notin Wallets) => (first.wallet = None \/ popped)
      ]_vars

\* A resident credential is stored in the wallet of the session that the request began with.
\* A request that answers so has left the wallet open to that session's PIN, one that fails has
\* done that or left it shut.  Unless the application has changed the wallet between update_passkey's
\* load and its save, the credential is the one asked for, and the PIN was still in force.
StoresForTheSession ==
    [][\A w \in Wallets, a \in Accounts : creds'[w][a] > creds[w][a] =>
          /\ first.wallet = w /\ pin'[w] \in {first.pin, None}
          /\ done'.op = "make" /\ done'.result \in {"ok", "raised"}
          /\ done'.result = "ok" => pin'[w] = first.pin /\ done'.key = w
          /\ ~touched => pin[w] = first.pin /\ job.account = a]_vars

\* Every request ends, with an answer or an exception.
RequestsEnd == (pc # "idle") ~> (pc = "idle")

\* A session ends on its own: an entry that has aged is ejected or renewed by a PIN.
SessionsEnd ==
    \A c \in Channels : (open[c] # None /\ open[c].age > 0)
                          ~> (open[c] = None \/ open[c].age = 0)

=============================================================================
