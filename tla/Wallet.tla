------------------------------- MODULE Wallet -------------------------------
(***************************************************************************)
(* A wallet on disk: NAME.passkey with the key, the certificate and the    *)
(* resident credentials under the PIN, and NAME.stash with the upper half  *)
(* of the PIN's hash under the platform key.  KeyUtils of key_pair.py      *)
(* reads and writes them for CTAP requests (ctap/api.py), for the          *)
(* application (qt/svc/credential_service.py, qt/svc/passkey_service.py,   *)
(* the settings dialog) and for util/manage_creds.py.                      *)
(*                                                                         *)
(* A step is one access to one file.  Opening a file for writing empties   *)
(* it.  There is no lock.  The process may die between any two steps.      *)
(***************************************************************************)
EXTENDS Naturals, Sequences, FiniteSets

CONSTANTS
    Wallets, PINs, Accounts,
    MaxKeys,    \* bound: wallets generated
    MaxPlats,   \* bound: platform keys
    MaxCreds,   \* bound: resident credentials in a wallet
    MaxHarm,    \* bound: crashes and failing writes
    None,       \* no such file, nothing
    Torn        \* a file that is empty or cut short

Keys == 1..MaxKeys
Plats == 1..MaxPlats

ASSUME WalletAssumption ==
    /\ MaxKeys \in Nat /\ MaxPlats \in Nat \ {0}
    /\ MaxCreds \in Nat /\ MaxHarm \in Nat
    /\ None # Torn

Contents == [key : Keys, pin : PINs, creds : Seq(Accounts)]
Stashes == [pin : PINs, plat : Plats]

ASSUME FilesAssumption ==
    /\ None \notin Contents \cup Stashes \cup Wallets \cup Accounts
    /\ Torn \notin Contents \cup Stashes

\* A CTAP request, and the application's main thread, which does one thing after another.
Actors == {"request", "app"}

VARIABLES
    body, stash,    \* per wallet: its files
    plat,           \* the platform key in force
    made,           \* wallet keys generated
    run,            \* per actor: what it is doing, or None
    shown,          \* the credentials the dialog lists
    harm,           \* how many saves were cut short
    broken,         \* history: wallets whose last save or deletion was cut short
    done            \* history: the operation that this step completed, or None

vars == <<body, stash, plat, made, run, shown, harm, broken, done>>

Init ==
    /\ body = [w \in Wallets |-> None] /\ stash = [w \in Wallets |-> None]
    /\ plat = 1 /\ made = 0 /\ harm = 0
    /\ run = [a \in Actors |-> None]
    /\ shown = <<>>
    /\ broken = {} /\ done = None

----------------------------------------------------------------------------
(* Operations.  An operation is a sequence of turns, each of which loads   *)
(* the wallet and most of which save it; three only save or remove it.     *)

Ops == [request |-> {"validate", "store"},
        app |-> {"list", "cache", "repin", "delete", "prune", "generate", "erase", "remove", "manage"}]

First(op) == CASE op = "generate" -> "open" [] op \in {"erase", "remove"} -> "removeBody"
               [] OTHER -> "readBody"

\* They save nothing: a request that only opens the wallet, and manage_creds.py, which has no
\* provider of the platform key in its process.
Reading == {"validate", "manage"}

\* An operation under way: turn counts the turns, got is the body that was read, list what
\* delete_credential loaded first, seal the platform key the new stash is encrypted under, and
\* new what the operation is for: an account, a PIN, or the rows to delete.
Runs == [op : Ops["request"] \cup Ops["app"], w : Wallets, pin : PINs,
         new : Accounts \cup PINs \cup {None} \cup SUBSET Nat,
         pc : {"readBody", "readStash", "open", "write", "openStash", "writeStash", "removeBody", "removeStash"},
         turn : 1..3, got : Contents \cup {None, Torn}, list : Seq(Accounts), seal : Plats \cup {None}]

ASSUME RunAssumption == None \notin Runs

\* Assumption: two operations that write the same wallet do not overlap.  Nothing in the code
\* keeps a request and the application apart; what one of them saves is then lost.
Apart(op, w) ==
    \A b \in Actors : run[b] # None /\ run[b].w = w => op \in Reading \/ run[b].op \in Reading

Begin(a, op, w, p, new) ==
    /\ run[a] = None /\ Apart(op, w)
    /\ made' = IF op = "generate" THEN made + 1 ELSE made
    /\ run' = [run EXCEPT ![a] =
                  [op |-> op, w |-> w, pin |-> p, new |-> new, pc |-> First(op), turn |-> 1,
                   got |-> IF op = "generate" THEN [key |-> made + 1, pin |-> p, creds |-> <<>>] ELSE None,
                   list |-> <<>>, seal |-> None]]
    /\ done' = None
    /\ UNCHANGED <<body, stash, plat, shown, harm, broken>>

\* Bound: whoever asks for another resident credential finds room for it.
Room(w) == body[w] \in Contents => Len(body[w].creds) < MaxCreds

\* _validate_pin of ctap/api.py, and a CTAP request that loads the wallet of its session.
ValidatePin(w, p) == Begin("request", "validate", w, p, None)

\* KeyUtils.update_passkey: load, then save with one credential more.
UpdatePasskey(w, p) == \E x \in Accounts : Room(w) /\ Begin("request", "store", w, p, x)

\* load_credentials, the Reload button: load and save.
LoadCredentials(w, p) == Begin("app", "list", w, p, None)

\* PasskeyService.load_passkey: load, and save to cache the PIN.
LoadPasskey(w, p) == Begin("app", "cache", w, p, None)

\* update_pin: load with the old PIN and save with the new one.
UpdatePin(w, p) == \E x \in PINs : Begin("app", "repin", w, p, x)

\* delete_credential: load_credentials, a second load, and a save; then the dialog reloads.
\* The row is one of the list that is shown, whatever wallet is selected by now.
DeleteCredential(w, p) == \E x \in DOMAIN shown : Begin("app", "delete", w, p, {x})

\* delete_credentials does as much for several rows.  Nothing calls it yet.
DeleteCredentials(w, p) ==
    \E x \in SUBSET DOMAIN shown \ {{}} : Begin("app", "prune", w, p, x)

\* generate_passkey, for a name that no file has.
GeneratePasskey(w, p) == body[w] = None /\ made < MaxKeys /\ Begin("app", "generate", w, p, None)

\* delete_passkey of PasskeyService and that of KeyUtils.  Nothing calls them yet.
ErasePasskey(w, p) == Begin("app", "erase", w, p, None)
RemovePasskey(w, p) == Begin("app", "remove", w, p, None)

\* util/manage_creds.py, in a process of its own.
ManageCreds(w, p) == Begin("app", "manage", w, p, None)

Start ==
    \E w \in Wallets, p \in PINs :
        \/ ValidatePin(w, p) \/ UpdatePasskey(w, p)
        \/ LoadCredentials(w, p) \/ LoadPasskey(w, p) \/ UpdatePin(w, p)
        \/ DeleteCredential(w, p) \/ DeleteCredentials(w, p)
        \/ GeneratePasskey(w, p) \/ ErasePasskey(w, p) \/ RemovePasskey(w, p) \/ ManageCreds(w, p)

At(a, l) == run[a] # None /\ run[a].pc = l
Goes(a, l) == run' = [run EXCEPT ![a].pc = l] /\ done' = None
Ends(a, ok) ==
    /\ run' = [run EXCEPT ![a] = None]
    /\ done' = [op |-> run[a].op, w |-> run[a].w, ok |-> ok]

Files == <<body, stash>>
Rest == <<plat, made, harm, broken>>

Exists(w) == body[w] # None /\ stash[w] # None

\* __read_passkey: both files have to exist, then the body is read.
ReadBody(a) ==
    LET r == run[a]
    IN  /\ At(a, "readBody")
        /\ IF Exists(r.w)
           THEN run' = [run EXCEPT ![a].pc = "readStash", ![a].got = body[r.w]] /\ done' = None
           ELSE Ends(a, FALSE)
        /\ UNCHANGED <<Files, shown, Rest>>

\* Requests come with the lower half of the hash, the application with all of it.
Halves(a) == a = "request"

\* Mutant: the length prefix of the body is not looked at, and an empty file opens.
OpensMutant(a, r) ==
    /\ stash[r.w] \notin {None, Torn}
    /\ r.got \in {Torn} \cup [key : Keys, pin : {r.pin}, creds : Seq(Accounts)]
    /\ Halves(a) => stash[r.w].pin = r.pin /\ stash[r.w].plat = plat

\* What _load_passkey needs of what it read: a stash of full size, a body that the PIN opens,
\* and for half a hash a stash with the other half under the platform key in force.
Opens(a, r) ==
    /\ stash[r.w] \notin {None, Torn}
    /\ r.got \notin {None, Torn} /\ r.got.pin = r.pin
    /\ Halves(a) => stash[r.w].pin = r.pin /\ stash[r.w].plat = plat

Saves(r) == r.op \notin Reading

\* The stash is read and the wallet opened; half a hash also fails when no platform key is to
\* be had in time.
ReadStash(a) ==
    LET r == run[a]
    IN  /\ At(a, "readStash")
        /\ \/ (Halves(a) \/ ~Opens(a, r)) /\ Ends(a, FALSE)
           \/ Opens(a, r) /\ Saves(r) /\ Goes(a, "open")
           \/ Opens(a, r) /\ ~Saves(r) /\ Ends(a, TRUE)
        /\ UNCHANGED <<Files, shown, Rest>>

\* The i-th of a set of rows, and del credentials[i] for each row of I, the last one first.
Nth(K, i) == CHOOSE k \in K : Cardinality(K \cap 1..k) = i
Without(l, I) ==
    LET keep == DOMAIN l \ I IN [i \in 1..Cardinality(keep) |-> l[Nth(keep, i)]]
Deletes(r) == r.op \in {"delete", "prune"} /\ r.turn = 2

\* Mutant: a new resident credential takes the place of the others.
TargetMutant(r) ==
    CASE r.op = "store" -> [r.got EXCEPT !.creds = <<r.new>>]
      [] r.op = "repin" -> [r.got EXCEPT !.pin = r.new]
      [] Deletes(r) -> [r.got EXCEPT !.creds = Without(r.list, r.new)]
      [] OTHER -> r.got

\* What the save of this turn writes.  delete_credential takes the key and the PIN from its
\* second load and the list from its first.
Target(r) ==
    CASE r.op = "store" -> [r.got EXCEPT !.creds = Append(@, r.new)]
      [] r.op = "repin" -> [r.got EXCEPT !.pin = r.new]
      [] Deletes(r) -> [r.got EXCEPT !.creds = Without(r.list, r.new)]
      [] OTHER -> r.got

\* _save_passkey makes the header first, and fails when no platform key is to be had; then
\* open(passkey_path, 'wb') empties the file.
Open(a) ==
    /\ At(a, "open")
    /\ \/ /\ run' = [run EXCEPT ![a].pc = "write", ![a].seal = plat]
          /\ body' = [body EXCEPT ![run[a].w] = Torn] /\ done' = None
       \/ Ends(a, FALSE) /\ UNCHANGED body
    /\ UNCHANGED <<stash, shown, Rest>>

\* What a file may hold after x was written through a handle that was opened when the file
\* was emptied: someone else may have written it since.
Written(was, x) == IF was = Torn THEN {x} ELSE {x, Torn}

Write(a) ==
    LET w == run[a].w
    IN  /\ At(a, "write")
        /\ \E x \in Written(body[w], Target(run[a])) : body' = [body EXCEPT ![w] = x]
        /\ Goes(a, "openStash")
        /\ UNCHANGED <<stash, shown, Rest>>

OpenStash(a) ==
    /\ At(a, "openStash")
    /\ stash' = [stash EXCEPT ![run[a].w] = Torn]
    /\ Goes(a, "writeStash")
    /\ UNCHANGED <<body, shown, Rest>>

\* After a turn: the rows are checked against what was loaded, and the operation goes on.
Turns(r) == CASE r.op = "delete" -> 3 [] r.op = "prune" -> 2 [] OTHER -> 1
NextTurn(a) ==
    LET r == run[a]
        more == r.turn < Turns(r) /\ (r.turn = 1 => r.new \subseteq DOMAIN r.got.creds)
    IN  IF more
        THEN /\ run' = [run EXCEPT ![a].pc = "readBody", ![a].turn = @ + 1, ![a].list = r.got.creds]
             /\ done' = None
        ELSE Ends(a, r.turn = Turns(r))

\* What the dialog lists afterwards.
Shows(r) == CASE r.op = "list" \/ (r.op = "delete" /\ r.turn = 3) -> r.got.creds
              [] r.op = "repin" -> <<>>
              [] OTHER -> shown

\* Mutant: the stash gets the hash the wallet was opened with.
WriteStashMutant(a) ==
    LET r == run[a]
    IN  /\ At(a, "writeStash")
        /\ stash' = [stash EXCEPT ![r.w] = [pin |-> r.pin, plat |-> r.seal]]
        /\ broken' = broken \ {r.w}
        /\ NextTurn(a)
        /\ UNCHANGED <<body, shown, plat, made, harm>>

\* The second file is written and the turn is over.  The dialog shows what was loaded.
WriteStash(a) ==
    LET r == run[a]
    IN  /\ At(a, "writeStash")
        /\ \E x \in Written(stash[r.w], [pin |-> Target(r).pin, plat |-> r.seal]) :
              stash' = [stash EXCEPT ![r.w] = x]
        /\ broken' = broken \ {r.w}
        /\ NextTurn(a)
        /\ shown' = Shows(r)
        /\ UNCHANGED <<body, plat, made, harm>>

\* An OSError from open or write: the exception ends the operation, the file is as far as it
\* had come.
SaveFails(a) ==
    /\ harm < MaxHarm /\ harm' = harm + 1
    /\ At(a, "write") \/ At(a, "openStash") \/ At(a, "writeStash")
    /\ broken' = broken \cup {run[a].w}
    /\ Ends(a, FALSE)
    /\ UNCHANGED <<Files, plat, made, shown>>

\* delete_passkey of PasskeyService gives up when the first file is missing or cannot be
\* removed; that of KeyUtils goes on to the stash.
RemoveBody(a) ==
    LET r == run[a]
    IN  /\ At(a, "removeBody")
        /\ \/ /\ body[r.w] # None
              /\ body' = [body EXCEPT ![r.w] = None] /\ Goes(a, "removeStash")
              /\ UNCHANGED <<harm, broken>>
           \/ /\ body[r.w] = None
              /\ IF r.op = "erase" THEN Ends(a, FALSE) ELSE Goes(a, "removeStash")
              /\ UNCHANGED <<body, harm, broken>>
           \/ /\ body[r.w] # None /\ harm < MaxHarm /\ harm' = harm + 1
              /\ IF r.op = "erase" THEN Ends(a, FALSE) /\ UNCHANGED broken
                 ELSE Goes(a, "removeStash") /\ broken' = broken \cup {r.w}
              /\ UNCHANGED body
        /\ UNCHANGED <<stash, plat, made, shown>>

\* Mutant: only the .passkey file is removed.
RemoveStashMutant(a) ==
    /\ At(a, "removeStash")
    /\ Ends(a, body[run[a].w] = None)
    /\ UNCHANGED <<Files, shown, Rest>>

RemoveStash(a) ==
    LET r == run[a]
    IN  /\ At(a, "removeStash")
        /\ \/ /\ stash' = [stash EXCEPT ![r.w] = None] /\ Ends(a, body[r.w] = None)
              /\ broken' = IF body[r.w] = None THEN broken \ {r.w} ELSE broken
              /\ UNCHANGED harm
           \/ /\ stash[r.w] # None /\ harm < MaxHarm /\ harm' = harm + 1
              /\ Ends(a, FALSE)
              /\ broken' = broken \cup {r.w}
              /\ UNCHANGED stash
        /\ UNCHANGED <<body, plat, made, shown>>

\* The process ends, with everything it was doing.
Crash ==
    /\ harm < MaxHarm /\ harm' = harm + 1
    /\ run' = [a \in Actors |-> None] /\ shown' = <<>> /\ done' = None
    /\ broken' = broken \cup {run[a].w : a \in {b \in Actors :
                                    \E l \in {"write", "openStash", "writeStash", "removeStash"} : At(b, l)}}
    /\ UNCHANGED <<Files, plat, made>>

\* Another platform key is loaded or generated, by the application.  Assumption: no request is
\* saving meanwhile.
ReplacePlatform ==
    /\ run["app"] = None /\ (run["request"] # None => ~Saves(run["request"]))
    /\ plat < MaxPlats /\ plat' = plat + 1
    /\ done' = None
    /\ UNCHANGED <<Files, made, run, shown, harm, broken>>

Step(a) ==
    \/ ReadBody(a) \/ ReadStash(a) \/ Open(a) \/ Write(a) \/ OpenStash(a) \/ WriteStash(a)
    \/ SaveFails(a) \/ RemoveBody(a) \/ RemoveStash(a)

Next == Start \/ (\E a \in Actors : Step(a)) \/ Crash \/ ReplacePlatform

Spec == Init /\ [][Next]_vars

----------------------------------------------------------------------------
(* Properties *)

\* The types of the variables; also, no list is longer than a wallet may get.
TypeOK ==
    /\ body \in [Wallets -> Contents \cup {None, Torn}] /\ stash \in [Wallets -> Stashes \cup {None, Torn}]
    /\ plat \in Plats /\ made \in 0..MaxKeys /\ harm \in 0..MaxHarm /\ broken \subseteq Wallets
    /\ run \in [Actors -> Runs \cup {None}] /\ shown \in Seq(Accounts)
    /\ \A w \in Wallets : body[w] \in Contents => Len(body[w].creds) <= MaxCreds

Idle(w) == \A a \in Actors : run[a] # None => run[a].w # w

\* The two files of a wallet are both gone, or both whole and of one PIN.
OnePiece(w) ==
    /\ body[w] = None => stash[w] = None
    /\ body[w] # None => /\ body[w] \in Contents /\ stash[w] \in Stashes
                         /\ stash[w].pin = body[w].pin

\* At rest the two files of a wallet are of one piece.  Only a save or a deletion that was cut
\* short leaves it otherwise, and the next save or deletion that succeeds repairs it.
FilesAgree == \A w \in Wallets : Idle(w) /\ w \notin broken => OnePiece(w)

\* Whatever went wrong before: when the application or a request has just reported that it
\* saved a wallet, a client that has the PIN can open it by the PIN protocol, that is with the
\* platform key in force.
Usable ==
    (done # None /\ done.ok /\ done.op \notin Reading \cup {"erase", "remove"}) =>
        /\ body[done.w] \in Contents
        /\ stash[done.w] = [pin |-> body[done.w].pin, plat |-> plat]

\* What an operation is for and how far it may have come.
Fits(a, r) ==
    /\ r.op \in Ops[a] /\ r.turn <= Turns(r)
    /\ r.op = "store" => r.new \in Accounts
    /\ r.op = "repin" => r.new \in PINs
    /\ r.pc \in {"readBody", "readStash"} => r.op \notin {"generate", "erase", "remove"}
    /\ r.pc \in {"open", "write", "openStash", "writeStash"} =>
          r.op \notin Reading \cup {"erase", "remove"} /\ r.got \in Contents
    /\ r.pc \in {"removeBody", "removeStash"} => r.op \in {"erase", "remove"}
    /\ r.pc \in {"write", "openStash", "writeStash"} => r.seal = plat
RunFits == \A a \in Actors : run[a] # None => Fits(a, run[a])

\* Two operations that write the same wallet do not overlap, as Apart has it.
Alone ==
    \A a, b \in Actors :
        (run[a] # None /\ run[b] # None /\ run[a].w = run[b].w /\ Saves(run[a]) /\ Saves(run[b])) => a = b

\* What a save has in hand is what is in the file, until it has written the file: nobody else
\* does.
Holds(r) ==
    /\ r.pc = "readBody" /\ body[r.w] \in Contents =>
          /\ r.op = "store" => Len(body[r.w].creds) < MaxCreds
          /\ Deletes(r) => body[r.w].creds = r.list
    /\ r.pc = "readStash" => r.got = body[r.w]
    /\ r.pc = "readStash" /\ r.got \in Contents =>
          /\ r.op = "store" => Len(r.got.creds) < MaxCreds
          /\ Deletes(r) => r.got.creds = r.list
    /\ r.pc = "open" => /\ IF r.op = "generate" THEN body[r.w] = None /\ r.got.creds = <<>>
                           ELSE body[r.w] = r.got
                        /\ Deletes(r) => r.got.creds = r.list
    /\ r.pc = "write" => body[r.w] = Torn
    /\ r.pc \in {"openStash", "writeStash"} => body[r.w] = Target(r)
    /\ r.pc = "writeStash" => stash[r.w] = Torn
    /\ r.pc \in {"open", "write", "openStash", "writeStash"} => Len(Target(r).creds) <= MaxCreds
    /\ r.pc = "removeStash" /\ r.w \notin broken => body[r.w] = None
InHand == \A a \in Actors : run[a] # None /\ Saves(run[a]) => Holds(run[a])

\* The files of a wallet are of one piece unless somebody is between the two or was cut short
\* there.
Between == {"write", "openStash", "writeStash", "removeStash"}
Busy(w) == \E a \in Actors : run[a] # None /\ run[a].w = w /\ run[a].pc \in Between
Settled == \A w \in Wallets : w \notin broken /\ ~Busy(w) => OnePiece(w)

\* The inductive invariant.
WalletInv == TypeOK /\ RunFits /\ Alone /\ InHand /\ Settled /\ Usable

\* Each wallet behaves like an entry of Vault: a file that was emptied and will be written
\* counts as written, any other torn file as lost.
Writer(w) == {a \in Actors : At(a, "write") /\ run[a].w = w}
VaultOf(w) ==
    CASE body[w] \in Contents -> body[w]
      [] body[w] = Torn /\ Writer(w) # {} -> Target(run[CHOOSE a \in Writer(w) : TRUE])
      [] OTHER -> None

vault == [w \in Wallets |-> VaultOf(w)]
saving == {w \in Wallets : Writer(w) # {}}

V == INSTANCE Vault

\* A wallet's key never changes, its credentials come and go one at a time, and only a failed
\* save or a deletion makes it vanish.
VaultSpec == V!VSpec

=============================================================================
