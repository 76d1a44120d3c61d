------------------------------ MODULE KeyStore ------------------------------
(***************************************************************************)
(* Where platform keys last: the TPM, the file platform.key, the flag file *)
(* .tpm_password_protected beside it, and key_type in platform.cfg.        *)
(* PlatformKeyService (qt/svc/platform_key_service.py) creates, deletes    *)
(* and loads them for the settings and the advanced dialog; TPMDevice      *)
(* (platform/nix/tpm_device.py) keeps one key under a persistent handle.   *)
(*                                                                         *)
(* Creating or deleting a key takes several steps, each of which may fail  *)
(* and after each of which the process may die.  The Qt main thread takes  *)
(* them all, so that nothing of the dialogs interleaves with them; what    *)
(* meets what a failed operation has left is the next operation, and the   *)
(* next start.  The TPM is available.                                      *)
(***************************************************************************)
EXTENDS Naturals

CONSTANTS
    Passwords,
    NoPassword, \* the empty one
    MaxKeys,    \* bound: keys generated
    MaxHarm,    \* bound: crashes and failing writes
    None,       \* no such key, nothing
    Torn        \* a file that is empty or cut short

Secrets == Passwords \cup {NoPassword}
Types == {"tpm", "file"}
Key == [n : 1..MaxKeys, pwd : Secrets]

ASSUME KeyStoreAssumption ==
    /\ MaxKeys \in Nat /\ MaxHarm \in Nat
    /\ NoPassword \notin Passwords
    /\ None \notin Types \cup Key \cup {Torn} /\ Torn \notin Types \cup Key

\* What the application holds: the key of a file, or a TPMKeyPair with the password to use.
Served == [src : Types, n : 1..MaxKeys, pwd : Secrets]

\* An operation of the Qt main thread that is not over.
Operations == [type : Types \cup {None}, pwd : Secrets, fresh : BOOLEAN,
               copy : {"dialog", "app"}, pc : {"write", "flag", "unflag", "save", "dump"}]

ASSUME NothingAssumption == None \notin Served \cup Operations

VARIABLES
    tpm,        \* the key under FIDO2_KEY_BASE
    flag,       \* .tpm_password_protected exists
    file,       \* platform.key
    cfg,        \* key_type of platform.cfg
    served,     \* SysTrayApp._platform_key when it is unlocked, None when it is locked
    pref,       \* key_type as the application has read it at start
    dialog,     \* "down" no application, "closed", or the key type selected in the dialog
    creatable,  \* the dialog's create button is enabled
    op,         \* what the main thread is at
    made, harm, \* counters
    broken,     \* history: the TPM's key or its flag was last changed by half of an operation
    chosen,     \* history: the key type selected or created last
    lost        \* history: platform.cfg does not say so, because it could not be written then or
                \* was overwritten since

store == <<tpm, flag, file>>
app == <<served, pref>>
ghost == <<broken, chosen, lost>>
vars == <<store, cfg, app, dialog, creatable, op, made, harm, ghost>>

Init ==
    /\ tpm = None /\ flag = FALSE /\ file = None /\ cfg = None
    /\ served = None /\ pref = None
    /\ dialog = "down" /\ creatable = FALSE
    /\ op = None /\ made = 0 /\ harm = 0
    /\ broken = FALSE /\ chosen = None /\ lost = FALSE

Idle == op = None
Open == dialog \in Types /\ Idle

----------------------------------------------------------------------------
(* The application starts and ends.                                        *)

\* load_tpm_key and load_file_key without a password.
TpmLoads == tpm # None /\ ~flag
FileLoads == file \notin {None, Torn} /\ file.pwd = NoPassword
FromFile == [src |-> "file", n |-> file.n, pwd |-> NoPassword]

\* Mutant: the flag is not asked for, and every key in the TPM loads.
AutoLoadedMutant(p) ==
    CASE p # "file" /\ tpm # None -> [src |-> "tpm", n |-> tpm.n, pwd |-> NoPassword]
      [] p # "tpm" /\ ~(p = None /\ tpm # None) /\ FileLoads -> FromFile
      [] OTHER -> None

\* auto_load_key: the preferred type, or without a preference the TPM and then the file.
AutoLoaded(p) ==
    CASE p # "file" /\ TpmLoads -> [src |-> "tpm", n |-> tpm.n, pwd |-> NoPassword]
      [] p # "tpm" /\ ~(p = None /\ TpmLoads) /\ FileLoads -> FromFile
      [] OTHER -> None

\* PlatformConfig: a file that is not JSON counts as none.
Preference == IF cfg = Torn THEN None ELSE cfg

StartApp ==
    /\ dialog = "down" /\ dialog' = "closed"
    /\ pref' = Preference /\ served' = AutoLoaded(Preference)
    /\ UNCHANGED <<store, cfg, creatable, op, made, harm, ghost>>

\* The process ends, or dies in the middle of an operation.
StopApp ==
    /\ dialog # "down" /\ dialog' = "down"
    /\ \/ Idle /\ UNCHANGED <<harm, broken, lost>>
       \/ /\ ~Idle /\ harm < MaxHarm /\ harm' = harm + 1
          /\ broken' = (broken \/ op.pc \in {"flag", "unflag"})
          /\ lost' = (lost \/ op.pc = "dump" \/ (op.pc = "save" /\ op.copy = "dialog"))
    /\ op' = None /\ served' = None /\ pref' = None /\ creatable' = FALSE
    /\ UNCHANGED <<store, cfg, made, chosen>>

----------------------------------------------------------------------------
(* The settings dialog.                                                    *)

\* _update_platform_key_controls_state, for the key type selected by then.
Refreshed == creatable' = (IF dialog' = "tpm" THEN tpm' = None ELSE file' = None)

\* _set_radiobtn_from_loaded_key.
OpenDialog ==
    /\ dialog = "closed"
    /\ dialog' = CASE Preference # None -> Preference
                   [] Preference = None /\ tpm # None -> "tpm"
                   [] OTHER -> "file"
    /\ UNCHANGED store /\ Refreshed
    /\ UNCHANGED <<cfg, app, op, made, harm, ghost>>

\* __handle_dialog_closed loads a key if there is a file and none is loaded.
CloseDialog ==
    /\ Open /\ dialog' = "closed" /\ creatable' = FALSE
    /\ served' = IF file # None /\ served = None THEN AutoLoaded(pref) ELSE served
    /\ UNCHANGED <<store, cfg, pref, op, made, harm, ghost>>

Starts(t, p, fresh, l) ==
    op' = [type |-> t, pwd |-> p, fresh |-> fresh, copy |-> "dialog", pc |-> l]
Goes(l) == op' = [op EXCEPT !.pc = l]
At(l) == op # None /\ op.pc = l

\* _on_cache_type_changed: the setter of key_type saves the configuration.
SelectType(t) ==
    /\ Open /\ dialog' = t
    /\ Starts(t, NoPassword, FALSE, "save")
    /\ UNCHANGED <<store, cfg, app, creatable, made, harm, ghost>>

\* TPMDevice.create_key: a key that exists is returned as it is, whatever the password.  When
\* the TPM refuses nothing has changed.
CreateTpmKey(p) ==
    /\ Open /\ dialog = "tpm" /\ creatable
    /\ IF tpm = None
       THEN made < MaxKeys /\ made' = made + 1 /\ tpm' = [n |-> made', pwd |-> p]
       ELSE UNCHANGED <<tpm, made>>
    /\ Starts("tpm", p, tpm = None, "flag")
    /\ UNCHANGED <<flag, file, cfg, app, dialog, creatable, harm, ghost>>

\* Mutant: the flag is set and never removed.
SaveFlagMutant ==
    /\ At("flag") /\ Goes("save")
    /\ flag' = (flag \/ op.pwd # NoPassword)
    /\ broken' = (broken /\ ~op.fresh)
    /\ UNCHANGED <<tpm, file, cfg, app, dialog, creatable, made, harm, chosen, lost>>

\* create_tpm_key goes on with the flag that says whether the key has a password.
SaveFlag ==
    /\ At("flag") /\ Goes("save")
    /\ flag' = (op.pwd # NoPassword)
    /\ broken' = (broken /\ ~op.fresh)
    /\ UNCHANGED <<tpm, file, cfg, app, dialog, creatable, made, harm, chosen, lost>>

\* create_file_key refuses when the file exists; else the file is opened and thereby emptied.
CreateFileKey(p) ==
    /\ Open /\ dialog = "file" /\ creatable
    /\ file = None /\ file' = Torn
    /\ made < MaxKeys /\ made' = made + 1
    /\ Starts("file", p, TRUE, "write")
    /\ UNCHANGED <<tpm, flag, cfg, app, dialog, creatable, harm, ghost>>

WriteFile ==
    /\ At("write") /\ Goes("save")
    /\ file' = [n |-> made, pwd |-> op.pwd]
    /\ UNCHANGED <<tpm, flag, cfg, app, dialog, creatable, made, harm, ghost>>

\* PlatformConfig.save empties platform.cfg ...
OpenConfig ==
    /\ At("save") /\ Goes("dump")
    /\ cfg' = Torn
    /\ UNCHANGED <<store, app, dialog, creatable, made, harm, ghost>>

\* Only what the dialog saves is a choice, and makes it look at the keys again.
Saved(failed) ==
    /\ op' = None /\ UNCHANGED <<store, dialog>>
    /\ IF op.copy = "dialog"
       THEN chosen' = op.type /\ lost' = failed /\ Refreshed
       ELSE /\ lost' = IF failed THEN lost \/ cfg = Torn ELSE op.type # chosen
            /\ UNCHANGED <<chosen, creatable>>

\* Mutant: creating a key does not save its type.
WriteConfigMutant ==
    /\ At("dump")
    /\ cfg' = IF op.fresh THEN None ELSE op.type
    /\ Saved(FALSE)
    /\ UNCHANGED <<app, made, harm, broken>>

\* ... and writes it.
WriteConfig ==
    /\ At("dump")
    /\ cfg' = op.type
    /\ Saved(FALSE)
    /\ UNCHANGED <<app, made, harm, broken>>

\* An OSError from opening or writing platform.cfg is logged, and the operation a success.
ConfigFails ==
    /\ At("save") \/ At("dump")
    /\ harm < MaxHarm /\ harm' = harm + 1
    /\ Saved(TRUE)
    /\ UNCHANGED <<cfg, app, made, broken>>

\* An OSError before that, from a file that is opened, written or removed, ends the operation.
\* The dialog shows the message and does not look at the keys again.
StoreFails ==
    /\ At("write") \/ ((At("flag") \/ At("unflag")) /\ (flag \/ op.pwd # NoPassword))
    /\ harm < MaxHarm /\ harm' = harm + 1
    /\ op' = None /\ broken' = (broken \/ ~At("write"))
    /\ UNCHANGED <<store, cfg, app, dialog, creatable, made, chosen, lost>>

\* _handle_unlock_platform_key.  Typing the password refreshes the controls; the field is
\* enabled for a key with a password, which a file that is cut short seems to be.
Unlock(p) ==
    /\ Open
    /\ CASE dialog = "tpm" ->
              /\ tpm # None /\ flag
              /\ served' = IF p = tpm.pwd THEN [src |-> "tpm", n |-> tpm.n, pwd |-> p] ELSE served
         [] dialog = "file" ->
              /\ file # None /\ ~FileLoads
              /\ served' = IF file # Torn /\ p = file.pwd THEN FromFile ELSE served
    /\ UNCHANGED <<dialog, store>> /\ Refreshed
    /\ UNCHANGED <<cfg, pref, op, made, harm, ghost>>

----------------------------------------------------------------------------
(* The advanced dialog.                                                    *)

\* _handle_delete_tpm_key: delete_key raises when there is no key, and the flag stays.
DeleteTpmKey ==
    /\ Open /\ tpm # None
    /\ tpm' = None
    /\ Starts("tpm", NoPassword, FALSE, "unflag")
    /\ UNCHANGED <<flag, file, cfg, app, dialog, creatable, made, harm, ghost>>

\* _remove_tpm_password_flag; the create button stays as it was.
RemoveFlag ==
    /\ At("unflag") /\ op' = None
    /\ flag' = FALSE /\ broken' = FALSE
    /\ UNCHANGED <<tpm, file, cfg, app, dialog, creatable, made, harm, chosen, lost>>

\* _handle_update_info and _handle_ctap_version_changed save the application's copy of
\* platform.cfg, and with it the key type that was read at start.
ChangeSetting ==
    /\ Open
    /\ op' = [type |-> pref, pwd |-> NoPassword, fresh |-> FALSE, copy |-> "app", pc |-> "save"]
    /\ UNCHANGED <<store, cfg, app, dialog, creatable, made, harm, ghost>>

\* _handle_delete_recreate_file_key.
DeleteFileKey ==
    /\ Open /\ file # None
    /\ file' = None /\ UNCHANGED <<tpm, flag, dialog>> /\ Refreshed
    /\ UNCHANGED <<cfg, app, op, made, harm, ghost>>

Next ==
    \/ StartApp \/ StopApp \/ OpenDialog \/ CloseDialog
    \/ \E t \in Types : SelectType(t)
    \/ \E p \in Secrets : CreateTpmKey(p) \/ CreateFileKey(p)
    \/ \E p \in Passwords : Unlock(p)
    \/ SaveFlag \/ WriteFile \/ OpenConfig \/ WriteConfig \/ ConfigFails \/ StoreFails
    \/ DeleteTpmKey \/ RemoveFlag \/ DeleteFileKey \/ ChangeSetting

Spec == Init /\ [][Next]_vars

----------------------------------------------------------------------------
(* Properties.                                                             *)

TypeOK ==
    /\ tpm \in Key \cup {None} /\ flag \in BOOLEAN
    /\ file \in Key \cup {None, Torn} /\ cfg \in Types \cup {None, Torn}
    /\ served \in Served \cup {None} /\ pref \in Types \cup {None}
    /\ dialog \in Types \cup {"down", "closed"} /\ creatable \in BOOLEAN
    /\ op \in Operations \cup {None}
    /\ made \in 0..MaxKeys /\ harm \in 0..MaxHarm
    /\ broken \in BOOLEAN /\ chosen \in Types \cup {None} /\ lost \in BOOLEAN

\* The flag says of the key in the TPM whether it has a password, unless an operation on them
\* was cut short.
FlagTells == (Idle \/ op.pc \in {"write", "save", "dump"}) /\ ~broken =>
                 (flag <=> (tpm # None /\ tpm.pwd # NoPassword))

\* An application that is unlocked by the key in the TPM has the password that opens it:
\* otherwise it says unlocked, and every request for the key fails later.
ServedOpens ==
    (served # None /\ served.src = "tpm" /\ tpm # None /\ served.n = tpm.n /\ ~broken) =>
        served.pwd = tpm.pwd

\* In the middle of an operation, which only an open dialog starts; and keys are numbered.
HalfWay ==
    /\ op # None => dialog \in Types
    /\ op # None /\ op.copy = "app" => op.pc \in {"save", "dump"}
    /\ At("flag") => tpm # None /\ (op.fresh => tpm.pwd = op.pwd /\ (served # None => served.n # tpm.n))
    /\ At("unflag") => tpm = None
    /\ At("write") => made > 0 /\ dialog = "file"
Numbered ==
    /\ tpm # None => tpm.n <= made
    /\ file \notin {None, Torn} => file.n <= made
    /\ served # None => served.n <= made

\* Creating a key meets one that the TPM has only after an operation was cut short: the create
\* button is then not looked at again.
Offered ==
    /\ (dialog = "tpm" /\ creatable /\ tpm # None /\ (Idle \/ op.copy = "app")) => broken
    /\ At("flag") /\ ~op.fresh => broken

\* What was chosen last is what platform.cfg says, unless it is lost or just being written.
Kept ==
    /\ At("dump") => cfg = Torn
    /\ ~At("dump") /\ ~lost => cfg = chosen

KSInv == TypeOK /\ FlagTells /\ ServedOpens /\ HalfWay /\ Numbered /\ Offered /\ Kept

\* The key type that was chosen last, by selecting it or by creating a key, is the one the
\* application loads at its next start, by itself if the key has no password: the choice, the
\* key and its flag are written one after the other, and read together.
ChosenLoads ==
    [][(dialog = "down" /\ dialog' # "down" /\ ~lost) =>
          /\ pref' = chosen
          /\ (chosen = "file" /\ FileLoads) => served' = FromFile
          /\ (chosen = "tpm" /\ tpm # None /\ ~broken /\ tpm.pwd = NoPassword) =>
                served' # None /\ served'.src = "tpm"
          /\ (chosen = "tpm" /\ served' # None) => served'.src = "tpm"]_vars

=============================================================================
