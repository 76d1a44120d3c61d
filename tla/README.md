# Formal models of soft-fido2

soft-fido2 is a FIDO2 authenticator in software: a Python process that plays a
CTAP2 USB key (over UHID or USB/IP), keeps passkeys in files encrypted under a
*platform key*, and asks its user through desktop notifications and a
fingerprint reader. This directory holds TLA+ models of it, the TLC
configurations that check them and TLAPS proofs about them.

The process is a set of threads around a few queues, and most of what can go
wrong is in how those threads meet, and in what a failing step or a crash leaves
in the files. That is what is modelled; cryptography, encodings and widgets are
not.

## 1. The system

| Component | State it keeps | Operations | Talks to |
|---|---|---|---|
| **CTAPHID transport (UHID)** `platform/passkey_device.py`, `platform/uhid_device.py`, `ctap/cborcmd.py` (assembly), `ctap/pending.py` | `cids` (channel → pending `CBORCommand`), `cids_lock`, `pending` (reply frames) | INIT, CBOR, continuation frames, PING/WINK/CANCEL/ERROR/KEEPALIVE, keepalives, one thread per frame | host through `/dev/uhid`; CTAP handlers under `cids_lock` |
| **Platform key provider** `key_pair.py` (`__request_platform_kp`), `qt/app.py`, `qt/svc/platform_key_service.py`, `qt/ux/settings_dialog.py`, `qt/ux/advanced_dialog.py` | `platform_key_requests`, `platform_key_responses`, `_platform_key`, `_current_state`, `platform.key`, TPM key, `platform.cfg` | ask for the key; load, create, delete, unlock | every CTAP and U2F handler and the GUI ask; the application's worker answers |
| **User presence and notifications** `ctap/cborcmd.py` (`gather_user_presence`), `qt/ux/main_window.py`, `platform/nix/dbus_notify.py`, `platform/nix/fprint_device.py` | `notify_auth`, `notify_sysapp`, `_current_notification_id`, prompts on the screen, fingerprint threads | gather, show, withdraw, click, expire, CLOSE events | getInfo under `cids_lock`; worker and Qt main thread; D-Bus |
| **Authenticator sessions, PIN protocol** `ctap/api.py`, `ctap/cborcmd.py` | `_open_keys` per channel (presence, key, PIN token, `tStart`), `_pin_retry`, `_lock`, watchdog | cache presence, PIN token, retries, expiry, resolve passkey | CTAP handlers, watchdog thread, wallet |
| **Passkey wallet** `key_pair.py`, `qt/svc/credential_service.py`, `qt/svc/passkey_service.py` | `<name>.passkey` and `.stash` files, resident credentials, PIN hash | create, list, load, update, delete, change PIN | sessions, GUI threads, platform key |
| **Device lifecycle** `__main__.py`, `uhid_device.py`, `qt/app.py` | manager's process handle and lock, `notify_udev` | start, stop, restart, quit | GUI menu, `SIGTERM` |
| **USB/IP device** `platform/usbip_device.py` | connection, URB queues, its own `cids` | import, submit, unlink, CTAPHID again | sessions, watchdog |
| **U2F (CTAP1)** `ctap/u2fapi.py`, `authenticator/u2f.py` | none of its own: the key handle holds the key, encrypted | register, authenticate, version | transport (outside `cids_lock`), platform key |
| **FIDO2 objects, attestation** `authenticator/fido2.py`, `attestation/*` | none | build authenticator data and statements | handlers |
| **Keys, certificates, encryption** `key_pair.py`, `symmetric_key.py`, `cert_utils.py` | none of their own | cryptography | wallet, handlers |
| **Packets** `ctap/packet.py` | none | field layouts | transport |
| **TPM backend** `platform/nix/tpm_device.py` | the TPM's handles | create, load, delete | platform key |
| **caBLE** `platform/cable.py` | none | decode QR data and tunnel domains | – |
| **Desktop interface, command line** `qt/ux/*`, `qt/svc/ipc_client.py`, `platform/credential_mgmt.py`, `util/manage_creds.py` | widgets | dialogs, workers, single-instance socket | all of the above |

What is hard in each, and what makes it correct:

* *Transport.* Frames of one message are handled in parallel threads; INIT
  replaces contexts without the lock; one bounded reply queue for everybody.
  Correct: a handler is given one whole message in order; replies leave in
  order; no schedule loses a request or keeps the lock.
* *Platform key.* One response queue for all callers, `qsize()` and `get()` in
  two steps, time-outs, responses that arrive late; two assignments that another
  thread reads in between. Correct: a call returns a key that was provided during
  that call; an unlocked application has a key; calls end.
* *Platform keys at rest.* A key and the flag file that says whether it has a
  password are written in two steps, `platform.cfg` is emptied and then written,
  and two objects hold copies of it. Correct: the flag tells the truth; what the
  application holds opens the key; the next start loads the type that was chosen.
* *User presence.* No message says which request it is for, and what a request
  has started (prompt, fingerprint thread, answers) outlives it. Correct: a
  request is decided by its own prompt and finger; nobody else withdraws its
  prompt; every request is decided.
* *Sessions.* A watchdog pops entries between two looks at them; expiry happens
  only within one second; the desktop changes wallets under an open session.
  Correct: what is signed or stored belongs to the session the request began
  with; a superseded token opens nothing; sessions end.
* *Wallet.* Two files per wallet, written and removed one after the other, with
  no lock. Correct: the files are of one piece, or the next save repairs them; a
  save that was reported can be opened; a wallet is never half of two.
* *Lifecycle.* A QUIT left in the queue meets the next device; join has no time
  limit. Correct: one device at most, no stray QUIT, a restart and the program's
  end come to an end.
* *USB/IP.* Waiting URBs and channels outlive a connection and are shared by the threads
  of all that there are, without a lock; the early frames of
  some commands share one buffer, UNLINK races replies. Correct: on a
  connection of its own no URB is completed twice or after its UNLINK, a reply goes out
  whole and in order.

The list of hazards with their lines is in `PROJECT.json`.

## 2. Modules

| Module | What it models |
|---|---|
| `CtapHid` | the transport: one frame thread per frame (`pc[f]`), `cids` (`known`, `txn`), `cids_lock` (`lock`), the `CBORCommand` being run (`work`), `KeepAliveWorker`, `pending`; the host is external |
| `CtapHid_proofs` | `IInv`, and the theorems about `CtapHid` |
| `KeyProvider` | the abstract promise of `__request_platform_kp`: a call returns a key provided during the call, or raises |
| `PlatformKey` | callers, the two queues, the worker, the settings dialog, key storage |
| `PlatformKey_proofs` | `PKInv`, its theorems, and that `PlatformKey` implements `KeyProvider` |
| `KeyStore` | the TPM's key, `platform.key`, the flag file and `platform.cfg`, written step by step |
| `KeyStore_proofs` | `KSInv` and the theorems about `KeyStore` |
| `UserPresence` | `gather_user_presence`, fingerprint threads, `notify_auth`, `notify_sysapp`, worker, prompt threads, Qt main thread, the user |
| `UserPresence_proofs` | `UPInv` and the theorems about `UserPresence` |
| `Session` | `_open_keys`, the watchdog, the CBOR handlers, the PIN protocol, U2F |
| `Session_proofs` | that `SessionInv` is inductive, and the theorems about `Session` |
| `Vault` | the abstract promise of a wallet: a key that never changes, a PIN, a list of credentials |
| `Wallet` | the two files of a wallet under every operation on them |
| `Wallet_proofs` | that `WalletInv` is inductive, its theorems, and that `Wallet` implements `Vault` |
| `Lifecycle` | `DeviceManager`, the QUIT queue, device threads, the main thread, restarts |
| `Lifecycle_proofs` | that `LifecycleInv` is inductive, and the theorems about `Lifecycle` |
| `UsbIp` | connections, URBs, command assembly and replies of the USB/IP server |
| `UsbIp_proofs` | that `UsbInv` is inductive, and the theorems about `UsbIp` |
| `MC_*` | instances for TLC |

### CtapHid

`HostStart`/`HostContinue` put a frame into the device, which starts its thread
(`pc[f] = "ready"`); the order in which ready threads act is free, as with the
threads `_maybe_in` starts. `CborStep` and `SeqStep` are what a thread does once
it has `cids_lock`: each disjunct is one path through `ctaphid_cbor` or
`_handle_incoming_sequence` and `append_segment` (buffering early frames,
draining the buffer, completion test, both `>=` comparisons included). A thread
that executes a request holds `work` and may ask the user (`GatherStart`,
`GatherEnd`), answer, raise, or find its channel replaced by INIT (`RunOrphan`).
`SendSegment` puts one response frame, and blocks while `pending` is full; only
the thread of a one frame request does so while it holds the lock. `InitDraw`
replaces `cids[c]` without the lock and draws any channel, also one in use.
`ControlAck` and `MsgReply` answer one frame commands and `CTAPHID_MSG` without
the lock. `KeepAliveWorker` is `WorkerLoop`/`WorkerPut`. A frame's payload is the
pair (message, index): the properties only need to know whose bytes are where.

### PlatformKey and KeyProvider

A call is `Begin`, `PutRequest`, `Look` (`qsize()`), `GetResponse` (`get()`),
`Wake`, `TimeOut`, and for callers of `_get_platform_kp` `ReadFile`. The worker is
`WorkerTake`, `WorkerCheck` (is the application unlocked), `WorkerRead` (its
key), `WorkerPut`. The dialog's `Unlock` and `SetUnlocked` are the two
assignments of `_handle_unlock_platform_key`. A caller drops a response that is
not its own, and raises only when its own is an error (`key_pair.py:764`).
`window[c]` is a history variable: what the application has provided since the
call began. The refinement maps `provided` to the key of an unlocked
application and `calling` to the callers inside a call.

### KeyStore

The Qt main thread takes all steps, so `op` is the one operation that is not
over and its `pc` the step it is at: `CreateTpmKey`, `SaveFlag`; `CreateFileKey`,
`WriteFile`; `DeleteTpmKey`, `RemoveFlag`; and `OpenConfig`, `WriteConfig` for every
save of `platform.cfg`. `StoreFails` and `ConfigFails` are an `OSError` from such a
step, `StopApp` in the middle of one is a crash. A key is a number and its
password; `served` is what the application holds, with the password it will use
on the TPM. `auto_load_key` is the operator `AutoLoaded`. The settings dialog and
the application each have a copy of `platform.cfg` and save all of it:
`ChangeSetting` is the advanced dialog, which saves the key type read at start.
History variables: `broken` (the TPM's key or its flag was last changed by half of
an operation), `chosen` and `lost` (the choice is not what `platform.cfg` says,
because it could not be written or was overwritten).

### UserPresence

`call` numbers the requests that gather presence, one at a time because the
callers hold `cids_lock` (on USB/IP, where nobody does, this is the assumption of
`Session`). Every message carries `of`, where it comes from;
no answer or order has that in the code, and no action looks at it (only the
Qt main thread compares the id of a *closed* signal with the current one, as the
code does). `Notice` stands for a notification that belongs to no request.
`Clear` empties the queue without waking a thread that waits in `put`;
`ReplyTaken` and `SignalTaken` are what readers of the one D-Bus connection take
from each other. `quiet` is a history variable: the requests that began while
nothing of an earlier one was under way (`AllQuiet`).

### Session

Assumption: one CBOR request runs at a time. `cids_lock` keeps it on UHID. On
USB/IP a connection has one thread, but nothing keeps it when connections overlap
(see `UsbIp`): then two requests share `_open_keys` with `_lock` around each step
only, which is not modelled.

`pc` is where the request is and `job` what was asked. Each step is one critical section
of `_lock`, one access to `_open_keys` without it, or one load or save of a wallet:
`Presence`, `Parse`, `Uv`, `Auth`, `Refuse`, then `Resolve`/`Take` for makeCredential or
`Lookup`/`HasWallet`/`Take` for getAssertion, `Load`, `Attest`, `Save`, `Write`,
`Choose`; `Save` is the load in `update_passkey`, whose result is kept in `image`, and
`Write` is `_save_passkey`, which may also fail before, at or after the `.passkey` file.
`PinRetries`, `Agree`, `Decapsulate`, `Validate`, `Store` are the PIN protocol. Between
them the watchdog ejects entries (`Watch`), the clock moves (`Tick`, `Suspend`) and the
desktop changes PINs, deletes wallets and credentials, or leaves a wallet that does not
open (`Desktop`), also between `Save` and `Write`. An entry's age stops counting one
past `Exp`, since `_token_expiry_check` tests for equality. U2F requests share only the
platform key with all this, so they are answered between two CBOR requests. History
variables: `first`, the entry when the request began; `popped`, whether it was ejected
since; `touched`, whether the application has changed the wallet between `Save` and
`Write`; `latest`, the last token issued to a channel.

### Wallet and Vault

An operation is a sequence of turns (`ReadBody`, `ReadStash`, and for most `Open`,
`Write`, `OpenStash`, `WriteStash`): update_pin is one turn, delete_credential three.
Each step is one access to one file; opening a file for writing makes it `Torn`.
`Crash` may come between any two steps, `SaveFails` at any write. The two actors
are a CTAP request, which opens a wallet with half of the PIN's hash and needs
the stash and the platform key for the other half, and the application. `Vault`
is refined by reading a torn file that is being written as already written, and
any other as lost.

Assumption `Apart`: two operations that *write* the same wallet do not overlap. Nothing
in the code keeps a request and the application apart, and without the assumption one of
the two updates is lost. Reading operations, and operations on other wallets, overlap
freely. There is one request at a time, as in `Session`. Likewise `ReplacePlatform` does
not come while a request saves.

### Lifecycle

`pc[a]` is what the main thread or a restart worker does next: `StopDevice`,
`PutQuit`, `Join` (with the manager's lock held, without a time limit, because
`CTAPHIDevice.join` drops it), `StartDevice`, `Report`. A device thread is `OpenDevice`,
`TakeQuit`, `FailDevice`. `Exit` puts the QUIT of `_exit`, which nobody waits for.
`Status` is the main thread asking `is_running`, which waits for the lock. The
three modes are the tray application, `--no-systray` and USB/IP.

### UsbIp

Every connection has a thread, which handles one URB after another, and `cids` and
`pending` are class attributes that all of them share without a lock. The model follows
a connection while its thread is the only one at work on them; then an action is one
URB: `SubmitIn`, the commands `OutInit`, `OutCbor`, `OutMsg`, `OutSequence`, and
`Unlink`. Handling is written as operators on a record of the device's state and what
was sent (`SendSegment`, `Run`, `Appended`, `Sequence`); an exception ends the
connection, which `cids` and `pending` outlive. `told` is what a client of the channel
has seen of the reply, `spoilt` the channels whose client has broken the protocol, or
knows nothing of the URBs and transactions an earlier connection has left. An id that is
drawn again spoils nothing: the client may lose its reply, but gets no part of another
one.

That a connection is alone is an assumption the code does not keep: the server is a
`ThreadingTCPServer`, `handle_attach` attaches whoever asks, and the thread of a
connection that was lost may still wait for a user. `Share` is where it ends: from
then on nothing is claimed, URBs and frames of several clients may be taken,
unlinked, answered twice or sent to the wrong socket. `Part` is where the last of
these threads is gone. It leaves any URBs in `pending`, any of the channels drawn, and
on each no transaction or one of `Leftovers`; the connections that follow start from there.

## 3. Runs

Each run explores all reachable states of its instance.

| Run | Instance | Shows |
|---|---|---|
| `CtapHid_safety` | two clients, two channel ids (they may draw the same), requests of three, one and two frames, reply queue of 2, responses of up to 2 frames; channels symmetric | `IInv`, `RequestIntegrity`, `ReplyOrder` |
| `CtapHid_live` | a two frame and a one frame request of two clients and a control frame, reply queue of 1 | `Answered`, `LockReleased` under `Fairness` |
| `PlatformKey_safety` | the device's handler and the Qt main thread, two calls each, one file key, one TPM key with a password, queues of 2 | `PKInv`, `UnlockedHasKey`, and that it implements `KeyProvider` |
| `PlatformKey_live` | the same two callers, one file key with a password, queues of 1 | `FailsFast`, `CallFreesWorker` under `Fairness` |
| `KeyStore` | two passwords and none, three keys generated, two crashes or failing writes | `KSInv`, `ServedOpens`, `ChosenLoads` |
| `UserPresence_safety` | two requests in a row, a CLOSE event, a fingerprint reader, queues of 1 | `UPInv`, `AnswerIsOwn`, `PromptStays` |
| `UserPresence_live` | the same without the CLOSE event | `GatherEnds` under `Fairness` |
| `Session_safety` | two channels, two PINs (both symmetric), one wallet and account, two tokens issued, watchdog, a clock that may jump | `SessionInv`, `EntriesCohere`, `NoDuplicate`, `KeyOfTheSession`, `StoresForTheSession` |
| `Session_live` | one channel, `Exp` of 2, a clock that does not jump | `NoneExpired`, `RequestsEnd`, `SessionsEnd` under a fair watchdog and clock |
| `Wallet_safety` | one wallet, two PINs, two accounts (both symmetric), two platform keys, two generations, up to two credentials, one crash or failing write | `WalletInv`, `FilesAgree`, `Usable`, and that it implements `Vault` |
| `Lifecycle` | two restart workers, four devices, two failures, the queue at its real size | `LifecycleInv`, `KnownDevice`, `NoStrayQuit`, `SuccessMeansRunning`; `SignalEnds`, `RestartEnds` under fairness |
| `UsbIp` | two channels, two IN URBs at a time, replies and requests of up to two frames, one URB left by an earlier connection, three transactions that threads side by side may leave | `UsbInv`, `WaitingIsOwed`, `RepliesInOrder`; `RepliesGoOut` while the client polls |

Why the bounds are enough to be of use. A three frame message is the least in
which a frame can be early, buffered and drained behind another; two clients
with two ids give both the clean and the shared channel; queues of one or two
places fill up. Two callers are the least that can steal, drop or race for a
response, and two calls each leave a response of the first to meet the second.
A second request is the least that can meet what the first has left behind. A
third platform key is created after one was deleted halfway, and a second failure
meets what the first has left. Two channels are the least on which a token can
be used on the wrong one, two PINs the least that can be exchanged under an open
session. On a wallet a second generation follows a deletion, and a third turn of
one operation meets turns of another. Two restarts overlap. One stale URB takes
one frame of a reply. The three `Leftovers` are ones that a single thread never makes: a
reply without frames from two runs, a request that has sent a frame before it was
complete, an empty command that ran. The theorems below hold for any of these numbers.

Deadlock is checked for `KeyStore`, which can always go on. The other instances
end in a state in which all that the bounds allow is done, or in which a party owes
nothing more.

Fairness. Every thread the process has started goes on running (`WF` on each
thread's next step), the event loop drains `pending` (`WF(Deliver)`), and time
passes: `GatherEnd` and `TimeOut` are the 15 second limit of the gather loop.
`TimeOut` of a key call is taken from a loop that comes back to its sleep again
and again while the clock runs, hence `SF`. `UserPresence` needs only the request's
own thread, the worker and time: fingerprint threads, prompt threads and the Qt main
thread may all stand still. In `Lifecycle` the steps that wait for the manager's
lock, and the timer that finds the signal, are `SF`: others come and go, and each
gets its turn. `Session` takes for granted that a handler goes on and its user
answers or lets the request time out. In `UsbIp` the client always submits another
IN URB, as the kernel's usbhid does; nothing else is fair. Nothing is assumed of the
user, of the dialog or of clients, but that a client that has started a message
sends its remaining frames; `Answered` needs that.

## 4. Properties

* `RequestIntegrity` - on a *clean* channel (one client, which has waited for
  every answer) what a CTAP handler is given is one whole message in order, of
  the client that waits.
* `ReplyOrder` - replies queued for a clean channel are in order and no keepalive
  is behind a response frame.
* `Answered` - a client alone on its channel gets its answer, unless a frame was
  dropped or refused, the handler raised or the message is of the one length
  that never completes. `LockReleased` - `cids_lock` is always let go of.
* `Implements` - see `KeyProvider`. `UnlockedHasKey` - the two assignments that
  unlock are in the order that keeps answers from being without a key.
* `FailsFast` - every call ends, but for one that looked at a response which the
  other caller then took (`Robbed`). `CallFreesWorker` - a worker stuck on a full
  response queue is freed by the next call.
* `FlagTells` (in `KSInv`), `ServedOpens` - the flag file tells whether the TPM's key
  has a password, and an application unlocked by that key has the password for it,
  until an operation is cut short and again after the next whole one. `ChosenLoads` -
  the next start loads the type chosen last, if it was not overwritten.
* `AnswerIsOwn`, `PromptStays` - a request that begins while nothing of an earlier
  one is under way is decided by its own prompt or finger, by a CLOSE event or
  by time, and nobody withdraws its prompt meanwhile. `GatherEnds` - every request
  is decided.
* `KeyOfTheSession` - what is signed is signed with the wallet of the session the
  request began with and under its token, and with the platform key only if the
  session had no wallet or was ejected meanwhile. `StoresForTheSession`, `NoDuplicate` -
  a credential is stored once, in that wallet, which opens to the session's PIN
  afterwards or, if the save failed, to none; unless the application has changed the
  wallet between the load and the save of `update_passkey`, that PIN was in force.
  `EntriesCohere` - the entry holds the last token issued. `NoneExpired`, `SessionsEnd`,
  `RequestsEnd` - what the watchdog owes.
* `FilesAgree` - at rest the two files of a wallet are whole and of one PIN, or both
  gone. `Usable` - what was reported saved can be opened. `VaultSpec` - see `Vault`.
* `KnownDevice`, `NoStrayQuit`, `SuccessMeansRunning`, `SignalEnds`, `RestartEnds` - the
  manager knows the one device that runs, no QUIT waits for the next one, what the
  dialog calls a success is one, and the end comes.
* On a connection that no other is served beside: `WaitingIsOwed` - a waiting URB is
  one the client waits for, once. `RepliesInOrder` - frames of a reply are in order,
  without a gap, from one run of the command. `RepliesGoOut` - a reply that is ready is
  not left behind, unless URBs of another connection wait before it.

The properties have exemptions, because the code does go wrong in these cases:

* a continuation frame that overtakes its first frame is lost, although the comment
  at `passkey_device.py:142` takes care of order; frames of an ignored command reach
  the pending one (`passkey_device.py:130`); a message that just fills its first frame is
  never run (`cborcmd.py:75`). `Answered` and `RequestIntegrity` leave them out.
* two callers see one response and the slower waits for ever (`key_pair.py:762`):
  `Robbed` in `FailsFast`. Without an application the eleventh call waits for ever.
* a click on the prompt of an earlier request answers the one in progress: `quiet`.
* a TPM key and its flag disagree after a failure between the two: `broken`.
* the advanced dialog reverts the key type chosen in the settings dialog: `lost`.
* a session whose second of expiry is missed is never ejected, and over UHID none
  is: `NoneExpired` is checked with a watchdog and a clock that does not jump.
* a PIN change or deletion between the load and the save of `update_passkey`
  (`key_pair.py:480-697`) is undone: the file is there again, under the old PIN, with the
  credentials loaded before. `StoresForTheSession` exempts it (`touched`).
* a save that was cut short leaves a wallet that does not open: `broken` in `Wallet`.
* after Exit, or when a device has failed on its own, a QUIT may be left: `NoStrayQuit`
  and `SuccessMeansRunning` name these conditions.
* URBs of a lost connection take frames of replies on the next one: `spoilt`.
* while several connections are served, or one beside the thread of a lost one, what
  they do to `pending`, `cids` and `connection` breaks `WaitingIsOwed` and
  `RepliesInOrder`: `WaitingIsOwed` exempts `link = "shared"`, `RepliesInOrder` every
  channel until another connection begins (`spoilt`).

## 5. Proofs

Checked by TLAPS for every value of the constants that meets the assumptions
`CtapHidAssumption`, `NoneAssumption`, `PlatformKeyAssumption`,
`UserPresenceAssumption`, `NoneIsNoAnswer`, `KeyStoreAssumption`,
`NothingAssumption`, `SessionAssumption`, `NoEntryAssumption`, `WalletAssumption`,
`FilesAssumption`, `RunAssumption`, `LifecycleAssumption`, `UsbIpAssumption` and
`TransactionAssumption`: the domains of the constants; that a message has as many
frames as its length needs; that `None`, `Absent` and `Torn` are none of the values
they stand beside. Every run evaluates those of its modules. The only hypotheses
beyond them are those of `ExpiryTheorem`, which are about the machine.

**CtapHid.** `RequestIntegrity` is not inductive: it says nothing of frames that
are still buffered. `IInv` adds who may hold the lock and what he has in hand
(`LockInv`), that frames of a clean channel are of the message its client waits
for (`BusyInv`), that a stored transaction holds only its own frames, each in its
place (`TxnInv`), that the thread that runs or answers is the last of its message
to be alive (`WorkInv`, `ReplyInv`), and what may stand behind a response frame in
`pending` (`PendInv`). One lemma per group of actions shows that they keep it; the
drain loop is described by where it stops (`Drains`), not by a recursion, so that
the step needs no induction. Results: `Invariance`, `IntegrityTheorem`,
`OrderTheorem`.

**PlatformKey.** `PKInv` adds to the types that a call in progress has recorded
what is provided now (`WindowInv`), that no response is from a call not yet made
and that a response to the call in progress carries a key of that call's window
(`QueueInv`), through the worker's two steps. With it every step is a step of
`KeyProvider` or a stutter. Results: `Invariance`, `UnlockedTheorem`,
`Refinement`. The invariant does not depend on `AppRuns`.

**UserPresence.** `UPInv`: while the last request is a quiet one, signals, orders,
prompts, prompt threads, fingerprint threads and what the Qt main thread is
putting are its own (`Own`); `notify_auth` holds nothing of others once it has
been cleared (`OwnAnswers`); until it is answered or matched nobody is about to
withdraw its prompt (`Undisturbed`). Results: `Invariance`, `AnswerTheorem`,
`PromptTheorem`.

**KeyStore.** Neither `FlagTells` nor `ChosenLoads` is inductive. `KSInv` adds what holds in
the middle of an operation (`HalfWay`: a key that is being created has the password
of the operation, and a number that the application cannot hold yet), that the
create button meets a key in the TPM only after an operation was cut short
(`Offered`; `create_key` would return the old key and the flag would be set for the
new password), and that `platform.cfg` holds the choice or is empty while it is
written (`Kept`). Results: `Invariance`, `ServedTheorem`, `ChosenTheorem`.

**Session.** `KeyOfTheSession` and `StoresForTheSession` speak of the last step of a
request, `first` of its first. `SessionInv` carries what lies between: the entry of
the channel is still the one the request began with, or was ejected (`SameSession`;
the watchdog is the only one to touch it meanwhile); each request is at a step of its
own kind (`StepsFit`); past the look at the presence it was verified, and past the
look at `pinAuth` it has no token or the session's (`Authorised`); the key in hand is
that of the session's wallet (`KeyInHand`); between the excluded check and the store
nobody stores for the same account (`StillExcluded`); what `update_passkey` has loaded
is without that account, and is the wallet, under the session's PIN, unless the
application touched it (`ImageFits`). What the application does to the wallets at any
step disturbs only the last two, and only downwards. Results: `Invariance`,
`EntriesTheorem`, `DuplicateTheorem`, `KeyTheorem`, `StoreTheorem`. `ExpiryTheorem` is
under the hypotheses that the device has a watchdog, which UHID devices have not, and
that the clock does not jump; its invariant is that an entry the watchdog has looked at
in this second is younger than `Exp`.

**Wallet.** `FilesAgree` is about wallets at rest. `WalletInv` has one conjunct for each
step of a save (`InHand`): what was read is still in the file, the file is empty when
it is to be written, the `.passkey` holds the new content while the `.stash` is still
to be written; `Settled` is `OnePiece` for every wallet that nobody is between the two
files of. `Alone` is what `Apart` gives. Results: `Invariance`, `FilesTheorem`,
`UsableTheorem`. `VaultRefinement` shows step by step that the files implement `Vault`
for any number of wallets. That needed `Lose` of a *set* of wallets: when the process
dies, the saves of a request and of the application on two wallets end at once, which
an instance with one wallet does not show. `Without`, the removal of rows, is a
function of the rank of each row that stays, so that `Fewer` follows without induction.

**Lifecycle.** `LifecycleInv` adds to `KnownDevice` that, while nothing has failed, who is
about to put a QUIT under the manager's lock has seen the device alive, that a QUIT in
the queue is the only one, for the device alive and with someone in `join` for it
(`OneQuit`), and what a restart that is to be reported has left behind (`Restarted`).
Results: `Invariance`, `KnownTheorem`, `StrayTheorem`, `SuccessTheorem`.

**UsbIp.** `UsbInv` adds two facts to the properties. Stale URBs wait before all others
(`StaleFirst`): the last URB of a number, which `unlink` takes, is therefore the one of
this connection if there is one. And on a channel that is not spoilt the next frame of a
reply that is ready is the one its client expects (`InStep`). That says nothing of what
is left on the other channels, so the proof holds for any transactions in `Leftovers`.
Since a handler is an operator on a record, the proof
says what a record may be (`Sound`: its queue, the frame it sent, and each channel's
transaction) and shows for every operator that it keeps to this: `SendSound`,
`RunSound`, `AppendedSound` and so on; `BecomesKeeps` then does all URB steps at once.
The proof uses neither the number of the frame a client sends nor whether an id was
drawn again, so neither spoils a channel in the model. Results: `Invariance`,
`WaitingTheorem`, `OrderTheorem`.

Only model-checked: the liveness properties, which need fairness and `ENABLED`
(`Answered`, `LockReleased`, `FailsFast`, `CallFreesWorker`, `GatherEnds`, `RequestsEnd`,
`SessionsEnd`, `RepliesGoOut`, `SignalEnds`, `RestartEnds`). Every invariant, every action
property and both refinements that a run checks are also proved.
What recursive definitions compute for every input is out of the prover's reach;
the models have none.

## 6. Not modelled

* Of the transport: UHID create, start and stop, and commands with an unknown
  CTAP byte (the thread dies before it has changed anything).
* Of the platform key: resetting the TPM, and a TPM that is not there. In
  `PlatformKey` deleting and recreating a key from the advanced dialog is `DeleteKey`
  followed by `CreateFileKey`. A deleted key goes on being provided until the
  application ends; neither code nor documentation says what should happen.
* Of user presence: the Qt tray messages used when there is no D-Bus, a `Notify`
  call that fails, `SOFT_FIDO2_SKIP_UP`. The model has two more behaviours that no
  property forbids: the prompt of a verified request stays on the screen if the
  order to withdraw it is handled before its id is stored, and a thread that waits
  in `notify_auth.put` is not woken by `queue.clear()`.
* Of sessions: two requests at a time, which overlapping USB/IP connections allow; what
  CBOR and COSE look like, extensions, signature counters, and the
  order of credentials in an allow list. The PIN retry counter is modelled (asking
  for it uses one up, and nothing stops at zero), but neither code nor documentation says
  what it is to prevent.
* Of wallets: two writers of one wallet at a time (see `Apart`), and the list of wallets.
* Of USB/IP: what the threads of several connections do to each other's URBs and
  transactions while they overlap (from `Share` to `Part`; only what it may leave is
  modelled); descriptors and control requests, answered from constants, the
  headers, and the keepalive threads, which are created and never started.
* FIDO2 objects, attestation, certificates, encryption, packets: sequential code
  without state, whose correctness is in formats and signatures. caBLE: a pure decoder
  that nothing calls while a device runs. Widgets and icons: what of them changes
  state is in the models. Windows backends: not in the repository.
* `platform/credential_mgmt.py` decrypts credential ids of earlier versions and keeps
  no state.

## 7. Plan

Modelled: all components with state or concurrency of their own. What remains, in
this order:

1. Theorems on which the liveness properties rest: in `CtapHid`, that `cids_lock` is held
   only by a thread that can go on or waits for room in `pending`; in `UserPresence`, that
   a request that gathers has a time limit ahead of it.
2. A composition of `PlatformKey`, `UserPresence` and `cids_lock`: the worker waiting on
   a full response queue, a gather waiting on a full `notify_sysapp` under
   `cids_lock`, and key callers waiting for that lock.
3. Pure algorithms against reference definitions over bounded inputs: the digit
   encoding of `decode_qr_data`, the domain decoding of `decode_tunnel_server_domain`.

The suite is kept to a dozen runs: a later module takes the place of a run that
has made its point.
