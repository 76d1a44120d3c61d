----------------------------- MODULE Lifecycle -----------------------------
(***************************************************************************)
(* Starting and stopping: main() and DeviceManager of __main__.py, the     *)
(* device thread of platform/uhid_device.py, and what the application does *)
(* to them: leaving on a signal or from its menu (qt/app.py), restarting   *)
(* the device from the advanced dialog (qt/ux/advanced_dialog.py), and     *)
(* opening the settings for another process (qt/svc/ipc_client.py).        *)
(*                                                                         *)
(* A device is told to stop by a QUIT in the queue notify_udev, which any  *)
(* device that runs takes.  start_device, stop_device and is_running hold  *)
(* the manager's lock, stop_device also while it waits for the thread.     *)
(***************************************************************************)
EXTENDS Naturals, FiniteSets

CONSTANTS
    Restarters,  \* restart workers, which run in the global thread pool
    QueueMax,    \* the size of notify_udev
    MaxDevices,  \* bound: device threads created
    MaxFaults,   \* bound: devices that can not be opened or fail while they run
    None

ASSUME LifecycleAssumption ==
    /\ IsFiniteSet(Restarters)
    /\ QueueMax \in Nat \ {0} /\ MaxDevices \in Nat \ {0} /\ MaxFaults \in Nat
    /\ None \notin Restarters \cup {0} /\ "main" \notin Restarters \cup {None}

Devices == 1..MaxDevices
Actors == Restarters \cup {"main"}

VARIABLES
    mode,       \* "tray", "headless", or "usbip"
    signalled,  \* SIGINT or SIGTERM has come
    dialog,     \* the settings, and with them the advanced dialog, are open
    asked,      \* the restart that the dialog's button waits for
    device,     \* DeviceManager.device, 0 for none
    lock,       \* who holds DeviceManager._lock
    made,       \* device threads created
    state,      \* per device: "new", "opening", "running" or "dead"
    quits,      \* QUITs in notify_udev
    faults,     \* devices that failed
    pc,         \* per actor: what it does next
    success     \* history: the restarts that the dialog called successful with this step

vars == <<mode, signalled, dialog, asked, device, lock, made, state, quits, faults, pc, success>>

Init ==
    /\ mode \in {"tray", "headless", "usbip"}
    /\ signalled = FALSE /\ dialog = FALSE /\ asked = None
    /\ device = 0 /\ lock = None
    /\ made = 0 /\ state = [d \in Devices |-> "new"]
    /\ quits = 0 /\ faults = 0
    /\ pc = [a \in Actors |-> IF a # "main" THEN "idle" ELSE IF mode = "usbip" THEN "loop" ELSE "start"]
    /\ success = {}

Alive(d) == d # 0 /\ state[d] \in {"opening", "running"}

Interface == <<mode, signalled, dialog, asked>>
Thread == <<made, state, quits, faults>>

Goes(a, l) == pc' = [pc EXCEPT ![a] = l] /\ success' = {}

----------------------------------------------------------------------------
(* The device thread *)

\* run: os.open fails, and run returns; or the device is created.
OpenDevice(d) ==
    /\ state[d] = "opening"
    /\ \/ state' = [state EXCEPT ![d] = "running"] /\ UNCHANGED faults
       \/ state' = [state EXCEPT ![d] = "dead"] /\ faults < MaxFaults /\ faults' = faults + 1
    /\ success' = {}
    /\ UNCHANGED <<Interface, device, lock, made, quits, pc>>

\* The loop finds a QUIT and ends.
TakeQuit(d) ==
    /\ state[d] = "running" /\ quits > 0
    /\ quits' = quits - 1 /\ state' = [state EXCEPT ![d] = "dead"]
    /\ success' = {}
    /\ UNCHANGED <<Interface, device, lock, made, faults, pc>>

\* Reading, writing or a short write raises, and the thread ends.
FailDevice(d) ==
    /\ state[d] = "running" /\ faults < MaxFaults
    /\ faults' = faults + 1 /\ state' = [state EXCEPT ![d] = "dead"]
    /\ success' = {}
    /\ UNCHANGED <<Interface, device, lock, made, quits, pc>>

----------------------------------------------------------------------------
(* DeviceManager.  What comes after start_device and stop_device depends   *)
(* on the caller.                                                          *)

AfterStart(a) == IF a # "main" THEN "report" ELSE "loop"
AfterStop(a) == IF a # "main" THEN "start" ELSE "done"

\* Mutant: a device that is alive is waited for.
StartDeviceMutant(a) ==
    /\ pc[a] = "start" /\ lock = None /\ ~Alive(device)
    /\ made' = made + 1 /\ device' = made + 1
    /\ state' = [state EXCEPT ![made + 1] = "opening"]
    /\ Goes(a, AfterStart(a))
    /\ UNCHANGED <<Interface, lock, quits, faults>>

\* start_device: a device that is alive is left alone and FALSE returned.
StartDevice(a) ==
    /\ pc[a] = "start" /\ lock = None
    /\ IF Alive(device)
       THEN UNCHANGED <<device, made, state>>
       ELSE /\ made' = made + 1 /\ device' = made + 1
            /\ state' = [state EXCEPT ![made + 1] = "opening"]
    /\ Goes(a, AfterStart(a))
    /\ UNCHANGED <<Interface, lock, quits, faults>>

\* Mutant: a QUIT is sent without a look at the device.
StopDeviceMutant(a) ==
    /\ pc[a] = "stop" /\ lock = None
    /\ lock' = a /\ Goes(a, "put")
    /\ UNCHANGED <<Interface, device, Thread>>

\* stop_device: nothing to do for no device or a dead one.
StopDevice(a) ==
    /\ pc[a] = "stop" /\ lock = None
    /\ IF Alive(device)
       THEN lock' = a /\ Goes(a, "put") /\ UNCHANGED device
       ELSE device' = 0 /\ Goes(a, AfterStop(a)) /\ UNCHANGED lock
    /\ UNCHANGED <<Interface, Thread>>

\* Mutant: the lock is let go before the thread is waited for.
PutQuitMutant(a) ==
    /\ pc[a] = "put" /\ quits < QueueMax /\ quits' = quits + 1
    /\ lock' = None /\ Goes(a, "join")
    /\ UNCHANGED <<Interface, device, made, state, faults>>

PutQuit(a) ==
    /\ pc[a] = "put" /\ quits < QueueMax /\ quits' = quits + 1
    /\ Goes(a, "join")
    /\ UNCHANGED <<Interface, device, lock, made, state, faults>>

\* Mutant: join waits no longer than the timeout.
JoinMutant(a) ==
    /\ pc[a] = "join"
    /\ device' = 0 /\ lock' = None
    /\ Goes(a, AfterStop(a))
    /\ UNCHANGED <<Interface, Thread>>

\* CTAPHIDevice.join drops the timeout: it returns when the thread has ended.
Join(a) ==
    /\ pc[a] = "join" /\ ~Alive(device)
    /\ device' = 0 /\ lock' = None
    /\ Goes(a, AfterStop(a))
    /\ UNCHANGED <<Interface, Thread>>

----------------------------------------------------------------------------
(* main() and the application *)

InLoop == pc["main"] = "loop"

\* SIGINT or SIGTERM: the handler of SysTrayApp sets a flag; without it SIGTERM kills the
\* process and SIGINT interrupts signal.pause; the USB/IP server exits at once.
Signal ==
    /\ ~signalled /\ InLoop /\ signalled' = TRUE
    /\ CASE mode = "tray" -> Goes("main", "loop")
         [] mode = "headless" -> Goes("main", "killed") \/ Goes("main", "stop")
         [] mode = "usbip" -> Goes("main", "killed")
    /\ UNCHANGED <<mode, dialog, asked, device, lock, Thread>>

\* Mutant: the flag is looked at, and nothing follows.
CheckSignalMutant ==
    /\ InLoop /\ mode = "tray" /\ signalled
    /\ Goes("main", "loop")
    /\ UNCHANGED <<Interface, device, lock, Thread>>

\* _check_signal finds the flag within 100 ms, and _exit is called.
CheckSignal ==
    /\ InLoop /\ mode = "tray" /\ signalled
    /\ Goes("main", "exit")
    /\ UNCHANGED <<Interface, device, lock, Thread>>

\* The Exit entry of the menu, or a close event when the window is hidden.
ChooseExit ==
    /\ InLoop /\ mode = "tray" /\ ~dialog
    /\ Goes("main", "exit")
    /\ UNCHANGED <<Interface, device, lock, Thread>>

\* _exit puts a QUIT of its own; exec returns, and main's finally clause stops the device.
Exit ==
    /\ pc["main"] = "exit" /\ quits < QueueMax /\ quits' = quits + 1
    /\ Goes("main", "stop")
    /\ dialog' = FALSE /\ asked' = None
    /\ UNCHANGED <<mode, signalled, device, lock, made, state, faults>>

\* The settings open from the menu, or for another process through the IPC socket; one at a
\* time.
OpenSettings ==
    /\ InLoop /\ mode = "tray" /\ ~dialog
    /\ dialog' = TRUE /\ success' = {}
    /\ UNCHANGED <<mode, signalled, asked, device, lock, Thread, pc>>

\* The dialog may be closed while its restart is under way; a new one has a button of its own.
CloseSettings ==
    /\ InLoop /\ dialog
    /\ dialog' = FALSE /\ asked' = None /\ success' = {}
    /\ UNCHANGED <<mode, signalled, device, lock, Thread, pc>>

\* _update_device_status: the main thread waits for the lock in is_running.
AskStatus ==
    /\ InLoop /\ dialog
    /\ Goes("main", "status")
    /\ UNCHANGED <<Interface, device, lock, Thread>>

Status ==
    /\ pc["main"] = "status" /\ lock = None
    /\ Goes("main", "loop")
    /\ UNCHANGED <<Interface, device, lock, Thread>>

\* The workers that are in restart_device.
Restarting == {b \in Restarters : pc[b] \in {"stop", "put", "join", "start"}}

\* _handle_restart_device: the button is disabled and a worker does restart_device.
Restart(r) ==
    /\ InLoop /\ dialog /\ asked = None
    /\ pc[r] = "idle"
    /\ made + Cardinality(Restarting) < MaxDevices
    /\ asked' = r /\ Goes(r, "stop")
    /\ UNCHANGED <<mode, signalled, dialog, device, lock, Thread>>

\* restart_worker returns success whatever restart_device returned, and the dialog says so.
Report(r) ==
    /\ pc[r] = "report" /\ InLoop
    /\ pc' = [pc EXCEPT ![r] = "idle", !["main"] = IF asked = r THEN "status" ELSE @]
    /\ success' = {r}
    /\ asked' = IF asked = r THEN None ELSE asked
    /\ UNCHANGED <<mode, signalled, dialog, device, lock, Thread>>

\* Until the process is killed.
DeviceStep(d) == pc["main"] # "killed" /\ (OpenDevice(d) \/ TakeQuit(d))
ManagerStep(a) ==
    pc["main"] # "killed" /\ (StartDevice(a) \/ StopDevice(a) \/ PutQuit(a) \/ Join(a))
MainStep == CheckSignal \/ Exit \/ Status

Next ==
    \/ \E d \in Devices : DeviceStep(d) \/ FailDevice(d)
    \/ \E a \in Actors : ManagerStep(a)
    \/ \E r \in Restarters : Restart(r) \/ Report(r)
    \/ MainStep \/ Signal \/ ChooseExit \/ OpenSettings \/ CloseSettings \/ AskStatus

Spec == Init /\ [][Next]_vars

\* Threads run, and a thread that waits for the lock gets it in the end although others come
\* and go; the timer of the event loop fires.
FairSpec ==
    /\ Spec
    /\ \A d \in Devices : WF_vars(DeviceStep(d))
    /\ \A a \in Actors : SF_vars(ManagerStep(a))
    /\ SF_vars(CheckSignal) /\ WF_vars(Exit) /\ SF_vars(Status)

----------------------------------------------------------------------------
(* Properties *)

\* The types of the variables; the lock is held exactly while someone stops a device.
TypeOK ==
    /\ mode \in {"tray", "headless", "usbip"} /\ signalled \in BOOLEAN /\ dialog \in BOOLEAN
    /\ asked \in Restarters \cup {None}
    /\ device \in 0..made /\ made \in 0..MaxDevices /\ lock \in Actors \cup {None}
    /\ state \in [Devices -> {"new", "opening", "running", "dead"}]
    /\ \A d \in Devices : state[d] = "new" <=> d > made
    /\ quits \in 0..QueueMax /\ faults \in 0..MaxFaults /\ success \subseteq Restarters
    /\ pc \in [Actors -> {"idle", "start", "stop", "put", "join", "report",
                         "loop", "status", "exit", "done", "killed"}]
    /\ pc["main"] \notin {"idle", "report"}
    /\ \A r \in Restarters : pc[r] \notin {"loop", "status", "exit", "done", "killed"}
    /\ \A a \in Actors : (pc[a] \in {"put", "join"} <=> lock = a)

\* The manager knows every device that runs: there is at most one, and stop_device stops it.
KnownDevice == \A d \in Devices : Alive(d) => device = d

\* While the application is not leaving and no device has failed, a QUIT is on its way only to
\* the device that someone waits for: none is left for the device that is started next.
NoStrayQuit ==
    (faults = 0 /\ pc["main"] \in {"start", "loop", "status"}) =>
        quits <= Cardinality({a \in Actors : pc[a] = "join" /\ Alive(device)})

\* The bound on devices leaves one for every restart under way, and for main's own start, before
\* which nothing restarts.
RoomForDevices ==
    /\ made + Cardinality(Restarting) <= MaxDevices
    /\ pc["main"] = "start" => made = 0 /\ \A r \in Restarters : pc[r] = "idle"

\* While nothing has failed and the program is not leaving: who is about to put a QUIT has seen
\* the device alive, nobody else has put one, and the QUIT that was put is for the device alive.
Staying == faults = 0 /\ pc["main"] \in {"start", "loop", "status"}
OneQuit ==
    Staying =>
        /\ \A a \in Actors : pc[a] = "put" => Alive(device)
        /\ quits # 0 => quits = 1 /\ Alive(device) /\ \E a \in Actors : pc[a] = "join"

\* A restart that is to be reported has left a device that runs, or another restart goes on.
Restarted ==
    Staying /\ (\E r \in Restarters : pc[r] = "report") =>
        Alive(device) \/ \E b \in Restarters : pc[b] \in {"put", "join", "start"}

\* The inductive invariant.
LifecycleInv == TypeOK /\ KnownDevice /\ RoomForDevices /\ OneQuit /\ Restarted

\* A signal ends the program, whatever restarts are under way.
SignalEnds == signalled ~> pc["main"] \in {"done", "killed"}

\* A restart that was begun comes to its report, whatever another restart or the shutdown does
\* meanwhile.
RestartEnds ==
    \A r \in Restarters : pc[r] = "stop" ~> pc[r] = "report"

\* "Device restarted successfully": when the dialog says so a device runs, unless one has
\* failed, which restart_worker does not look at, or another restart is under way.
SuccessMeansRunning ==
    [][\A r \in success' :
          Alive(device) \/ faults > 0 \/ \E b \in Restarters : pc[b] \in {"put", "join", "start"}]_vars

=============================================================================
