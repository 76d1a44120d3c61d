-------------------------- MODULE Lifecycle_proofs --------------------------
(***************************************************************************)
(* However many restarts overlap, the manager knows the device that runs,  *)
(* and no QUIT is left for the next one while nothing has failed.          *)
(***************************************************************************)
EXTENDS Lifecycle, FiniteSetTheorems, TLAPS

\* Where the actors may be.
LEMMA ActorFacts ==
  /\ "main" \in Actors /\ "main" \notin Restarters /\ Restarters \subseteq Actors
  /\ None \notin Actors
  /\ \A a \in Actors : a # "main" => a \in Restarters
  BY LifecycleAssumption DEF Actors

\* The numbers in the state are numbers.
LEMMA DeviceFacts ==
  ASSUME LifecycleInv
  PROVE  /\ MaxDevices \in Nat \ {0} /\ MaxFaults \in Nat /\ QueueMax \in Nat \ {0}
         /\ made \in Nat /\ device \in Nat /\ quits \in Nat /\ faults \in Nat
         /\ \A d \in Devices : d \in Nat \ {0}
  BY LifecycleAssumption DEF LifecycleInv, TypeOK, Devices

\* No device, no restart.
LEMMA InitLifecycleInv == Init => LifecycleInv
<1> SUFFICES ASSUME Init PROVE LifecycleInv
  OBVIOUS
<1> USE LifecycleAssumption, ActorFacts
<1>1. TypeOK
  <2>1. \A d \in Devices : d > 0
    BY DEF Devices
  <2>2. made \in 0..MaxDevices /\ device \in 0..made /\ quits \in 0..QueueMax /\ faults \in 0..MaxFaults
    BY DEF Init
  <2>3. \A a \in Actors : pc[a] \notin {"put", "join"} /\ lock = None
    BY DEF Init
  <2>4. /\ mode \in {"tray", "headless", "usbip"} /\ signalled \in BOOLEAN /\ dialog \in BOOLEAN
        /\ asked \in Restarters \cup {None} /\ lock \in Actors \cup {None} /\ success \subseteq Restarters
        /\ state \in [Devices -> {"new", "opening", "running", "dead"}]
        /\ \A d \in Devices : state[d] = "new" <=> d > made
    BY <2>1 DEF Init
  <2>5. /\ pc \in [Actors -> {"idle", "start", "stop", "put", "join", "report",
                              "loop", "status", "exit", "done", "killed"}]
        /\ pc["main"] \notin {"idle", "report"}
        /\ \A r \in Restarters : pc[r] \notin {"loop", "status", "exit", "done", "killed"}
    BY DEF Init
  <2> QED
    BY <2>2, <2>3, <2>4, <2>5 DEF TypeOK
<1>2. KnownDevice /\ OneQuit /\ Restarted
  BY DEF Init, KnownDevice, Alive, OneQuit, Restarted
<1>3. RoomForDevices
  <2>1. Restarting = {}
    BY DEF Init, Restarting
  <2>2. Cardinality(Restarting) = 0
    BY <2>1, FS_EmptySet
  <2> QED
    BY <2>2 DEF Init, RoomForDevices
<1> QED
  BY <1>1, <1>2, <1>3 DEF LifecycleInv
----------------------------------------------------------------------------

\* The restarts that are under way can be counted.
LEMMA RestartingFacts ==
  ASSUME LifecycleInv
  PROVE  /\ IsFiniteSet(Restarting) /\ Cardinality(Restarting) \in Nat
         /\ made + Cardinality(Restarting) <= MaxDevices
<1>1. Restarting \in SUBSET Restarters
  BY DEF Restarting
<1> QED
  BY <1>1, LifecycleAssumption, FS_Subset, FS_CardinalityType DEF LifecycleInv, RoomForDevices

\* There is a device for whoever is about to start one.
LEMMA RoomToStart ==
  ASSUME LifecycleInv, NEW a \in Actors, pc[a] = "start"
  PROVE  made + 1 \in Devices
<1> USE DeviceFacts
<1>1. CASE a = "main"
  BY <1>1 DEF LifecycleInv, RoomForDevices, Devices
<1>2. CASE a # "main"
  <2>1. a \in Restarting
    BY <1>2, ActorFacts DEF Restarting
  <2>2. Cardinality(Restarting) # 0
    BY <2>1, RestartingFacts, FS_EmptySet
  <2> QED
    BY <2>2, RestartingFacts DEF Devices
<1> QED
  BY <1>1, <1>2

\* What a device thread does keeps the types ...
LEMMA DeviceTypes ==
  ASSUME LifecycleInv, NEW d \in Devices, OpenDevice(d) \/ TakeQuit(d) \/ FailDevice(d)
  PROVE  TypeOK'
<1> USE LifecycleAssumption, ActorFacts, DeviceFacts
    DEF LifecycleInv, TypeOK, Goes, Interface, Thread, Alive, AfterStart, AfterStop, InLoop, Actors
<1>1. CASE OpenDevice(d)
  <2>1. CASE state' = [state EXCEPT ![d] = "running"] /\ UNCHANGED faults
    BY <1>1, <2>1 DEF OpenDevice
  <2>2. CASE state' = [state EXCEPT ![d] = "dead"] /\ faults < MaxFaults /\ faults' = faults + 1
    BY <1>1, <2>2 DEF OpenDevice
  <2> QED
    BY <1>1, <2>1, <2>2 DEF OpenDevice
<1>2. CASE TakeQuit(d)
  BY <1>2 DEF TakeQuit
<1>3. CASE FailDevice(d)
  BY <1>3 DEF FailDevice
<1> QED
  BY <1>1, <1>2, <1>3

\* ... and a device that ends on a QUIT is the one that somebody waits for.
LEMMA DeviceKeeps ==
  ASSUME LifecycleInv, NEW d \in Devices, OpenDevice(d) \/ TakeQuit(d) \/ FailDevice(d)
  PROVE  KnownDevice' /\ OneQuit' /\ Restarted'
<1> USE LifecycleAssumption, ActorFacts, DeviceFacts
    DEF LifecycleInv, TypeOK, Goes, Interface, Thread, Alive, AfterStart, AfterStop, InLoop, Actors,
        KnownDevice, OneQuit, Restarted, Staying
<1>1. CASE OpenDevice(d)
  <2>1. KnownDevice'
    <3>1. \A e \in Devices : state'[e] \in {"opening", "running"} => state[e] \in {"opening", "running"}
      BY <1>1 DEF OpenDevice
    <3> QED
      BY <1>1, <3>1 DEF OpenDevice
  <2>2. CASE state' = [state EXCEPT ![d] = "running"] /\ UNCHANGED faults
    <3>1. Alive(device)' = Alive(device)
      BY <1>1, <2>2 DEF OpenDevice
    <3> QED
      BY <1>1, <2>1, <2>2, <3>1 DEF OpenDevice
  <2>3. CASE state' = [state EXCEPT ![d] = "dead"] /\ faults < MaxFaults /\ faults' = faults + 1
    BY <1>1, <2>1, <2>3 DEF OpenDevice
  <2> QED
    BY <1>1, <2>2, <2>3 DEF OpenDevice
<1>2. CASE TakeQuit(d)
  BY <1>2 DEF TakeQuit
<1>3. CASE FailDevice(d)
  BY <1>3 DEF FailDevice
<1> QED
  BY <1>1, <1>2, <1>3

\* The manager keeps the types ...
LEMMA ManagerTypes ==
  ASSUME LifecycleInv, NEW a \in Actors, StartDevice(a) \/ StopDevice(a) \/ PutQuit(a) \/ Join(a)
  PROVE  TypeOK'
<1> USE LifecycleAssumption, ActorFacts, DeviceFacts
    DEF LifecycleInv, TypeOK, Goes, Interface, Thread, Alive, AfterStart, AfterStop, InLoop, Actors
<1>1. CASE StartDevice(a)
  <2>1. CASE Alive(device)
    BY <1>1, <2>1 DEF StartDevice
  <2>2. CASE ~Alive(device)
    <3>1. made + 1 \in Devices
      BY <1>1, RoomToStart DEF StartDevice
    <3>2. /\ made' = made + 1 /\ device' = made + 1 /\ state' = [state EXCEPT ![made + 1] = "opening"]
          /\ UNCHANGED <<mode, signalled, dialog, asked, lock, quits, faults>>
          /\ pc' = [pc EXCEPT ![a] = AfterStart(a)] /\ success' = {} /\ pc[a] = "start" /\ lock = None
      BY <1>1, <2>2 DEF StartDevice
    <3>3. /\ state' \in [Devices -> {"new", "opening", "running", "dead"}]
          /\ \A e \in Devices : state'[e] = "new" <=> e > made'
      <4>1. \A e \in Devices : e = made + 1 \/ (e > made <=> e > made + 1)
        OBVIOUS
      <4>2. ~(made + 1 > made + 1)
        OBVIOUS
      <4> QED
        BY <3>1, <3>2, <4>1, <4>2
    <3>4. made' \in 0..MaxDevices /\ device' \in 0..made'
      BY <3>1, <3>2 DEF Devices
    <3> QED
      BY <3>2, <3>3, <3>4
  <2> QED
    BY <2>1, <2>2
<1>2. CASE StopDevice(a)
  BY <1>2 DEF StopDevice
<1>3. CASE PutQuit(a)
  BY <1>3 DEF PutQuit
<1>4. CASE Join(a)
  BY <1>4 DEF Join
<1> QED
  BY <1>1, <1>2, <1>3, <1>4

\* ... and under its lock a QUIT goes to a device that is alive, and to no other.
LEMMA ManagerKeeps ==
  ASSUME LifecycleInv, NEW a \in Actors, StartDevice(a) \/ StopDevice(a) \/ PutQuit(a) \/ Join(a)
  PROVE  KnownDevice' /\ OneQuit' /\ Restarted'
<1> USE LifecycleAssumption, ActorFacts, DeviceFacts
    DEF LifecycleInv, TypeOK, Goes, Interface, Thread, Alive, AfterStart, AfterStop, InLoop, Actors,
        KnownDevice, OneQuit, Restarted, Staying
<1>1. CASE StartDevice(a)
  <2>1. CASE Alive(device)
    BY <1>1, <2>1 DEF StartDevice
  <2>2. CASE ~Alive(device)
    <3>1. made + 1 \in Devices
      BY <1>1, RoomToStart DEF StartDevice
    <3>2. /\ made' = made + 1 /\ device' = made + 1 /\ state' = [state EXCEPT ![made + 1] = "opening"]
          /\ UNCHANGED <<mode, signalled, dialog, asked, lock, quits, faults>>
          /\ pc' = [pc EXCEPT ![a] = AfterStart(a)] /\ pc[a] = "start" /\ lock = None
      BY <1>1, <2>2 DEF StartDevice
    <3>3. Alive(device)'
      BY <3>1, <3>2
    <3>4. \A e \in Devices : ~Alive(e)
      BY <2>2
    <3>5. KnownDevice'
      BY <3>1, <3>2, <3>4
    <3> QED
      BY <3>2, <3>3, <3>5
  <2> QED
    BY <2>1, <2>2
<1>2. CASE StopDevice(a)
  BY <1>2 DEF StopDevice
<1>3. CASE PutQuit(a)
  BY <1>3 DEF PutQuit
<1>4. CASE Join(a)
  BY <1>4 DEF Join
<1> QED
  BY <1>1, <1>2, <1>3, <1>4

\* The main thread keeps the types ...
LEMMA MainTypes ==
  ASSUME LifecycleInv, Signal \/ CheckSignal \/ ChooseExit \/ Exit \/ OpenSettings
          \/ CloseSettings \/ AskStatus \/ Status
  PROVE  TypeOK'
<1> USE LifecycleAssumption, ActorFacts, DeviceFacts
    DEF LifecycleInv, TypeOK, Goes, Interface, Thread, Alive, AfterStart, AfterStop, InLoop, Actors
<1>1. CASE Signal
  <2>1. pc' = [pc EXCEPT !["main"] = "loop"] \/ pc' = [pc EXCEPT !["main"] = "killed"]
        \/ pc' = [pc EXCEPT !["main"] = "stop"]
    BY <1>1 DEF Signal
  <2>2. success' = {}
    BY <1>1 DEF Signal
  <2> QED
    BY <1>1, <2>1, <2>2 DEF Signal
<1>2. CASE CheckSignal
  BY <1>2 DEF CheckSignal
<1>3. CASE ChooseExit
  BY <1>3 DEF ChooseExit
<1>4. CASE Exit
  <2>1. quits' \in 0..QueueMax
    BY <1>4 DEF Exit
  <2> QED
    BY <1>4, <2>1 DEF Exit
<1>5. CASE OpenSettings
  BY <1>5 DEF OpenSettings
<1>6. CASE CloseSettings
  BY <1>6 DEF CloseSettings
<1>7. CASE AskStatus
  BY <1>7 DEF AskStatus
<1>8. CASE Status
  BY <1>8 DEF Status
<1> QED
  BY <1>1, <1>2, <1>3, <1>4, <1>5, <1>6, <1>7, <1>8

\* ... and when it puts a QUIT of its own it is leaving.
LEMMA MainKeeps ==
  ASSUME LifecycleInv, Signal \/ CheckSignal \/ ChooseExit \/ Exit \/ OpenSettings
          \/ CloseSettings \/ AskStatus \/ Status
  PROVE  KnownDevice' /\ OneQuit' /\ Restarted'
<1> USE LifecycleAssumption, ActorFacts, DeviceFacts
    DEF LifecycleInv, TypeOK, Goes, Interface, Thread, Alive, AfterStart, AfterStop, InLoop, Actors,
        KnownDevice, OneQuit, Restarted, Staying
<1>1. CASE Signal
  <2>1. pc' = [pc EXCEPT !["main"] = "loop"] \/ pc' = [pc EXCEPT !["main"] = "killed"]
        \/ pc' = [pc EXCEPT !["main"] = "stop"]
    BY <1>1 DEF Signal
  <2> QED
    BY <1>1, <2>1 DEF Signal
<1>2. CASE CheckSignal
  BY <1>2 DEF CheckSignal
<1>3. CASE ChooseExit
  BY <1>3 DEF ChooseExit
<1>4. CASE Exit
  BY <1>4 DEF Exit
<1>5. CASE OpenSettings
  BY <1>5 DEF OpenSettings
<1>6. CASE CloseSettings
  BY <1>6 DEF CloseSettings
<1>7. CASE AskStatus
  BY <1>7 DEF AskStatus
<1>8. CASE Status
  BY <1>8 DEF Status
<1> QED
  BY <1>1, <1>2, <1>3, <1>4, <1>5, <1>6, <1>7, <1>8

\* The restarts keep the types ...
LEMMA RestartTypes ==
  ASSUME LifecycleInv, NEW r \in Restarters, Restart(r) \/ Report(r)
  PROVE  TypeOK'
<1> USE LifecycleAssumption, ActorFacts, DeviceFacts
    DEF LifecycleInv, TypeOK, Goes, Interface, Thread, Alive, AfterStart, AfterStop, InLoop, Actors
<1>1. CASE Restart(r)
  BY <1>1 DEF Restart
<1>2. CASE Report(r)
  BY <1>2 DEF Report
<1> QED
  BY <1>1, <1>2

\* ... and when one is reported a device runs, or another goes on.
LEMMA RestartKeeps ==
  ASSUME LifecycleInv, NEW r \in Restarters, Restart(r) \/ Report(r)
  PROVE  KnownDevice' /\ OneQuit' /\ Restarted'
<1> USE LifecycleAssumption, ActorFacts, DeviceFacts
    DEF LifecycleInv, TypeOK, Goes, Interface, Thread, Alive, AfterStart, AfterStop, InLoop, Actors,
        KnownDevice, OneQuit, Restarted, Staying
<1>1. CASE Restart(r)
  BY <1>1 DEF Restart
<1>2. CASE Report(r)
  BY <1>2 DEF Report
<1> QED
  BY <1>1, <1>2

\* The bound on devices: fewer restarts under way, or one less for a device more.
LEMMA RoomKeeps ==
  ASSUME LifecycleInv, Next
  PROVE  RoomForDevices'
<1> USE DeviceFacts, ActorFacts, RestartingFacts DEF LifecycleInv, Goes, Interface, Thread, InLoop
<1>1. CASE made' = made /\ Restarting' \subseteq Restarting /\ (pc'["main"] = "start" => pc' = pc)
  <2>1. Restarting' \in SUBSET Restarting
    BY <1>1
  <2>2. IsFiniteSet(Restarting') /\ Cardinality(Restarting') <= Cardinality(Restarting)
    BY <2>1, FS_Subset
  <2>3. Cardinality(Restarting') \in Nat
    BY <2>2, FS_CardinalityType
  <2> QED
    BY <1>1, <2>2, <2>3 DEF RoomForDevices
<1>2. ASSUME NEW d \in Devices, DeviceStep(d) \/ FailDevice(d)
      PROVE  made' = made /\ pc' = pc
  BY <1>2 DEF DeviceStep, FailDevice, OpenDevice, TakeQuit
<1>3. ASSUME NEW a \in Actors, StartDevice(a)
      PROVE  RoomForDevices'
  <2>1. pc[a] = "start" /\ pc' = [pc EXCEPT ![a] = AfterStart(a)] /\ pc'["main"] # "start"
    BY <1>3 DEF StartDevice, AfterStart, TypeOK, RoomForDevices
  <2>2. made' = made \/ made' = made + 1
    BY <1>3 DEF StartDevice
  <2>3. CASE a = "main"
    <3>1. made = 0 /\ \A r \in Restarters : pc'[r] = "idle"
      BY <2>1, <2>3 DEF RoomForDevices, TypeOK
    <3>2. Restarting' = {}
      BY <3>1 DEF Restarting
    <3> QED
      BY <2>1, <2>2, <3>1, <3>2, FS_EmptySet DEF RoomForDevices
  <2>4. CASE a # "main"
    <3>1. a \in Restarting /\ Restarting' = Restarting \ {a}
      BY <2>1, <2>4 DEF Restarting, TypeOK, AfterStart
    <3>2. Cardinality(Restarting') = Cardinality(Restarting) - 1
      BY <3>1, FS_RemoveElement
    <3> QED
      BY <2>1, <2>2, <3>2 DEF RoomForDevices
  <2> QED
    BY <2>3, <2>4
<1>4. ASSUME NEW a \in Actors, StopDevice(a) \/ PutQuit(a) \/ Join(a)
      PROVE  made' = made /\ Restarting' \subseteq Restarting /\ pc'["main"] # "start"
  BY <1>4 DEF StopDevice, PutQuit, Join, AfterStop, Restarting, TypeOK, RoomForDevices
<1>5. ASSUME NEW r \in Restarters, Restart(r)
      PROVE  RoomForDevices'
  <2>1. /\ pc' = [pc EXCEPT ![r] = "stop"] /\ made' = made /\ pc["main"] = "loop"
        /\ made + Cardinality(Restarting) < MaxDevices
    BY <1>5 DEF Restart
  <2>2. Restarting' = Restarting \cup {r} /\ r \notin Restarting
    BY <1>5, <2>1 DEF Restart, Restarting, TypeOK
  <2>3. Cardinality(Restarting') = Cardinality(Restarting) + 1
    BY <2>2, FS_AddElement
  <2>4. pc'["main"] = "loop"
    BY <2>1 DEF TypeOK
  <2> QED
    BY <2>1, <2>3, <2>4 DEF RoomForDevices
<1>6. ASSUME NEW r \in Restarters, Report(r)
      PROVE  made' = made /\ Restarting' \subseteq Restarting /\ pc'["main"] # "start"
  BY <1>6 DEF Report, Restarting, TypeOK
<1>7. CASE MainStep \/ Signal \/ ChooseExit \/ OpenSettings \/ CloseSettings \/ AskStatus
  <2>1. made' = made
    BY <1>7
        DEF MainStep, CheckSignal, Exit, Status, Signal, ChooseExit, OpenSettings, CloseSettings,
            AskStatus
  <2>2. pc' = pc \/ \E l \in {"loop", "exit", "stop", "status", "killed"} : pc' = [pc EXCEPT !["main"] = l]
    <3>1. CASE Signal
      BY <3>1 DEF Signal, TypeOK
    <3>2. CASE MainStep \/ ChooseExit \/ OpenSettings \/ CloseSettings \/ AskStatus
      BY <3>2
          DEF MainStep, CheckSignal, Exit, Status, ChooseExit, OpenSettings, CloseSettings, AskStatus
    <3> QED
      BY <1>7, <3>1, <3>2
  <2>3. (pc'["main"] = "start" => pc' = pc) /\ \A r \in Restarters : pc'[r] = pc[r]
    BY <2>2 DEF TypeOK
  <2> QED
    BY <1>1, <2>1, <2>3 DEF Restarting
<1> QED
  BY <1>1, <1>2, <1>3, <1>4, <1>5, <1>6, <1>7 DEF Next, ManagerStep, Restarting

\* Every step keeps the invariant.
LEMMA NextLifecycleInv == LifecycleInv /\ [Next]_vars => LifecycleInv'
<1> SUFFICES ASSUME LifecycleInv, [Next]_vars
             PROVE  LifecycleInv'
  OBVIOUS
<1>1. ASSUME NEW d \in Devices, OpenDevice(d) \/ TakeQuit(d) \/ FailDevice(d)
      PROVE  TypeOK' /\ KnownDevice' /\ OneQuit' /\ Restarted'
  BY <1>1, DeviceTypes, DeviceKeeps
<1>2. ASSUME NEW a \in Actors, StartDevice(a) \/ StopDevice(a) \/ PutQuit(a) \/ Join(a)
      PROVE  TypeOK' /\ KnownDevice' /\ OneQuit' /\ Restarted'
  BY <1>2, ManagerTypes, ManagerKeeps
<1>3. ASSUME Signal \/ CheckSignal \/ ChooseExit \/ Exit \/ OpenSettings \/ CloseSettings
             \/ AskStatus \/ Status
      PROVE  TypeOK' /\ KnownDevice' /\ OneQuit' /\ Restarted'
  BY <1>3, MainTypes, MainKeeps
<1>4. ASSUME NEW r \in Restarters, Restart(r) \/ Report(r)
      PROVE  TypeOK' /\ KnownDevice' /\ OneQuit' /\ Restarted'
  BY <1>4, RestartTypes, RestartKeeps
<1>5. CASE UNCHANGED vars
  BY <1>5
      DEF vars, LifecycleInv, TypeOK, KnownDevice, Alive, RoomForDevices, Restarting, OneQuit,
          Staying,
              Restarted
<1>6. CASE Next
  <2>1. TypeOK' /\ KnownDevice' /\ OneQuit' /\ Restarted'
    BY <1>1, <1>2, <1>3, <1>4, <1>6 DEF Next, DeviceStep, ManagerStep, MainStep
  <2> QED
    BY <1>6, <2>1, RoomKeeps DEF LifecycleInv
<1> QED
  BY <1>5, <1>6

----------------------------------------------------------------------------
\* For any number of restarts, devices and failures the inductive invariant holds.
THEOREM Invariance == Spec => []LifecycleInv
  BY InitLifecycleInv, NextLifecycleInv, PTL DEF Spec

\* At most one device runs, and it is the one that stop_device stops.
THEOREM KnownTheorem == Spec => []KnownDevice
<1>1. LifecycleInv => KnownDevice
  BY DEF LifecycleInv
<1> QED
  BY <1>1, Invariance, PTL

\* While nothing has failed and the program is not leaving, no QUIT is left for a device that is
\* started later.
THEOREM StrayTheorem == Spec => []NoStrayQuit
<1>1. ASSUME LifecycleInv, faults = 0, pc["main"] \in {"start", "loop", "status"}
      PROVE  quits <= Cardinality({a \in Actors : pc[a] = "join" /\ Alive(device)})
  <2> DEFINE J == {a \in Actors : pc[a] = "join" /\ Alive(device)}
  <2>1. IsFiniteSet(Actors)
    BY LifecycleAssumption, FS_AddElement DEF Actors
  <2>2. J \in SUBSET Actors
    OBVIOUS
  <2>3. IsFiniteSet(J) /\ Cardinality(J) \in Nat
    BY <2>1, <2>2, FS_Subset, FS_CardinalityType
  <2>4. quits # 0 => quits = 1 /\ J # {}
    BY <1>1 DEF LifecycleInv, OneQuit, Staying
  <2>5. J # {} => Cardinality(J) # 0
    BY <2>3, FS_EmptySet
  <2> QED
    BY <1>1, <2>3, <2>4, <2>5, DeviceFacts
<1>2. LifecycleInv => NoStrayQuit
  BY <1>1 DEF NoStrayQuit
<1> QED
  BY <1>2, Invariance, PTL

\* When the dialog calls a restart successful a device runs, unless one has failed or another
\* restart goes on.
THEOREM SuccessTheorem == Spec => SuccessMeansRunning
<1>1. ASSUME LifecycleInv, Next, NEW r \in success'
      PROVE  Alive(device) \/ faults > 0 \/ \E b \in Restarters : pc[b] \in {"put", "join", "start"}
  <2>1. r \in Restarters /\ Report(r)
    <3>1. ASSUME NEW d \in Devices, DeviceStep(d) \/ FailDevice(d)
          PROVE  success' = {}
      BY <3>1 DEF DeviceStep, OpenDevice, TakeQuit, FailDevice
    <3>2. ASSUME NEW a \in Actors, ManagerStep(a)
          PROVE  success' = {}
      BY <3>2 DEF ManagerStep, StartDevice, StopDevice, PutQuit, Join, Goes
    <3>3. ASSUME MainStep \/ ChooseExit \/ OpenSettings \/ CloseSettings \/ AskStatus
          PROVE  success' = {}
      BY <3>3
          DEF MainStep, CheckSignal, Exit, Status, ChooseExit, OpenSettings, CloseSettings,
              AskStatus, Goes
    <3>4. ASSUME Signal
          PROVE  success' = {}
      BY <1>1, <3>4 DEF Signal, Goes, LifecycleInv, TypeOK
    <3>5. ASSUME NEW q \in Restarters, Restart(q)
          PROVE  success' = {}
      BY <3>5 DEF Restart, Goes
    <3>6. PICK q \in Restarters : Report(q)
      BY <1>1, <3>1, <3>2, <3>3, <3>4, <3>5 DEF Next
    <3> QED
      BY <1>1, <3>6 DEF Report
  <2>2. pc[r] = "report" /\ pc["main"] = "loop"
    BY <2>1 DEF Report, InLoop
  <2> QED
    BY <1>1, <2>1, <2>2, DeviceFacts DEF LifecycleInv, Restarted, Staying
<1>2. LifecycleInv /\ [Next]_vars =>
        [\A r \in success' :
          Alive(device) \/ faults > 0 \/ \E b \in Restarters : pc[b] \in {"put", "join", "start"}]_vars
  BY <1>1
<1> QED
  BY <1>2, Invariance, PTL DEF SuccessMeansRunning, Spec
=============================================================================
