-------------------------- MODULE KeyStore_proofs --------------------------
(***************************************************************************)
(* Whatever fails between the steps of creating and deleting keys, the     *)
(* flag file tells of the key in the TPM, and what the application holds   *)
(* opens it, but after an operation that was cut short.                    *)
(***************************************************************************)
EXTENDS KeyStore, TLAPS

\* Without a key, an application and an operation there is nothing to disagree.
LEMMA InitKSInv == Init => KSInv
<1> SUFFICES ASSUME Init PROVE KSInv
  OBVIOUS
<1>1. TypeOK
  <2>1. tpm \in Key \cup {None} /\ file \in Key \cup {None, Torn} /\ cfg \in Types \cup {None, Torn}
    BY DEF Init
  <2>2. served \in Served \cup {None} /\ pref \in Types \cup {None} /\ op \in Operations \cup {None}
    BY DEF Init
  <2>3. dialog \in Types \cup {"down", "closed"} /\ chosen \in Types \cup {None}
    BY DEF Init
  <2>4. flag \in BOOLEAN /\ creatable \in BOOLEAN /\ broken \in BOOLEAN /\ lost \in BOOLEAN
    BY DEF Init
  <2>5. made \in 0..MaxKeys /\ harm \in 0..MaxHarm
    BY KeyStoreAssumption DEF Init
  <2> QED
    BY <2>1, <2>2, <2>3, <2>4, <2>5 DEF TypeOK
<1>2. FlagTells
  BY Zenon DEF Init, FlagTells
<1>3. ServedOpens /\ HalfWay /\ Numbered /\ Offered /\ Kept
  BY KeyStoreAssumption DEF Init, ServedOpens, HalfWay, Numbered, Offered, Kept, At
<1> QED
  BY <1>1, <1>2, <1>3 DEF KSInv

\* What is loaded without a password is a key without one.
LEMMA AutoLoadedFacts ==
  ASSUME KSInv, NEW p \in Types \cup {None}
  PROVE  /\ AutoLoaded(p) \in Served \cup {None}
         /\ AutoLoaded(p) # None => /\ AutoLoaded(p).n <= made
                                    /\ AutoLoaded(p).src = "tpm" =>
                                          tpm # None /\ ~flag /\ AutoLoaded(p).n = tpm.n
                                    /\ AutoLoaded(p).pwd = NoPassword
<1> USE KeyStoreAssumption, NothingAssumption DEF KSInv, TypeOK, Numbered, Served, Key, Secrets
<1>1. CASE p # "file" /\ TpmLoads
  <2>1. AutoLoaded(p) = [src |-> "tpm", n |-> tpm.n, pwd |-> NoPassword]
    BY <1>1 DEF AutoLoaded, Types
  <2> QED
    BY <1>1, <2>1 DEF TpmLoads, Types
<1>2. CASE ~(p # "file" /\ TpmLoads) /\ p # "tpm" /\ ~(p = None /\ TpmLoads) /\ FileLoads
  <2>1. AutoLoaded(p) = [src |-> "file", n |-> file.n, pwd |-> NoPassword]
    BY <1>2 DEF AutoLoaded, FromFile, Types
  <2>2. file \in Key
    BY <1>2 DEF FileLoads
  <2> QED
    BY <1>2, <2>1, <2>2 DEF Types
<1>3. CASE ~(p # "file" /\ TpmLoads) /\ ~(p # "tpm" /\ ~(p = None /\ TpmLoads) /\ FileLoads)
  <2>1. AutoLoaded(p) = None
    BY <1>3 DEF AutoLoaded, Types
  <2> QED
    BY <2>1
<1> QED
  BY <1>1, <1>2, <1>3

\* An operation of the settings dialog that starts is one.
LEMMA StartsFacts ==
  ASSUME NEW t \in Types, NEW p \in Secrets, NEW b \in BOOLEAN,
         NEW l \in {"write", "flag", "unflag", "save", "dump"}, Starts(t, p, b, l)
  PROVE  /\ op' \in Operations /\ op' # None
         /\ op'.type = t /\ op'.pwd = p /\ op'.fresh = b /\ op'.copy = "dialog" /\ op'.pc = l
<1>1. op' = [type |-> t, pwd |-> p, fresh |-> b, copy |-> "dialog", pc |-> l]
  BY DEF Starts
<1>2. op' \in Operations
  BY <1>1 DEF Operations
<1> QED
  BY <1>1, <1>2, NothingAssumption

----------------------------------------------------------------------------
\* Every variable keeps its type when the application starts and ends and when its dialogs open
\* and close ...
LEMMA AppTypes ==
  ASSUME KSInv, StartApp \/ StopApp \/ OpenDialog \/ CloseDialog
  PROVE  TypeOK'
<1> USE DEF KSInv, TypeOK, store, app, ghost
<1>1. Preference \in Types \cup {None}
  BY DEF Preference
<1>2. AutoLoaded(Preference) \in Served \cup {None} /\ AutoLoaded(pref) \in Served \cup {None}
  BY <1>1, AutoLoadedFacts
<1>3. CASE StartApp
  BY <1>1, <1>2, <1>3 DEF StartApp
<1>4. CASE StopApp
  <2>1. harm' \in 0..MaxHarm /\ made' \in 0..MaxKeys
    BY <1>4, KeyStoreAssumption DEF StopApp
  <2>2. broken' \in BOOLEAN /\ lost' \in BOOLEAN
    BY <1>4, Zenon DEF StopApp
  <2> QED
    BY <1>4, <2>1, <2>2 DEF StopApp
<1>5. CASE OpenDialog
  <2>1. dialog' \in Types /\ creatable' \in BOOLEAN
    BY <1>1, <1>5 DEF OpenDialog, Refreshed, Types
  <2> QED
    BY <1>5, <2>1 DEF OpenDialog
<1>6. CASE CloseDialog
  BY <1>2, <1>6 DEF CloseDialog
<1> QED
  BY <1>3, <1>4, <1>5, <1>6

\* ... in what the user starts in them ...
LEMMA DialogTypes ==
  ASSUME KSInv,
         NEW t \in Types, NEW p \in Secrets,
         \/ SelectType(t) \/ CreateTpmKey(p) \/ CreateFileKey(p) \/ Unlock(p)
         \/ DeleteTpmKey \/ DeleteFileKey \/ ChangeSetting
  PROVE  TypeOK'
<1> USE KeyStoreAssumption DEF KSInv, TypeOK, store, app, ghost, Secrets
<1>1. CASE SelectType(t)
  BY <1>1, StartsFacts DEF SelectType
<1>2. CASE CreateTpmKey(p)
  <2>1. op' \in Operations
    BY <1>2, StartsFacts DEF CreateTpmKey, Types
  <2>2. tpm' \in Key \cup {None} /\ made' \in 0..MaxKeys
    BY <1>2 DEF CreateTpmKey, Key
  <2> QED
    BY <1>2, <2>1, <2>2 DEF CreateTpmKey
<1>3. CASE CreateFileKey(p)
  <2>1. op' \in Operations
    BY <1>3, StartsFacts DEF CreateFileKey, Types
  <2> QED
    BY <1>3, <2>1 DEF CreateFileKey
<1>4. CASE Unlock(p)
  <2>1. creatable' \in BOOLEAN
    BY <1>4 DEF Unlock, Refreshed
  <2>2. served' \in Served \cup {None}
    <3>1. CASE dialog = "tpm"
      BY <1>4, <3>1 DEF Unlock, Served, Key, Types
    <3>2. CASE dialog = "file"
      BY <1>4, <3>2 DEF Unlock, Served, Key, Types, FromFile
    <3> QED
      BY <1>4, <3>1, <3>2 DEF Unlock, Open, Types
  <2> QED
    BY <1>4, <2>1, <2>2 DEF Unlock
<1>5. CASE DeleteTpmKey
  <2>1. op' \in Operations
    BY <1>5, StartsFacts DEF DeleteTpmKey, Types
  <2> QED
    BY <1>5, <2>1 DEF DeleteTpmKey
<1>6. CASE DeleteFileKey
  BY <1>6 DEF DeleteFileKey, Refreshed
<1>7. CASE ChangeSetting
  BY <1>7 DEF ChangeSetting, Operations
<1> QED
  BY <1>1, <1>2, <1>3, <1>4, <1>5, <1>6, <1>7

\* ... and in the steps of an operation.
LEMMA OperationTypes ==
  ASSUME KSInv,
         \/ SaveFlag \/ WriteFile \/ OpenConfig \/ WriteConfig \/ ConfigFails \/ StoreFails
         \/ RemoveFlag
  PROVE  TypeOK'
<1> USE KeyStoreAssumption DEF KSInv, TypeOK, store, app, ghost, At
<1>1. CASE SaveFlag
  BY <1>1 DEF SaveFlag, Goes, Operations
<1>2. CASE WriteFile
  <2>1. op \in Operations /\ op.pwd \in Secrets /\ made \in 1..MaxKeys
    BY <1>2 DEF WriteFile, HalfWay, Operations
  <2>2. file' \in Key
    BY <1>2, <2>1 DEF WriteFile, Key
  <2>3. op' \in Operations
    BY <1>2, <2>1 DEF WriteFile, Goes, Operations
  <2> QED
    BY <1>2, <2>2, <2>3 DEF WriteFile
<1>3. CASE OpenConfig
  BY <1>3 DEF OpenConfig, Goes, Operations
<1>4. CASE WriteConfig
  BY <1>4 DEF WriteConfig, Saved, Refreshed, Operations
<1>5. CASE ConfigFails
  <2>1. harm' \in 0..MaxHarm
    BY <1>5 DEF ConfigFails
  <2>2. chosen' \in Types \cup {None}
    BY <1>5 DEF ConfigFails, Saved, Operations
  <2>3. lost' \in BOOLEAN /\ creatable' \in BOOLEAN
    BY <1>5 DEF ConfigFails, Saved, Refreshed
  <2> QED
    BY <1>5, <2>1, <2>2, <2>3 DEF ConfigFails, Saved
<1>6. CASE StoreFails
  BY <1>6 DEF StoreFails
<1>7. CASE RemoveFlag
  BY <1>7 DEF RemoveFlag
<1> QED
  BY <1>1, <1>2, <1>3, <1>4, <1>5, <1>6, <1>7

----------------------------------------------------------------------------
\* All of the invariant but the types.
Rest == FlagTells /\ ServedOpens /\ HalfWay /\ Numbered /\ Offered /\ Kept

\* What is none of the keys, operations and files.
LEMMA NoneFacts ==
  None \notin Operations /\ None \notin Served /\ None \notin Key /\ Torn \notin Key
  BY KeyStoreAssumption, NothingAssumption

\* An application that starts loads what opens without a password; one that ends in the middle
\* of an operation leaves what broken and lost say.
LEMMA AppKeeps ==
  ASSUME KSInv, StartApp \/ StopApp \/ OpenDialog \/ CloseDialog
  PROVE  Rest'
<1> USE NoneFacts DEF KSInv, Rest, TypeOK, FlagTells, ServedOpens, HalfWay, Numbered, Offered, Kept,
                      Idle, At, app, ghost, store
<1>1. CASE StartApp
  <2> DEFINE s == AutoLoaded(Preference)
  <2>1. Preference \in Types \cup {None}
    BY DEF Preference
  <2>2. /\ s \in Served \cup {None}
        /\ s # None => /\ s.n <= made /\ s.pwd = NoPassword
                       /\ s.src = "tpm" => tpm # None /\ ~flag /\ s.n = tpm.n
    BY <2>1, AutoLoadedFacts
  <2>3. served' = s
    BY <1>1 DEF StartApp
  <2> HIDE DEF s
  <2> QED
    BY <1>1, <2>2, <2>3 DEF StartApp, Types
<1>2. CASE StopApp
  <2>1. FlagTells'
    BY <1>2 DEF StopApp, Operations
  <2>2. ServedOpens' /\ HalfWay' /\ Numbered' /\ Offered'
    BY <1>2 DEF StopApp
  <2>3. Kept'
    <3>1. op' = None /\ cfg' = cfg /\ chosen' = chosen
      BY <1>2 DEF StopApp
    <3>2. CASE Idle
      BY <1>2, <3>1, <3>2 DEF StopApp
    <3>3. CASE ~Idle
      <4>1. ~lost' => ~lost /\ ~(op.pc = "dump")
        BY Zenon, <1>2, <3>3 DEF StopApp
      <4> QED
        BY <4>1, <3>1, <3>3
    <3> QED
      BY <3>2, <3>3
  <2> QED
    BY <2>1, <2>2, <2>3
<1>3. CASE OpenDialog
  BY <1>3 DEF OpenDialog, Refreshed, Types
<1>4. CASE CloseDialog
  <2> DEFINE s == AutoLoaded(pref)
  <2>1. /\ s \in Served \cup {None}
        /\ s # None => /\ s.n <= made /\ s.pwd = NoPassword
                       /\ s.src = "tpm" => tpm # None /\ ~flag /\ s.n = tpm.n
    BY AutoLoadedFacts
  <2>2. served' = served \/ served' = s
    BY <1>4 DEF CloseDialog
  <2> HIDE DEF s
  <2> QED
    BY <1>4, <2>1, <2>2 DEF CloseDialog, Open
<1> QED
  BY <1>1, <1>2, <1>3, <1>4

\* Creating a key in the TPM: a new one has a number of its own; the one that is there is
\* returned only when an operation was cut short before.
LEMMA CreateTpmKeyKeeps ==
  ASSUME KSInv, NEW p \in Secrets, CreateTpmKey(p)
  PROVE  Rest'
<1> USE NoneFacts DEF KSInv, Rest, TypeOK, FlagTells, ServedOpens, HalfWay, Numbered, Offered, Kept,
                      Idle, At, app, ghost, CreateTpmKey, Open
<1>1. /\ op' # None /\ op'.copy = "dialog" /\ op'.pc = "flag" /\ op'.pwd = p
      /\ op'.fresh = (tpm = None)
  BY StartsFacts DEF Types
<1>2. FlagTells' /\ Kept'
  BY <1>1
<1>3. ServedOpens' /\ Numbered'
  BY DEF Served, Key
<1>4. HalfWay'
  <2>1. CASE tpm = None
    <3>1. tpm' = [n |-> made', pwd |-> p] /\ made' = made + 1 /\ made' \in 1..MaxKeys
      BY <2>1, KeyStoreAssumption
    <3>2. tpm' \in Key
      BY <3>1 DEF Key
    <3>3. served # None => served.n < made'
      BY <3>1 DEF Served
    <3> QED
      BY <1>1, <3>1, <3>2, <3>3 DEF Types
  <2>2. CASE tpm # None
    BY <1>1, <2>2 DEF Types
  <2> QED
    BY <2>1, <2>2
<1>5. Offered'
  <2>1. tpm # None => broken
    OBVIOUS
  <2> QED
    BY <1>1, <2>1
<1> QED
  BY <1>2, <1>3, <1>4, <1>5

\* What else the user starts touches neither the TPM's key nor its flag, but for its deletion,
\* which goes on with the flag.
LEMMA DialogKeeps ==
  ASSUME KSInv,
         NEW t \in Types, NEW p \in Secrets,
         \/ SelectType(t) \/ CreateFileKey(p) \/ Unlock(p)
         \/ DeleteTpmKey \/ DeleteFileKey \/ ChangeSetting
  PROVE  Rest'
<1> USE NoneFacts DEF KSInv, Rest, TypeOK, FlagTells, ServedOpens, HalfWay, Numbered, Offered, Kept,
                      Idle, At, app, ghost, store, Open
<1>1. CASE SelectType(t)
  <2>1. op' # None /\ op'.copy = "dialog" /\ op'.pc = "save"
    BY <1>1, StartsFacts DEF SelectType, Secrets
  <2> QED
    BY <1>1, <2>1 DEF SelectType
<1>2. CASE CreateFileKey(p)
  <2>1. op' # None /\ op'.copy = "dialog" /\ op'.pc = "write"
    BY <1>2, StartsFacts DEF CreateFileKey, Types
  <2> QED
    BY <1>2, <2>1, KeyStoreAssumption DEF CreateFileKey, Types, Served, Key
<1>3. CASE Unlock(p)
  <2>1. CASE dialog = "tpm"
    BY <1>3, <2>1 DEF Unlock, Refreshed, Served, Key
  <2>2. CASE dialog = "file"
    BY <1>3, <2>2 DEF Unlock, Refreshed, FromFile, Served, Key
  <2> QED
    BY <1>3, <2>1, <2>2 DEF Unlock, Types
<1>4. CASE DeleteTpmKey
  <2>1. op' # None /\ op'.copy = "dialog" /\ op'.pc = "unflag"
    BY <1>4, StartsFacts DEF DeleteTpmKey, Types, Secrets
  <2> QED
    BY <1>4, <2>1 DEF DeleteTpmKey
<1>5. CASE DeleteFileKey
  BY <1>5 DEF DeleteFileKey, Refreshed
<1>6. CASE ChangeSetting
  BY <1>6 DEF ChangeSetting
<1> QED
  BY <1>1, <1>2, <1>3, <1>4, <1>5, <1>6

\* The steps of an operation, and their failures.
LEMMA OperationKeeps ==
  ASSUME KSInv,
         \/ SaveFlag \/ WriteFile \/ OpenConfig \/ WriteConfig \/ ConfigFails \/ StoreFails
         \/ RemoveFlag
  PROVE  Rest'
<1> USE NoneFacts DEF KSInv, Rest, TypeOK, FlagTells, ServedOpens, HalfWay, Numbered, Offered, Kept,
                      Idle, At, Goes, app, ghost, store
<1>1. CASE SaveFlag
  <2>1. op \in Operations /\ op.pc = "flag" /\ op' = [op EXCEPT !.pc = "save"]
    BY <1>1 DEF SaveFlag
  <2>2. op' \in Operations /\ op'.pc = "save" /\ op'.copy = op.copy
    BY <2>1 DEF Operations
  <2>3. FlagTells'
    BY <1>1, <2>1 DEF SaveFlag, Operations
  <2>4. ServedOpens' /\ Numbered'
    BY <1>1, <2>1 DEF SaveFlag
  <2>5. HalfWay' /\ Offered' /\ Kept'
    BY <1>1, <2>1, <2>2 DEF SaveFlag
  <2> QED
    BY <2>3, <2>4, <2>5
<1>2. CASE WriteFile
  BY <1>2 DEF WriteFile, Operations
<1>3. CASE OpenConfig
  BY <1>3 DEF OpenConfig, Operations
<1>4. CASE WriteConfig
  BY <1>4 DEF WriteConfig, Saved, Refreshed, Operations
<1>5. CASE ConfigFails
  BY <1>5 DEF ConfigFails, Saved, Refreshed, Operations
<1>6. CASE StoreFails
  BY <1>6 DEF StoreFails, Operations
<1>7. CASE RemoveFlag
  BY <1>7 DEF RemoveFlag, Operations
<1> QED
  BY <1>1, <1>2, <1>3, <1>4, <1>5, <1>6, <1>7

\* Every step keeps the invariant.
LEMMA NextKSInv == KSInv /\ [Next]_vars => KSInv'
<1> SUFFICES ASSUME KSInv, [Next]_vars
             PROVE  TypeOK' /\ Rest'
  BY DEF KSInv, Rest
<1>1. NoPassword \in Secrets /\ "tpm" \in Types
  BY DEF Secrets, Types
<1>2. CASE StartApp \/ StopApp \/ OpenDialog \/ CloseDialog
  BY <1>2, AppTypes, AppKeeps
<1>3. ASSUME NEW t \in Types, SelectType(t)
      PROVE  TypeOK' /\ Rest'
  BY <1>1, <1>3, DialogTypes, DialogKeeps
<1>4. ASSUME NEW p \in Secrets, CreateTpmKey(p) \/ CreateFileKey(p)
      PROVE  TypeOK' /\ Rest'
  BY <1>1, <1>4, DialogTypes, DialogKeeps, CreateTpmKeyKeeps
<1>5. ASSUME NEW p \in Passwords, Unlock(p)
      PROVE  TypeOK' /\ Rest'
  <2>1. p \in Secrets
    BY DEF Secrets
  <2> QED
    BY <1>1, <1>5, <2>1, DialogTypes, DialogKeeps
<1>6. CASE DeleteTpmKey \/ DeleteFileKey \/ ChangeSetting
  BY <1>1, <1>6, DialogTypes, DialogKeeps
<1>7. CASE \/ SaveFlag \/ WriteFile \/ OpenConfig \/ WriteConfig \/ ConfigFails \/ StoreFails
           \/ RemoveFlag
  BY <1>7, OperationTypes, OperationKeeps
<1>8. CASE UNCHANGED vars
  BY <1>8 DEF vars, store, app, ghost, KSInv, TypeOK, Rest, FlagTells, ServedOpens, HalfWay, Numbered,
              Offered, Kept, Idle, At
<1> QED
  BY <1>2, <1>3, <1>4, <1>5, <1>6, <1>7, <1>8 DEF Next

\* The inductive invariant holds in every reachable state, for any passwords, any number of keys
\* and of failures: among others the flag file tells of the key in the TPM.
THEOREM Invariance == Spec => []KSInv
  BY InitKSInv, NextKSInv, PTL DEF Spec

\* An application that is unlocked by the key in the TPM has the password that opens it.
THEOREM ServedTheorem == Spec => []ServedOpens
<1>1. KSInv => ServedOpens
  BY DEF KSInv
<1> QED
  BY <1>1, Invariance, PTL

\* The only step of a process that is down is its start.
LEMMA OnlyStarts ==
  ASSUME KSInv, [Next]_vars, dialog = "down", dialog' # "down"
  PROVE  StartApp /\ Idle
<1> USE DEF KSInv, HalfWay, Types, Idle, At
<1>1. Idle
  OBVIOUS
<1> QED
  BY <1>1 DEF Next, vars, StopApp, OpenDialog, CloseDialog, SelectType, CreateTpmKey, CreateFileKey, Unlock,
              SaveFlag, WriteFile, OpenConfig, WriteConfig, ConfigFails, StoreFails, DeleteTpmKey,
              RemoveFlag, DeleteFileKey, ChangeSetting, Open

\* The key type that was chosen last is the one that the application goes by at its next start.
THEOREM ChosenTheorem == Spec => ChosenLoads
<1>1. ASSUME KSInv, [Next]_vars, dialog = "down", dialog' # "down", ~lost
      PROVE  /\ pref' = chosen
             /\ chosen = "file" /\ FileLoads => served' = FromFile
             /\ chosen = "tpm" /\ tpm # None /\ ~broken /\ tpm.pwd = NoPassword =>
                   served' # None /\ served'.src = "tpm"
             /\ chosen = "tpm" /\ served' # None => served'.src = "tpm"
  <2>1. StartApp /\ Idle
    BY <1>1, OnlyStarts
  <2>2. cfg = chosen /\ chosen # Torn
    BY <1>1, <2>1, KeyStoreAssumption DEF KSInv, Kept, At, Idle, TypeOK
  <2>3. pref' = chosen /\ served' = AutoLoaded(chosen)
    BY <2>1, <2>2 DEF StartApp, Preference
  <2>4. CASE chosen = "file"
    BY <2>3, <2>4, KeyStoreAssumption DEF AutoLoaded, Types
  <2>5. CASE chosen = "tpm"
    <3>1. TpmLoads => served' = [src |-> "tpm", n |-> tpm.n, pwd |-> NoPassword]
      BY <2>3, <2>5 DEF AutoLoaded
    <3>2. ~TpmLoads => served' = None
      BY <2>3, <2>5 DEF AutoLoaded
    <3>3. tpm # None /\ ~broken /\ tpm.pwd = NoPassword => TpmLoads
      BY <1>1, <2>1 DEF KSInv, FlagTells, TpmLoads
    <3>4. TpmLoads => [src |-> "tpm", n |-> tpm.n, pwd |-> NoPassword] \in Served
      BY <1>1 DEF TpmLoads, KSInv, TypeOK, Served, Types, Secrets, Key
    <3> QED
      BY <2>3, <2>5, <3>1, <3>2, <3>3, <3>4, NoneFacts
  <2>6. CASE chosen = None
    BY <2>3, <2>6, KeyStoreAssumption DEF Types
  <2> QED
    BY <1>1, <2>4, <2>5, <2>6 DEF KSInv, TypeOK, Types
<1>2. KSInv /\ [Next]_vars =>
        [(dialog = "down" /\ dialog' # "down" /\ ~lost) =>
          /\ pref' = chosen
          /\ (chosen = "file" /\ FileLoads) => served' = FromFile
          /\ (chosen = "tpm" /\ tpm # None /\ ~broken /\ tpm.pwd = NoPassword) =>
                served' # None /\ served'.src = "tpm"
          /\ (chosen = "tpm" /\ served' # None) => served'.src = "tpm"]_vars
  BY <1>1
<1> QED
  BY <1>2, Invariance, PTL DEF ChosenLoads, Spec
=============================================================================
