------------------------- MODULE PlatformKey_proofs -------------------------
(***************************************************************************)
(* PlatformKey implements KeyProvider: whatever is in the shared response  *)
(* queue, a call returns a key that was provided during that call.         *)
(***************************************************************************)
EXTENDS PlatformKey, SequenceTheorems, TLAPS

\* What a queue holds after a put and after a get.
LEMMA PutFacts ==
  ASSUME NEW S, NEW q \in Seq(S), NEW e \in S
  PROVE  /\ Append(q, e) \in Seq(S) /\ Len(Append(q, e)) = Len(q) + 1 /\ Len(q) \in Nat
         /\ \A i \in 1..Len(q) : Append(q, e)[i] = q[i]
         /\ Append(q, e)[Len(q) + 1] = e
  BY AppendProperties

\* ... and how what is left lies in it.
LEMMA GetFacts ==
  ASSUME NEW S, NEW q \in Seq(S), q # <<>>
  PROVE  /\ Tail(q) \in Seq(S) /\ Len(Tail(q)) = Len(q) - 1 /\ Len(q) \in Nat \ {0}
         /\ \A i \in 1..Len(Tail(q)) : Tail(q)[i] = q[i + 1]
         /\ Head(q) = q[1] /\ Head(q) \in S
  BY HeadTailProperties, EmptySeq

\* While the application is unlocked, or about to be, it has a key.
KeyInv == appState = "unlocked" \/ gui \in {"unlocking", "closing"} => key # None

\* A call has seen what is provided now, and has no answer yet.
WindowInv ==
    /\ \A c \in Calling : Provided \in window[c] /\ answer[c] = None
    /\ \A c \in Callers : c \notin Calling => window[c] = {}
    /\ \A c \in Callers : result[c] = "app" => answer[c] # None
    /\ \A c \in Calling : calls[c] > 0

\* No id is older than it looks: those of calls not yet made are nowhere.
Issued(id) == id[2] <= calls[id[1]]

\* A response to the call in progress carries a key of that call's window, or an error.
Answers(r) ==
    ~r.error /\ r.id[1] \in Calling /\ r.id[2] = calls[r.id[1]] =>
        r.key \in window[r.id[1]] /\ r.key # None

QueueInv ==
    /\ \A i \in 1..Len(requests) : Issued(requests[i])
    /\ \A i \in 1..Len(responses) :
          /\ Issued(responses[i].id) /\ Answers(responses[i])
          /\ ~responses[i].error => responses[i].key # None
    /\ worker # "loop" => rsp \in Responses /\ Issued(rsp.id)
    /\ worker = "read" => appState = "unlocked" /\ ~rsp.error
    /\ worker = "put" => Answers(rsp) /\ (~rsp.error => rsp.key # None)

PKInv == TypeOK /\ KeyInv /\ WindowInv /\ QueueInv

-----------------------------------------------------------------------------
\* Unlocking keeps the windows of the calls in progress up to date.
LEMMA RecordedFacts ==
  ASSUME TypeOK, WindowInv, Recorded, UNCHANGED callVars, Provided' \in Keys \cup {None}
  PROVE  /\ window' \in [Callers -> SUBSET (Keys \cup {None})]
         /\ Calling' = Calling
         /\ \A c \in Callers : window[c] \subseteq window'[c]
         /\ WindowInv'
  BY DEF TypeOK, WindowInv, Recorded, callVars, Calling

\* The types are kept.
LEMMA TypeStep == ASSUME PKInv, Next PROVE TypeOK'
<1> USE PlatformKeyAssumption DEF PKInv, diskVars, appVars, callVars, queueVars, workerVars
<1> DEFINE Pcs == {"idle", "put", "look", "get", "sleep", "failed"}
<1>1. CASE OpenDialog \/ DeleteKey \/ (\E t \in {"tpm", "file"} : SelectType(t))
  BY <1>1 DEF TypeOK, OpenDialog, DeleteKey, SelectType
<1>2. CASE (\E k \in FileKeys : CreateFileKey(k)) \/ (\E k \in TpmKeys : CreateTpmKey(k))
  BY <1>2 DEF TypeOK, CreateFileKey, CreateTpmKey
<1>3. ASSUME NEW k \in Keys, Unlock(k) PROVE TypeOK'
  <2>1. Provided' \in Keys \cup {None} /\ key' \in Keys
    BY <1>3 DEF Unlock, Provided
  <2>2. QED
    BY <1>3, <2>1, RecordedFacts DEF TypeOK, Unlock
<1>4. CASE CloseDialog
  <2>1. key' \in Keys \cup {None}
    BY <1>4 DEF TypeOK, CloseDialog
  <2>2. Provided' \in Keys \cup {None}
    BY <2>1 DEF Provided
  <2>3. QED
    BY <1>4, <2>1, <2>2, RecordedFacts DEF TypeOK, CloseDialog
<1>5. CASE SetUnlocked
  <2>1. Provided' \in Keys \cup {None}
    BY <1>5 DEF TypeOK, SetUnlocked, Provided
  <2>2. QED
    BY <1>5, <2>1, RecordedFacts DEF TypeOK, SetUnlocked
<1>6. ASSUME NEW c \in Callers, Begin(c) PROVE TypeOK'
  <2>1. Provided \in Keys \cup {None}
    BY DEF TypeOK, Provided
  <2>2. QED
    BY <1>6, <2>1 DEF TypeOK, Begin, Goto
<1>7. ASSUME NEW c \in Callers, PutRequest(c) PROVE TypeOK'
  <2>1. <<c, calls[c]>> \in Ids
    BY <1>7 DEF TypeOK, WindowInv, Calling, PutRequest, Ids
  <2>2. requests' \in Seq(Ids)
    BY <1>7, <2>1, PutFacts DEF TypeOK, PutRequest
  <2>3. QED
    BY <1>7, <2>2 DEF TypeOK, PutRequest, Goto
<1>8. ASSUME NEW c \in Callers, Look(c) \/ Wake(c) \/ ReadFile(c) PROVE TypeOK'
  <2>1. CASE Look(c)
    BY <2>1 DEF TypeOK, Look, Goto
  <2>2. CASE Wake(c)
    BY <2>2 DEF TypeOK, Wake, Goto
  <2>3. CASE ReadFile(c)
    BY <2>3 DEF TypeOK, ReadFile, Goto
  <2>4. QED
    BY <1>8, <2>1, <2>2, <2>3
<1>9. ASSUME NEW c \in Callers, GetResponse(c) PROVE TypeOK'
  <2>1. responses' \in Seq(Responses) /\ Head(responses) \in Responses
    BY <1>9, GetFacts DEF TypeOK, GetResponse
  <2>2. /\ Head(responses).key \in Keys \cup {None}
        /\ Head(responses).key # None => Head(responses).key \in Keys
    BY <2>1 DEF Responses
  <2>3. CASE \E k \in Keys \cup {None} : Return(c, k)
    BY <1>9, <2>1, <2>3 DEF TypeOK, GetResponse, Return, Goto
  <2>4. CASE Raise(c)
    BY <1>9, <2>1, <2>4 DEF TypeOK, GetResponse, Raise, Goto
  <2>5. CASE Goto(c, "sleep") /\ UNCHANGED <<answer, result, window>>
    BY <1>9, <2>1, <2>5 DEF TypeOK, GetResponse, Goto
  <2>6. QED
    BY <1>9, <2>2, <2>3, <2>4, <2>5 DEF GetResponse
<1>10. ASSUME NEW c \in Callers, TimeOut(c) PROVE TypeOK'
  BY <1>10 DEF TypeOK, TimeOut, Raise, Goto
<1>11. CASE WorkerTake
  <2>1. requests' \in Seq(Ids) /\ Head(requests) \in Ids
    BY <1>11, GetFacts DEF TypeOK, WorkerTake
  <2>2. rsp' \in Responses
    BY <1>11, <2>1 DEF WorkerTake, Responses
  <2>3. QED
    BY <1>11, <2>1, <2>2 DEF TypeOK, WorkerTake
<1>12. CASE WorkerCheck \/ WorkerRead
  <2>1. rsp \in Responses
    BY <1>12 DEF TypeOK, QueueInv, WorkerCheck, WorkerRead
  <2>2. rsp' \in Responses
    BY <1>12, <2>1 DEF TypeOK, WorkerCheck, WorkerRead, Responses
  <2>3. QED
    BY <1>12, <2>2 DEF TypeOK, WorkerCheck, WorkerRead
<1>13. CASE WorkerPut
  <2>1. rsp \in Responses
    BY <1>13 DEF TypeOK, QueueInv, WorkerPut
  <2>2. responses' \in Seq(Responses)
    BY <1>13, <2>1, PutFacts DEF TypeOK, WorkerPut
  <2>3. QED
    BY <1>13, <2>2 DEF TypeOK, WorkerPut
<1>14. QED
  BY <1>1, <1>2, <1>3, <1>4, <1>5, <1>6, <1>7, <1>8, <1>9, <1>10, <1>11, <1>12, <1>13
     DEF Next, GuiStep, CallStep, WorkerStep

\* An unlocked application has a key, and keeps it or takes another.
LEMMA KeyStep == ASSUME PKInv, Next PROVE KeyInv'
<1> USE PlatformKeyAssumption DEF PKInv, appVars
<1>1. ASSUME UNCHANGED <<appState, key, gui>> PROVE KeyInv'
  BY <1>1 DEF KeyInv
<1>2. CASE OpenDialog
  BY <1>2 DEF KeyInv, OpenDialog
<1>3. ASSUME NEW t \in {"tpm", "file"}, SelectType(t) PROVE KeyInv'
  BY <1>1, <1>3 DEF SelectType
<1>4. CASE DeleteKey
  BY <1>1, <1>4 DEF DeleteKey
<1>5. ASSUME NEW k \in Keys, CreateFileKey(k) \/ CreateTpmKey(k) PROVE KeyInv'
  BY <1>1, <1>5 DEF CreateFileKey, CreateTpmKey
<1>6. ASSUME NEW k \in Keys, Unlock(k) PROVE KeyInv'
  BY <1>6 DEF KeyInv, Unlock
<1>7. CASE CloseDialog
  <2>1. CASE UNCHANGED key /\ gui' = "closed"
    BY <1>7, <2>1 DEF KeyInv, CloseDialog
  <2>2. CASE key' \in Keys
    BY <2>2 DEF KeyInv
  <2>3. QED
    BY <1>7, <2>1, <2>2 DEF CloseDialog
<1>8. CASE SetUnlocked
  BY <1>8 DEF KeyInv, SetUnlocked
<1>9. ASSUME NEW c \in Callers, Begin(c) \/ CallStep(c) \/ TimeOut(c) PROVE KeyInv'
  BY <1>1, <1>9 DEF Begin, CallStep, PutRequest, Look, GetResponse, Wake, ReadFile, TimeOut
<1>10. CASE WorkerStep
  BY <1>1, <1>10 DEF WorkerStep, WorkerTake, WorkerCheck, WorkerRead, WorkerPut
<1>11. QED
  BY <1>2, <1>3, <1>4, <1>5, <1>6, <1>7, <1>8, <1>9, <1>10 DEF Next, GuiStep, Keys

\* What an unlocking step makes of the windows.
LEMMA UnlockSteps ==
  ASSUME PKInv, (\E k \in Keys : Unlock(k)) \/ CloseDialog \/ SetUnlocked
  PROVE  /\ Recorded /\ UNCHANGED callVars /\ UNCHANGED queueVars /\ UNCHANGED workerVars
         /\ Provided' \in Keys \cup {None}
         /\ appState = "unlocked" => appState' = "unlocked"
<1>1. TypeOK /\ TypeOK'
  BY TypeStep DEF PKInv, Next, GuiStep
<1>2. Provided' \in Keys \cup {None}
  BY <1>1 DEF TypeOK, Provided
<1>3. CASE \E k \in Keys : Unlock(k)
  BY <1>2, <1>3 DEF Unlock
<1>4. CASE CloseDialog
  BY <1>2, <1>4 DEF CloseDialog
<1>5. CASE SetUnlocked
  BY <1>2, <1>5 DEF SetUnlocked
<1>6. QED
  BY <1>3, <1>4, <1>5

\* A call sees whatever is provided while it lasts.
LEMMA WindowStep == ASSUME PKInv, Next PROVE WindowInv'
<1> USE DEF PKInv
<1>1. ASSUME UNCHANGED <<Provided, Calling, callVars, window>> PROVE WindowInv'
  BY <1>1 DEF WindowInv, callVars
<1>2. CASE OpenDialog \/ DeleteKey \/ (\E t \in {"tpm", "file"} : SelectType(t))
  BY <1>1, <1>2 DEF OpenDialog, DeleteKey, SelectType, appVars, callVars, Provided, Calling
<1>3. CASE (\E k \in FileKeys : CreateFileKey(k)) \/ (\E k \in TpmKeys : CreateTpmKey(k))
  BY <1>1, <1>3 DEF CreateFileKey, CreateTpmKey, appVars, callVars, Provided, Calling
<1>4. CASE (\E k \in Keys : Unlock(k)) \/ CloseDialog \/ SetUnlocked
  BY <1>4, UnlockSteps, RecordedFacts
<1>5. CASE WorkerStep
  BY <1>1, <1>5 DEF WorkerStep, WorkerTake, WorkerCheck, WorkerRead, WorkerPut,
     appVars, callVars, Provided, Calling
<1>6. ASSUME NEW c \in Callers, Begin(c) PROVE WindowInv'
  <2>1. Calling' = Calling \cup {c} /\ UNCHANGED Provided
    BY <1>6 DEF TypeOK, Begin, Goto, Calling, appVars, Provided
  <2>2. calls[c] \in Nat
    BY PlatformKeyAssumption DEF TypeOK
  <2>3. QED
    BY <1>6, <2>1, <2>2 DEF TypeOK, WindowInv, Begin
<1>7. ASSUME NEW c \in Callers, UNCHANGED <<Provided, calls, answer, result, window>>,
             Calling' = Calling
      PROVE  WindowInv'
  BY <1>7 DEF WindowInv
<1>8. ASSUME NEW c \in Callers, UNCHANGED <<Provided, calls>>, Calling' = Calling \ {c},
             window' = [window EXCEPT ![c] = {}],
             \/ result' = [result EXCEPT ![c] = "raised"] /\ UNCHANGED answer
             \/ /\ result' = [result EXCEPT ![c] = "app"]
                /\ \E k \in Keys : answer' = [answer EXCEPT ![c] = k]
      PROVE  WindowInv'
  <2>1. \A d \in Calling' : d # c /\ d \in Calling /\ window'[d] = window[d]
    BY <1>8 DEF TypeOK, Calling
  <2>2. \A d \in Callers : answer'[d] # answer[d] => d = c
    BY <1>8 DEF TypeOK
  <2>3. \A d \in Callers : d \notin Calling' => window'[d] = {}
    BY <1>8 DEF TypeOK, WindowInv
  <2>4. \A d \in Callers : result'[d] = "app" => answer'[d] # None
    BY <1>8, PlatformKeyAssumption DEF TypeOK, WindowInv
  <2>5. \A d \in Calling' : Provided' \in window'[d] /\ answer'[d] = None /\ calls'[d] > 0
    BY <1>8, <2>1, <2>2 DEF WindowInv, Calling
  <2>6. QED
    BY <2>3, <2>4, <2>5 DEF WindowInv
<1>9. ASSUME NEW c \in Callers, PutRequest(c) \/ Look(c) \/ Wake(c) PROVE WindowInv'
  BY <1>7, <1>9 DEF PutRequest, Look, Wake, Goto, TypeOK, Calling, appVars, Provided
<1>10. ASSUME NEW c \in Callers, GetResponse(c) PROVE WindowInv'
  <2>1. UNCHANGED <<Provided, calls>> /\ c \in Calling
    BY <1>10 DEF GetResponse, Calling, appVars, Provided
  <2>2. CASE Raise(c)
    BY <1>8, <2>1, <2>2 DEF Raise, Goto, TypeOK, Calling
  <2>3. CASE Goto(c, "sleep") /\ UNCHANGED <<answer, result, window>>
    BY <1>7, <1>10, <2>1, <2>3 DEF Goto, TypeOK, Calling
  <2>4. ASSUME ~Head(responses).error, Return(c, Head(responses).key) PROVE WindowInv'
    <3>1. /\ Head(responses) \in Responses /\ Head(responses) = responses[1]
          /\ 1 \in 1..Len(responses)
      BY <1>10, GetFacts DEF TypeOK, GetResponse
    <3>2. Head(responses).key \in Keys
      BY <2>4, <3>1 DEF Responses, QueueInv
    <3>3. Calling' = Calling \ {c}
      BY <2>1, <2>4 DEF Return, Goto, TypeOK, Calling
    <3>4. QED
      BY <1>8, <2>1, <2>4, <3>2, <3>3 DEF Return
  <2>5. QED
    BY <1>10, <2>2, <2>3, <2>4 DEF GetResponse
<1>11. ASSUME NEW c \in Callers, TimeOut(c) PROVE WindowInv'
  BY <1>8, <1>11 DEF TimeOut, Raise, Goto, TypeOK, Calling, appVars, Provided
<1>12. ASSUME NEW c \in Callers, ReadFile(c) PROVE WindowInv'
  <2>1. UNCHANGED <<Provided, Calling>>
    BY <1>12 DEF ReadFile, Goto, TypeOK, Calling, appVars, Provided
  <2>2. \A d \in Callers : result'[d] = "app" => result[d] = "app"
    BY <1>12 DEF ReadFile, TypeOK
  <2>3. QED
    BY <1>12, <2>1, <2>2 DEF ReadFile, WindowInv
<1>13. QED
  BY <1>2, <1>3, <1>4, <1>5, <1>6, <1>9, <1>10, <1>11, <1>12 DEF Next, GuiStep, CallStep

-----------------------------------------------------------------------------
\* Requests and responses stay what they are while calls do not start.
LEMMA SameCalls ==
  ASSUME UNCHANGED calls, Calling' \subseteq Calling,
         \A c \in Calling' : window[c] \subseteq window'[c]
  PROVE  /\ \A id \in Ids : Issued(id) => Issued(id)'
         /\ \A r \in Responses : Answers(r) => Answers(r)'
  BY DEF Issued, Answers

\* Steps that touch neither queue nor the worker.
LEMMA SameQueues ==
  ASSUME PKInv, UNCHANGED queueVars, UNCHANGED workerVars,
         \A id \in Ids : Issued(id) => Issued(id)',
         \A r \in Responses : Issued(r.id) /\ Answers(r) => Answers(r)',
         appState = "unlocked" => appState' = "unlocked"
  PROVE  QueueInv'
<1> USE DEF PKInv, queueVars, workerVars
<1>1. \A i \in 1..Len(requests) : requests[i] \in Ids
  BY DEF TypeOK
<1>2. \A i \in 1..Len(responses) : responses[i] \in Responses /\ responses[i].id \in Ids
  <2>1. \A r \in Responses : r.id \in Ids
    BY DEF Responses
  <2>2. QED
    BY <2>1 DEF TypeOK
<1>3. worker # "loop" => rsp \in Responses /\ rsp.id \in Ids
  BY DEF QueueInv, Responses
<1>4. QED
  BY <1>1, <1>2, <1>3 DEF QueueInv

\* What is on its way is for calls that were made, and right for those in progress.
LEMMA QueueStep == ASSUME PKInv, Next PROVE QueueInv'
<1> USE DEF PKInv
<1>1. CASE OpenDialog \/ DeleteKey \/ (\E t \in {"tpm", "file"} : SelectType(t))
  BY <1>1, SameCalls, SameQueues DEF OpenDialog, DeleteKey, SelectType, appVars, callVars, Calling
<1>2. CASE (\E k \in FileKeys : CreateFileKey(k)) \/ (\E k \in TpmKeys : CreateTpmKey(k))
  BY <1>2, SameCalls, SameQueues DEF CreateFileKey, CreateTpmKey, appVars, callVars, Calling
<1>3. CASE (\E k \in Keys : Unlock(k)) \/ CloseDialog \/ SetUnlocked
  <2>1. /\ Calling' = Calling /\ UNCHANGED calls
        /\ \A c \in Calling' : window[c] \subseteq window'[c]
    BY <1>3, UnlockSteps, RecordedFacts DEF callVars, Calling
  <2>2. QED
    BY <1>3, <2>1, UnlockSteps, SameCalls, SameQueues
<1>4. ASSUME NEW c \in Callers, Begin(c) PROVE QueueInv'
  <2>1. Calling' = Calling \cup {c}
    BY <1>4 DEF TypeOK, Begin, Goto, Calling
  <2>2. \A id \in Ids : Issued(id) => Issued(id)'
    BY <1>4, PlatformKeyAssumption DEF TypeOK, Begin, Issued, Ids
  <2>3. \A r \in Responses : Answers(r) /\ Issued(r.id) => Answers(r)'
    <3>1. SUFFICES ASSUME NEW r \in Responses, Answers(r), Issued(r.id), ~r.error,
                          r.id[1] \in Calling', r.id[2] = calls'[r.id[1]]
                   PROVE  r.key \in window'[r.id[1]] /\ r.key # None
      BY DEF Answers
    <3>2. r.id[1] # c
      BY <1>4, <3>1, PlatformKeyAssumption DEF TypeOK, Begin, Issued
    <3>3. r.id[1] \in Calling /\ calls'[r.id[1]] = calls[r.id[1]]
          /\ window'[r.id[1]] = window[r.id[1]]
      BY <1>4, <2>1, <3>1, <3>2 DEF TypeOK, Begin, Calling
    <3>4. QED
      BY <3>1, <3>3 DEF Answers
  <2>4. UNCHANGED <<queueVars, workerVars, appState>>
    BY <1>4 DEF Begin, appVars
  <2>5. QED
    BY <2>2, <2>3, <2>4, SameQueues
<1>5. ASSUME NEW c \in Callers,
             PutRequest(c) \/ Look(c) \/ GetResponse(c) \/ Wake(c) \/ ReadFile(c) \/ TimeOut(c)
      PROVE  /\ UNCHANGED calls /\ UNCHANGED appState /\ UNCHANGED workerVars
             /\ Calling' \subseteq Calling
             /\ \A d \in Calling' : window[d] \subseteq window'[d]
  <2>1. CASE PutRequest(c) \/ Look(c) \/ Wake(c) \/ ReadFile(c)
    BY <2>1 DEF PutRequest, Look, Wake, ReadFile, Goto, TypeOK, Calling, appVars
  <2>2. CASE TimeOut(c)
    BY <2>2 DEF TimeOut, Raise, Goto, TypeOK, Calling, appVars
  <2>3. CASE GetResponse(c)
    <3>1. CASE \E k : Return(c, k)
      BY <2>3, <3>1 DEF GetResponse, Return, Goto, TypeOK, Calling, appVars
    <3>2. CASE Raise(c)
      BY <2>3, <3>2 DEF GetResponse, Raise, Goto, TypeOK, Calling, appVars
    <3>3. CASE Goto(c, "sleep") /\ UNCHANGED window
      BY <2>3, <3>3 DEF GetResponse, Goto, TypeOK, Calling, appVars
    <3>4. QED
      BY <2>3, <3>1, <3>2, <3>3 DEF GetResponse
  <2>4. QED
    BY <1>5, <2>1, <2>2, <2>3
<1>6. ASSUME NEW c \in Callers, Look(c) \/ Wake(c) \/ ReadFile(c) \/ TimeOut(c) PROVE QueueInv'
  <2>1. UNCHANGED queueVars
    BY <1>6 DEF Look, Wake, ReadFile, TimeOut
  <2>2. QED
    BY <1>5, <1>6, <2>1, SameCalls, SameQueues
\* The rest of the queue invariant, given what the two queues hold afterwards.
<1>7. ASSUME UNCHANGED calls, UNCHANGED appState, UNCHANGED workerVars,
             \A id \in Ids : Issued(id) => Issued(id)',
             \A r \in Responses : Answers(r) => Answers(r)',
             \A i \in 1..Len(requests') : \E id \in Ids : requests'[i] = id /\ Issued(id)',
             \A i \in 1..Len(responses') :
                \E j \in 1..Len(responses) : responses'[i] = responses[j]
      PROVE  QueueInv'
  <2>1. \A i \in 1..Len(responses) : responses[i] \in Responses
    BY DEF TypeOK
  <2>2. \A r \in Responses : r.id \in Ids
    BY DEF Responses
  <2>3. \A i \in 1..Len(responses') : \E r \in Responses :
           /\ responses'[i] = r /\ Issued(r.id)' /\ Answers(r)'
           /\ ~r.error => r.key # None
    BY <1>7, <2>1, <2>2 DEF QueueInv
  <2>4. QED
    BY <1>7, <2>2, <2>3 DEF QueueInv, workerVars
<1>8. ASSUME NEW c \in Callers, PutRequest(c) PROVE QueueInv'
  <2>1. /\ \A id \in Ids : Issued(id) => Issued(id)'
        /\ \A r \in Responses : Answers(r) => Answers(r)'
    BY <1>5, <1>8, SameCalls
  <2>2. <<c, calls[c]>> \in Ids
    BY <1>8 DEF TypeOK, WindowInv, Calling, PutRequest, Ids
  <2>3. /\ requests \in Seq(Ids) /\ requests' = Append(requests, <<c, calls[c]>>)
        /\ UNCHANGED responses
    BY <1>8 DEF TypeOK, PutRequest
  <2>4. \A i \in 1..Len(requests') : \/ i \in 1..Len(requests) /\ requests'[i] = requests[i]
                                     \/ requests'[i] = <<c, calls[c]>>
    BY <2>2, <2>3, PutFacts
  <2>5. \A id \in Ids : id = <<c, calls[c]>> => Issued(id)'
    BY <1>8 DEF PutRequest, Issued, TypeOK, Ids
  <2>6. \A i \in 1..Len(requests) : requests[i] \in Ids
    BY <2>3
  <2>7. \A i \in 1..Len(requests') : \E id \in Ids : requests'[i] = id /\ Issued(id)'
    BY <2>1, <2>2, <2>4, <2>5, <2>6 DEF QueueInv
  <2>8. QED
    BY <1>5, <1>7, <1>8, <2>1, <2>3, <2>7
<1>9. ASSUME NEW c \in Callers, GetResponse(c) PROVE QueueInv'
  <2>1. /\ \A id \in Ids : Issued(id) => Issued(id)'
        /\ \A r \in Responses : Answers(r) => Answers(r)'
    BY <1>5, <1>9, SameCalls
  <2>2. responses \in Seq(Responses) /\ responses # <<>> /\ responses' = Tail(responses)
        /\ UNCHANGED requests
    BY <1>9 DEF TypeOK, GetResponse
  <2>3. \A i \in 1..Len(responses') : i + 1 \in 1..Len(responses)
                                      /\ responses'[i] = responses[i + 1]
    BY <2>2, GetFacts
  <2>4. \A i \in 1..Len(requests) : requests[i] \in Ids
    BY DEF TypeOK
  <2>5. QED
    BY <1>5, <1>7, <1>9, <2>1, <2>2, <2>3, <2>4 DEF QueueInv
<1>10. ASSUME UNCHANGED callVars, UNCHANGED window
       PROVE  /\ \A id : Issued(id) => Issued(id)'
              /\ \A r : Answers(r) => Answers(r)'
  BY <1>10 DEF callVars, Issued, Answers, Calling
\* A step of the worker that leaves it with response r, outside the "put" state.
<1>11. ASSUME UNCHANGED callVars, UNCHANGED window, UNCHANGED responses,
              \A i \in 1..Len(requests') : \E id \in Ids : requests'[i] = id /\ Issued(id),
              NEW r \in Responses, rsp' = r, Issued(r.id),
              worker' = "read" => appState' = "unlocked" /\ ~r.error,
              worker' = "put" => Answers(r)' /\ (~r.error => r.key # None)
       PROVE  QueueInv'
  <2>1. \A i \in 1..Len(requests') : \E id \in Ids : requests'[i] = id /\ Issued(id)'
    BY <1>10, <1>11
  <2>2. \A i \in 1..Len(responses) : \E s \in Responses :
           responses[i] = s /\ Issued(s.id) /\ Answers(s) /\ (~s.error => s.key # None)
    BY DEF TypeOK, QueueInv
  <2>3. \A i \in 1..Len(responses') : \E s \in Responses :
           responses'[i] = s /\ Issued(s.id)' /\ Answers(s)' /\ (~s.error => s.key # None)
    BY <1>10, <1>11, <2>2
  <2>4. Issued(r.id)'
    BY <1>10, <1>11
  <2>5. QED
    BY <1>11, <2>1, <2>3, <2>4 DEF QueueInv
<1>12. CASE WorkerTake
  <2>1. requests \in Seq(Ids) /\ requests # <<>> /\ requests' = Tail(requests)
        /\ UNCHANGED responses
    BY <1>12 DEF TypeOK, WorkerTake
  <2>2. \A i \in 1..Len(requests') : i + 1 \in 1..Len(requests) /\ requests'[i] = requests[i + 1]
    BY <2>1, GetFacts
  <2>3. Issued(Head(requests)) /\ Head(requests) \in Ids
    BY <2>1, GetFacts DEF QueueInv
  <2>4. \A i \in 1..Len(requests') : \E id \in Ids : requests'[i] = id /\ Issued(id)
    BY <2>1, <2>2 DEF QueueInv
  <2>5. PICK r \in Responses : rsp' = r /\ r.id = Head(requests)
    <3>1. rsp' \in Responses /\ rsp'.id = Head(requests)
      BY <1>12, <2>3 DEF WorkerTake, Responses
    <3>2. QED
      BY <3>1
  <2>6. worker' = "check" /\ UNCHANGED callVars /\ UNCHANGED window
    BY <1>12 DEF WorkerTake
  <2>7. QED
    BY <1>11, <2>1, <2>3, <2>4, <2>5, <2>6
\* Requests are as they were.
<1>13. \A i \in 1..Len(requests) : \E id \in Ids : requests[i] = id /\ Issued(id)
  BY DEF TypeOK, QueueInv
<1>14. CASE WorkerCheck
  <2>1. rsp \in Responses /\ Issued(rsp.id)
    BY <1>14 DEF WorkerCheck, QueueInv
  <2>2. PICK e \in BOOLEAN : e = (appState = "locked")
    OBVIOUS
  <2>3. PICK r \in Responses : rsp' = r /\ r.id = rsp.id /\ r.error = e
    <3>1. rsp' \in Responses /\ rsp'.id = rsp.id /\ rsp'.error = e
      BY <1>14, <2>1, <2>2 DEF WorkerCheck, Responses
    <3>2. QED
      BY <3>1
  <2>4. worker' = "put" => Answers(r)' /\ (~r.error => r.key # None)
    BY <1>14, <2>2, <2>3 DEF WorkerCheck, Answers
  <2>5. worker' = "read" => appState' = "unlocked" /\ ~r.error
    BY <1>14, <2>2, <2>3 DEF WorkerCheck, TypeOK, appVars
  <2>6. UNCHANGED callVars /\ UNCHANGED window /\ UNCHANGED queueVars
    BY <1>14 DEF WorkerCheck
  <2>7. QED
    BY <1>11, <1>13, <2>1, <2>3, <2>4, <2>5, <2>6 DEF queueVars
<1>15. CASE WorkerRead
  <2>1. rsp \in Responses /\ Issued(rsp.id) /\ appState = "unlocked"
    BY <1>15 DEF WorkerRead, QueueInv
  <2>2. key \in Keys /\ key # None /\ Provided = key
    BY <2>1 DEF TypeOK, KeyInv, Provided
  <2>3. PICK r \in Responses : rsp' = r /\ r.id = rsp.id /\ r.key = key
    BY <1>15, <2>1, <2>2 DEF WorkerRead, Responses
  <2>4. Answers(r)
    BY <2>2, <2>3, PlatformKeyAssumption DEF Answers, WindowInv
  <2>5. UNCHANGED callVars /\ UNCHANGED window /\ UNCHANGED queueVars /\ worker' = "put"
    BY <1>15 DEF WorkerRead
  <2>6. QED
    BY <1>10, <1>11, <1>13, <2>1, <2>2, <2>3, <2>4, <2>5 DEF queueVars
<1>16. CASE WorkerPut
  <2>1. rsp \in Responses /\ Issued(rsp.id) /\ Answers(rsp) /\ (~rsp.error => rsp.key # None)
    BY <1>16 DEF WorkerPut, QueueInv
  <2>2. responses \in Seq(Responses) /\ responses' = Append(responses, rsp) /\ UNCHANGED requests
    BY <1>16 DEF WorkerPut, TypeOK
  <2>3. \A i \in 1..Len(responses') :
           \/ i \in 1..Len(responses) /\ responses'[i] = responses[i]
           \/ responses'[i] = rsp
    BY <2>1, <2>2, PutFacts
  <2>4. \A i \in 1..Len(responses) : \E s \in Responses :
           responses[i] = s /\ Issued(s.id) /\ Answers(s) /\ (~s.error => s.key # None)
    BY DEF TypeOK, QueueInv
  <2>5. \A i \in 1..Len(responses') : \E s \in Responses :
           responses'[i] = s /\ Issued(s.id) /\ Answers(s) /\ (~s.error => s.key # None)
    BY <2>1, <2>3, <2>4
  <2>6. UNCHANGED callVars /\ UNCHANGED window /\ worker' = "loop"
    BY <1>16 DEF WorkerPut
  <2>7. \A i \in 1..Len(responses') : \E s \in Responses :
           responses'[i] = s /\ Issued(s.id)' /\ Answers(s)' /\ (~s.error => s.key # None)
    BY <1>10, <2>5, <2>6
  <2>8. \A i \in 1..Len(requests') : \E id \in Ids : requests'[i] = id /\ Issued(id)'
    BY <1>10, <1>13, <2>2, <2>6
  <2>9. QED
    BY <2>6, <2>7, <2>8 DEF QueueInv
<1>17. QED
  BY <1>1, <1>2, <1>3, <1>4, <1>6, <1>8, <1>9, <1>12, <1>14, <1>15, <1>16
     DEF Next, GuiStep, CallStep, WorkerStep

-----------------------------------------------------------------------------
\* The initial states satisfy the invariant.
LEMMA InitPKInv == Init => PKInv
<1> SUFFICES ASSUME Init PROVE PKInv
  OBVIOUS
<1> USE PlatformKeyAssumption DEF Init
<1>1. \A k : AutoLoads(k) => k \in Keys
  BY DEF AutoLoads, TpmLoads, FileLoads, Keys
<1>2. TypeOK
  BY <1>1 DEF TypeOK
<1>3. KeyInv
  BY DEF KeyInv
<1>4. WindowInv
  BY DEF WindowInv, Calling
<1>5. QueueInv
  BY DEF QueueInv
<1>6. QED
  BY <1>2, <1>3, <1>4, <1>5 DEF PKInv

\* ... and a step that changes nothing keeps it.
LEMMA StutterPKInv == PKInv /\ UNCHANGED vars => PKInv'
<1> SUFFICES ASSUME PKInv, UNCHANGED vars PROVE PKInv'
  OBVIOUS
<1> USE DEF PKInv, vars, diskVars, appVars, callVars, queueVars, workerVars
<1>1. TypeOK' /\ KeyInv'
  BY DEF TypeOK, KeyInv
<1>2. Calling' = Calling /\ Provided' = Provided
  BY DEF Calling, Provided
<1>3. WindowInv'
  BY <1>2 DEF WindowInv
<1>4. QueueInv'
  BY <1>2, SameQueues, SameCalls
<1>5. QED
  BY <1>1, <1>3, <1>4

\* PKInv holds in every behaviour, whatever the number of callers, keys and calls and
\* the size of the queues.
THEOREM Invariance == Spec => []PKInv
<1>1. PKInv /\ [Next]_vars => PKInv'
  BY TypeStep, KeyStep, WindowStep, QueueStep, StutterPKInv DEF PKInv
<1>2. QED
  BY InitPKInv, <1>1, PTL DEF Spec

\* No response that says "unlocked" is made without a key: the application stores the
\* key before it says it is unlocked.
THEOREM UnlockedTheorem == Spec => []UnlockedHasKey
<1>1. PKInv => UnlockedHasKey
  BY DEF PKInv, KeyInv, WindowInv, UnlockedHasKey
<1>2. QED
  BY Invariance, <1>1, PTL

-----------------------------------------------------------------------------
(* The refinement.                                                         *)

\* Steps of the dialog that unlock the application, or do not.
LEMMA UnlockMaps ==
  ASSUME PKInv, (\E k \in Keys : Unlock(k)) \/ CloseDialog \/ SetUnlocked
  PROVE  [Provider!Next]_Provider!vars
<1> USE DEF PKInv
<1>1. KeyInv' /\ TypeOK'
  BY KeyStep, TypeStep DEF Next, GuiStep
<1>2. /\ Recorded /\ UNCHANGED answer /\ Provided' \in Keys \cup {None} /\ Calling' = Calling
      /\ appState = "unlocked" => appState' = "unlocked"
  BY UnlockSteps, RecordedFacts DEF callVars
<1>3. CASE Provided' \in Keys
  <2>1. Provider!Provide(Provided')
    BY <1>2, <1>3 DEF Provider!Provide, Recorded
  <2>2. QED
    BY <1>3, <2>1 DEF Provider!Next
<1>4. CASE Provided' = None
  <2>1. Provided = None
    BY <1>1, <1>2, <1>4 DEF TypeOK, KeyInv, Provided
  <2>2. window' = window
    BY <1>2, <1>4, <2>1 DEF Recorded, TypeOK, WindowInv
  <2>3. QED
    BY <1>2, <1>4, <2>1, <2>2 DEF Provider!vars
<1>5. QED
  BY <1>2, <1>3, <1>4

\* Every step maps to a step of KeyProvider, or to none.
LEMMA StepMaps == ASSUME PKInv, Next PROVE [Provider!Next]_Provider!vars
<1> USE DEF PKInv
<1>1. ASSUME UNCHANGED <<appState, key, callVars, window>> PROVE UNCHANGED Provider!vars
  BY <1>1 DEF Provider!vars, Provided, Calling, callVars
<1>2. CASE OpenDialog \/ DeleteKey \/ (\E t \in {"tpm", "file"} : SelectType(t))
  BY <1>1, <1>2 DEF OpenDialog, DeleteKey, SelectType, appVars
<1>3. CASE (\E k \in FileKeys : CreateFileKey(k)) \/ (\E k \in TpmKeys : CreateTpmKey(k))
  BY <1>1, <1>3 DEF CreateFileKey, CreateTpmKey, appVars
<1>4. CASE (\E k \in Keys : Unlock(k)) \/ CloseDialog \/ SetUnlocked
  BY <1>4, UnlockMaps
<1>5. CASE WorkerStep
  BY <1>1, <1>5 DEF WorkerStep, WorkerTake, WorkerCheck, WorkerRead, WorkerPut, appVars
<1>6. ASSUME NEW c \in Callers, Begin(c) PROVE Provider!Begin(c)
  <2>1. c \notin Calling /\ Calling' = Calling \cup {c} /\ UNCHANGED Provided
    BY <1>6 DEF TypeOK, Begin, Goto, Calling, appVars, Provided
  <2>2. QED
    BY <1>6, <2>1 DEF Provider!Begin, Begin
<1>7. ASSUME NEW c \in Callers, PutRequest(c) \/ Look(c) \/ Wake(c) \/ ReadFile(c)
      PROVE  UNCHANGED Provider!vars
  BY <1>7 DEF PutRequest, Look, Wake, ReadFile, Goto, TypeOK, Calling, appVars, Provided,
     Provider!vars
<1>8. ASSUME NEW c \in Callers, c \in Calling, Raise(c), UNCHANGED appVars
      PROVE  Provider!End(c)
  <2>1. Calling' = Calling \ {c} /\ UNCHANGED Provided
    BY <1>8 DEF Raise, Goto, TypeOK, Calling, appVars, Provided
  <2>2. answer' = [answer EXCEPT ![c] = None]
    BY <1>8 DEF Raise, WindowInv, TypeOK
  <2>3. QED
    BY <1>8, <2>1, <2>2 DEF Raise, Provider!End
<1>9. ASSUME NEW c \in Callers, GetResponse(c) PROVE [Provider!Next]_Provider!vars
  <2>1. c \in Calling /\ UNCHANGED appVars
    BY <1>9 DEF GetResponse, Calling
  <2>2. CASE Raise(c)
    BY <1>8, <2>1, <2>2 DEF Provider!Next
  <2>3. CASE Goto(c, "sleep") /\ UNCHANGED <<answer, result, window>>
    BY <1>9, <2>1, <2>3 DEF Goto, TypeOK, Calling, appVars, Provided, Provider!vars
  <2>4. ASSUME Head(responses).id = <<c, calls[c]>>, ~Head(responses).error,
               Return(c, Head(responses).key)
        PROVE  Provider!End(c)
    <3>1. /\ Head(responses) \in Responses /\ Head(responses) = responses[1]
          /\ 1 \in 1..Len(responses)
      BY <1>9, GetFacts DEF TypeOK, GetResponse
    <3>2. Head(responses).key \in window[c] /\ Head(responses).key # None
      BY <2>1, <2>4, <3>1 DEF QueueInv, Answers
    <3>3. Head(responses).key \in window[c] \cap Keys
      BY <3>1, <3>2 DEF Responses
    <3>4. Calling' = Calling \ {c} /\ UNCHANGED Provided
      BY <2>1, <2>4 DEF Return, Goto, TypeOK, Calling, appVars, Provided
    <3>5. QED
      BY <2>1, <2>4, <3>3, <3>4 DEF Return, Provider!End
  <2>5. QED
    BY <1>9, <2>2, <2>3, <2>4 DEF GetResponse, Provider!Next
<1>10. ASSUME NEW c \in Callers, TimeOut(c) PROVE Provider!End(c)
  BY <1>8, <1>10 DEF TimeOut, Calling
<1>11. QED
  BY <1>2, <1>3, <1>4, <1>5, <1>6, <1>7, <1>9, <1>10
     DEF Next, GuiStep, CallStep, Provider!Next

\* The shared response queue with its late, stolen and dropped responses implements
\* KeyProvider: a call returns a key provided while it was in progress, or raises.
THEOREM Refinement == Spec => Implements
<1>1. Init => Provider!Init
  BY InitPKInv DEF PKInv, TypeOK, Init, Provider!Init, Provided, Calling
<1>2. PKInv /\ UNCHANGED vars => UNCHANGED Provider!vars
  BY DEF vars, appVars, callVars, Provider!vars, Provided, Calling
<1>3. PKInv /\ [Next]_vars => [Provider!Next]_Provider!vars
  BY <1>2, StepMaps
<1>4. QED
  BY Invariance, <1>1, <1>3, PTL DEF Spec, Implements, Provider!Spec
=============================================================================
