--------------------------- MODULE ThreadingProofs ---------------------------
(* Proofs about Threading, for any number of threads, blocks and mutexes.  *)
EXTENDS Threading, TLAPS

(* Who has released its mutex has returned and was not yet joined. *)
ReleasedReturned == \A t \in released : pc[t] = "returned"

Inv ==
    /\ TypeOK /\ DataHasOneOwner /\ HolderOwnsMutex
    /\ ReleasedReturned /\ SuccessMeansReleased

USE NullAssumption, OwnerAssumption, BoundAssumption

(* Nothing is allocated and nobody runs at the start. *)
LEMMA InitInv == Init => Inv
<1>. SUFFICES ASSUME Init PROVE Inv
  OBVIOUS
<1>1. TypeOK
  <2>1. starts \in 0..MaxStarts /\ holds \in 0..MaxHolds
    BY DEF Init
  <2>2. released \subseteq Thread /\ stuck \subseteq Mutex /\ crashed \in BOOLEAN
    BY DEF Init
  <2>3. \A t \in Thread : pc[t] = "none" <=> thread_param[t] = NULL
    BY DEF Init
  <2>4. /\ thread_data \in [Block -> ThreadData \cup {NULL}]
        /\ thread_data_ptr \in Block \cup {NULL}
        /\ thread_param \in [Thread -> Block \cup {NULL}]
        /\ owner \in [Mutex -> Thread \cup {NoOne, Caller}]
    BY DEF Init
  <2>5. pc \in [Thread -> {"none", "asleep", "lock", "hold", "returned"}]
    BY DEF Init
  <2>. QED BY <2>1, <2>2, <2>3, <2>4, <2>5 DEF TypeOK
<1>2. DataHasOneOwner
  BY DEF Init, DataHasOneOwner, Running
<1>3. HolderOwnsMutex /\ ReleasedReturned /\ SuccessMeansReleased
  BY DEF Init, HolderOwnsMutex, ReleasedReturned, SuccessMeansReleased
<1>. QED BY <1>1, <1>2, <1>3 DEF Inv

(* A thread's data is allocated and well typed while the thread exists. *)
LEMMA DataTyped ==
    ASSUME TypeOK, DataHasOneOwner, NEW t \in Thread, pc[t] # "none"
    PROVE  /\ thread_param[t] \in Block
           /\ Data(t) \in ThreadData
BY DEF TypeOK, DataHasOneOwner, Running, Data

(* Steps of start_thread_obtaining_mutex. *)
LEMMA StartInv ==
    ASSUME Inv, StartMalloc \/ StartCrashes \/ StartReturnsTrue \/ StartReturnsFalse
    PROVE  Inv'
<1>. USE DEF Inv
<1>1. CASE StartMalloc
  <2>1. PICK b \in FreeBlocks, m \in Mutex :
            /\ thread_data_ptr' = b
            /\ thread_data' = [thread_data EXCEPT ![b] = [mutex |-> m, thread_complete_success |-> FALSE]]
    BY <1>1 DEF StartMalloc
  <2>2. b \in Block /\ thread_data[b] = NULL
    BY <2>1 DEF FreeBlocks
  <2>3. [mutex |-> m, thread_complete_success |-> FALSE] \in ThreadData
    BY DEF ThreadData
  <2>4. \A t \in Thread : pc[t] # "none" => thread_param[t] # b /\ Data(t)' = Data(t)
    BY <1>1, <2>1, <2>2, DataTyped DEF StartMalloc, Data, TypeOK
  <2>5. TypeOK'
    <3>1. thread_data' \in [Block -> ThreadData \cup {NULL}]
      BY <2>1, <2>2, <2>3 DEF TypeOK
    <3>2. starts' \in 0..MaxStarts
      BY <1>1 DEF StartMalloc, TypeOK
    <3>. QED BY <1>1, <2>1, <2>2, <3>1, <3>2 DEF StartMalloc, TypeOK
  <2>6. DataHasOneOwner'
    <3>1. \A c \in Block : thread_data'[c] # NULL <=> c = b \/ thread_data[c] # NULL
      BY <2>1, <2>2, <2>3 DEF TypeOK
    <3>2. Running' = Running /\ UNCHANGED thread_param /\ thread_data_ptr = NULL
      BY <1>1 DEF StartMalloc, Running
    <3>3. \A t \in Running : Data(t)' = Data(t) /\ thread_param[t] # b
      BY <2>4 DEF Running
    <3>. QED BY <2>1, <2>2, <3>1, <3>2, <3>3 DEF DataHasOneOwner
  <2>7. HolderOwnsMutex' /\ ReleasedReturned' /\ SuccessMeansReleased'
    BY <1>1, <2>4 DEF StartMalloc, HolderOwnsMutex, ReleasedReturned, SuccessMeansReleased, TypeOK
  <2>. QED BY <2>5, <2>6, <2>7
<1>2. CASE StartCrashes
  BY <1>2 DEF StartCrashes, TypeOK, DataHasOneOwner, HolderOwnsMutex, ReleasedReturned,
              SuccessMeansReleased, Running, Data
<1>3. CASE StartReturnsTrue
  <2>1. PICK u \in FreeThreads :
            /\ Goto(u, "asleep")
            /\ thread_param' = [thread_param EXCEPT ![u] = thread_data_ptr]
            /\ thread_data_ptr' = NULL
            /\ UNCHANGED thread_data
    BY <1>3 DEF StartReturnsTrue, CreateThread
  <2>2. u \in Thread /\ pc[u] = "none" /\ thread_data_ptr # NULL
    BY <1>3, <2>1 DEF FreeThreads, StartReturnsTrue
  <2>3. TypeOK'
    BY <1>3, <2>1, <2>2 DEF StartReturnsTrue, TypeOK, Goto
  <2>4. DataHasOneOwner'
    BY <1>3, <2>1, <2>2 DEF StartReturnsTrue, DataHasOneOwner, TypeOK, Goto, Running, Data
  <2>5. HolderOwnsMutex' /\ ReleasedReturned' /\ SuccessMeansReleased'
    BY <1>3, <2>1, <2>2 DEF StartReturnsTrue, HolderOwnsMutex, ReleasedReturned,
       SuccessMeansReleased, TypeOK, Goto, Data
  <2>. QED BY <2>3, <2>4, <2>5
<1>4. CASE StartReturnsFalse
  <2>1. thread_data_ptr \in Block
    BY <1>4 DEF StartReturnsFalse, TypeOK
  <2>2. \A t \in Thread : pc[t] # "none" => thread_param[t] # thread_data_ptr /\ Data(t)' = Data(t)
    BY <1>4, <2>1, DataTyped DEF StartReturnsFalse, FreeUnused, Data, TypeOK, DataHasOneOwner, Running
  <2>3. TypeOK'
    BY <1>4, <2>1 DEF StartReturnsFalse, FreeUnused, TypeOK
  <2>4. DataHasOneOwner'
    BY <1>4, <2>1, <2>2 DEF StartReturnsFalse, FreeUnused, DataHasOneOwner, TypeOK, Running
  <2>5. HolderOwnsMutex' /\ ReleasedReturned' /\ SuccessMeansReleased'
    BY <1>4, <2>2 DEF StartReturnsFalse, HolderOwnsMutex, ReleasedReturned, SuccessMeansReleased, TypeOK
  <2>. QED BY <2>3, <2>4, <2>5
<1>. QED BY <1>1, <1>2, <1>3, <1>4

(* Returning sets the flag in the thread's own data only. *)
LEMMA ReturnData ==
    ASSUME Inv, NEW t \in Thread, pc[t] # "none", NEW success \in BOOLEAN,
           ReturnWith(t, success), UNCHANGED <<thread_param, thread_data_ptr>>
    PROVE  /\ thread_data' \in [Block -> ThreadData \cup {NULL}]
           /\ Data(t)' = [mutex |-> Data(t).mutex, thread_complete_success |-> success]
           /\ \A u \in Thread : pc[u] # "none" =>
                 /\ Data(u)'.mutex = Data(u).mutex
                 /\ u # t => Data(u)' = Data(u)
           /\ DataHasOneOwner'
<1>. USE DEF Inv
<1>1. thread_param[t] \in Block /\ Data(t) \in ThreadData
  BY DataTyped
<1>2. thread_data' = [thread_data EXCEPT ![thread_param[t]] =
                         [mutex |-> Data(t).mutex, thread_complete_success |-> success]]
  BY <1>1 DEF ReturnWith, Data, TypeOK, ThreadData
<1>3. [mutex |-> Data(t).mutex, thread_complete_success |-> success] \in ThreadData
  BY <1>1 DEF ThreadData
<1>4. thread_data' \in [Block -> ThreadData \cup {NULL}]
  BY <1>1, <1>2, <1>3 DEF TypeOK
<1>5. Data(t)' = [mutex |-> Data(t).mutex, thread_complete_success |-> success]
  BY <1>1, <1>2 DEF Data, TypeOK
<1>6. \A u \in Thread : pc[u] # "none" /\ u # t => Data(u)' = Data(u)
  BY <1>1, <1>2 DEF Data, TypeOK, DataHasOneOwner, Running
<1>7. DataHasOneOwner'
  BY <1>1, <1>2, <1>3 DEF DataHasOneOwner, Running, Data, TypeOK, ReturnWith, Goto
<1>. QED BY <1>4, <1>5, <1>6, <1>7

(* Steps of threadfunc. *)
LEMMA ThreadInv ==
    ASSUME Inv, NEW t \in Thread, ThreadStep(t) \/ ThreadFails(t)
    PROVE  Inv'
<1>. USE DEF Inv
<1>1. CASE Wake(t)
  BY <1>1 DEF Wake, Goto, TypeOK, DataHasOneOwner, HolderOwnsMutex, ReleasedReturned,
              SuccessMeansReleased, Running, Data
<1>2. CASE Lock(t)
  <2>1. pc[t] # "none" /\ Data(t) \in ThreadData /\ Data(t).mutex \in Mutex
    BY <1>2, DataTyped DEF Lock, ThreadData
  <2>2. TypeOK'
    BY <1>2, <2>1 DEF Lock, Obtain, Goto, TypeOK
  <2>3. HolderOwnsMutex'
    BY <1>2, <2>1 DEF Lock, Obtain, Goto, TypeOK, HolderOwnsMutex, Data
  <2>4. DataHasOneOwner' /\ ReleasedReturned' /\ SuccessMeansReleased'
    BY <1>2, <2>1 DEF Lock, Goto, TypeOK, DataHasOneOwner, ReleasedReturned,
                      SuccessMeansReleased, Running, Data
  <2>. QED BY <2>2, <2>3, <2>4
<1>3. CASE LockFails(t) \/ UnlockFails(t)
  <2>1. pc[t] \in {"lock", "hold"} /\ ReturnWith(t, FALSE) /\ pc' = [pc EXCEPT ![t] = "returned"]
        /\ UNCHANGED <<crashed, thread_param, thread_data_ptr, owner, starts, holds, released>>
    BY <1>3 DEF LockFails, UnlockFails, ReturnLocked, ReturnWith, Goto
  <2>2. Data(t) \in ThreadData /\ Data(t).mutex \in Mutex
    BY <2>1, DataTyped DEF ThreadData
  <2>3. stuck' \subseteq Mutex
    BY <1>3, <2>2 DEF LockFails, UnlockFails, TypeOK
  <2>. DEFINE D == [mutex |-> Data(t).mutex, thread_complete_success |-> FALSE]
  <2>4. /\ thread_data' \in [Block -> ThreadData \cup {NULL}]
        /\ Data(t)' = D
        /\ \A u \in Thread : pc[u] # "none" =>
              Data(u)'.mutex = Data(u).mutex /\ (u # t => Data(u)' = Data(u))
        /\ DataHasOneOwner'
    BY <2>1, ReturnData
  <2>5. TypeOK'
    BY <2>1, <2>3, <2>4 DEF TypeOK
  <2>6. HolderOwnsMutex'
    BY <2>1, <2>4 DEF HolderOwnsMutex, TypeOK
  <2>7. ReleasedReturned' /\ SuccessMeansReleased'
    BY <2>1, <2>4 DEF ReleasedReturned, SuccessMeansReleased, TypeOK
  <2>. QED BY <2>4, <2>5, <2>6, <2>7
<1>4. CASE Unlock(t)
  <2>1. pc[t] = "hold" /\ ReturnWith(t, TRUE) /\ pc' = [pc EXCEPT ![t] = "returned"]
        /\ UNCHANGED <<crashed, thread_param, thread_data_ptr, starts, holds, stuck>>
        /\ owner' = [owner EXCEPT ![Data(t).mutex] = NoOne]
        /\ released' = released \cup {t}
    BY <1>4 DEF Unlock, ReturnWith, Goto
  <2>2. Data(t) \in ThreadData /\ Data(t).mutex \in Mutex
    BY <2>1, DataTyped DEF ThreadData
  <2>4. /\ thread_data' \in [Block -> ThreadData \cup {NULL}]
        /\ Data(t)' = [mutex |-> Data(t).mutex, thread_complete_success |-> TRUE]
        /\ \A u \in Thread : pc[u] # "none" =>
              Data(u)'.mutex = Data(u).mutex /\ (u # t => Data(u)' = Data(u))
        /\ DataHasOneOwner'
    BY <2>1, ReturnData
  <2>5. TypeOK'
    BY <2>1, <2>2, <2>4 DEF TypeOK
  <2>6. HolderOwnsMutex'
    BY <2>1, <2>2, <2>4 DEF HolderOwnsMutex, TypeOK
  <2>7. ReleasedReturned' /\ SuccessMeansReleased'
    BY <2>1, <2>4 DEF ReleasedReturned, SuccessMeansReleased, TypeOK
  <2>. QED BY <2>4, <2>5, <2>6, <2>7
<1>. QED BY <1>1, <1>2, <1>3, <1>4 DEF ThreadStep, ThreadFails

(* Steps of the caller's own. *)
LEMMA CallerInv ==
    ASSUME Inv, \/ \E t \in Thread : JoinAndFree(t)
                \/ \E m \in Mutex : CallerLocks(m) \/ CallerUnlocks(m)
    PROVE  Inv'
<1>. USE DEF Inv
<1>1. ASSUME NEW t \in Thread, JoinAndFree(t) PROVE Inv'
  <2>1. thread_param[t] \in Block /\ pc[t] = "returned"
    BY <1>1, DataTyped DEF JoinAndFree
  <2>2. \A u \in Thread : pc[u] # "none" /\ u # t =>
            thread_param[u] # thread_param[t] /\ Data(u)' = Data(u)
    BY <1>1, <2>1 DEF JoinAndFree, Data, TypeOK, DataHasOneOwner, Running
  <2>3. TypeOK'
    BY <1>1, <2>1 DEF JoinAndFree, Goto, TypeOK
  <2>4. DataHasOneOwner'
    BY <1>1, <2>1, <2>2 DEF JoinAndFree, Goto, DataHasOneOwner, Running, TypeOK
  <2>5. HolderOwnsMutex' /\ ReleasedReturned' /\ SuccessMeansReleased'
    BY <1>1, <2>1, <2>2 DEF JoinAndFree, Goto, HolderOwnsMutex, ReleasedReturned,
                            SuccessMeansReleased, TypeOK
  <2>. QED BY <2>3, <2>4, <2>5
<1>2. ASSUME NEW m \in Mutex, CallerLocks(m) \/ CallerUnlocks(m) PROVE Inv'
  <2>1. /\ UNCHANGED <<crashed, thread_data, thread_data_ptr, pc, thread_param, starts, released, stuck>>
        /\ owner[m] \notin Thread
        /\ owner' = [owner EXCEPT ![m] = Caller] \/ owner' = [owner EXCEPT ![m] = NoOne]
        /\ holds' \in 0..MaxHolds
    BY <1>2 DEF CallerLocks, CallerUnlocks, TypeOK
  <2>2. TypeOK'
    BY <2>1 DEF TypeOK
  <2>3. HolderOwnsMutex'
    <3>1. \A t \in Thread : pc[t] = "hold" => Data(t).mutex \in Mutex /\ Data(t).mutex # m
      BY <2>1, DataTyped DEF HolderOwnsMutex, ThreadData
    <3>. QED BY <2>1, <3>1 DEF HolderOwnsMutex, TypeOK, Data
  <2>4. DataHasOneOwner' /\ ReleasedReturned' /\ SuccessMeansReleased'
    BY <2>1 DEF DataHasOneOwner, ReleasedReturned, SuccessMeansReleased, Running, Data
  <2>. QED BY <2>2, <2>3, <2>4
<1>. QED BY <1>1, <1>2

(* Every step preserves the invariant. *)
LEMMA NextInv == Inv /\ [Next]_vars => Inv'
<1>. SUFFICES ASSUME Inv, [Next]_vars PROVE Inv'
  OBVIOUS
<1>1. CASE Next
  BY <1>1, StartInv, ThreadInv, CallerInv DEF Next, CallerStep
<1>2. CASE UNCHANGED vars
  BY <1>2 DEF vars, Inv, TypeOK, DataHasOneOwner, HolderOwnsMutex, ReleasedReturned,
              SuccessMeansReleased, Running, Data
<1>. QED BY <1>1, <1>2

(* Every variable has its type, and a thread has the address that          *)
(* pthread_create passed to it for as long as it exists.                   *)
THEOREM ThreadingTyped == Spec => []TypeOK
<1>1. Inv => TypeOK
  BY DEF Inv
<1>. QED BY <1>1, InitInv, NextInv, PTL DEF Spec

(* Each thread_data belongs to one thread or to the call that fills it in, *)
(* until it is joined, whatever fails: no thread uses freed or shared      *)
(* memory and none is lost.                                                *)
THEOREM ThreadDataOwned == Spec => []DataHasOneOwner
<1>1. Inv => DataHasOneOwner
  BY DEF Inv
<1>. QED BY <1>1, InitInv, NextInv, PTL DEF Spec

(* A thread between lock and unlock owns its mutex. *)
THEOREM MutexHeld == Spec => []HolderOwnsMutex
<1>1. Inv => HolderOwnsMutex
  BY DEF Inv
<1>. QED BY <1>1, InitInv, NextInv, PTL DEF Spec

(* The flag a joiner finds says whether the thread took and released the   *)
(* mutex.                                                                  *)
THEOREM SuccessFlagExact == Spec => []SuccessMeansReleased
<1>1. Inv => SuccessMeansReleased
  BY DEF Inv
<1>. QED BY <1>1, InitInv, NextInv, PTL DEF Spec
=============================================================================
