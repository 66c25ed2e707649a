----------------------------- MODULE Threading -----------------------------
(***************************************************************************)
(* examples/threading: start_thread_obtaining_mutex allocates a            *)
(* thread_data, hands it to a new thread and returns.  The thread sleeps,  *)
(* takes the mutex, sleeps, releases it, and returns its thread_data,      *)
(* which the caller gets by joining and then frees.                        *)
(*                                                                         *)
(* The caller is external and follows threading.h: it joins a thread once  *)
(* and frees what the thread returned; it may use the mutexes itself.  A   *)
(* sleep lasts any time: how many microseconds it is asked for is left     *)
(* out.                                                                    *)
(***************************************************************************)
EXTENDS Naturals, FiniteSets

CONSTANTS
    Thread,             \* thread identifiers, used again after a join
    Block,              \* addresses malloc can return
    Mutex,
    Faults,             \* whether memory, threads and mutex calls may fail
    MaxStarts,          \* bound: how often a thread is started
    MaxHolds,           \* bound: how often the caller takes a mutex
    NULL, NoOne, Caller

(* struct thread_data; a sleep's length is left out. *)
ThreadData == [mutex : Mutex, thread_complete_success : BOOLEAN]

ASSUME NullAssumption == NULL \notin Block \cup Thread \cup ThreadData
ASSUME OwnerAssumption == NoOne \notin Thread \cup {Caller} /\ Caller \notin Thread
ASSUME BoundAssumption == MaxStarts \in Nat /\ MaxHolds \in Nat /\ Faults \in BOOLEAN

VARIABLES
    crashed,            \* a null pointer was used, the process is gone
    thread_data,        \* by address: the struct, NULL where nothing is allocated
    thread_data_ptr,    \* local of start_thread_obtaining_mutex, NULL outside it
    pc,                 \* the threads' next steps
    thread_param,       \* what each thread was given, and returns
    owner,              \* of each mutex
    starts, holds,      \* counters for the bounds
    released,           \* history: the threads that took and released the mutex
    stuck               \* history: the mutexes whose unlocking failed

vars == <<crashed, thread_data, thread_data_ptr, pc, thread_param, owner, starts, holds, released, stuck>>

FreeBlocks  == {b \in Block : thread_data[b] = NULL}
FreeThreads == {t \in Thread : pc[t] = "none"}
Data(t) == thread_data[thread_param[t]]

Init ==
    /\ crashed = FALSE
    /\ thread_data = [b \in Block |-> NULL]
    /\ thread_data_ptr = NULL
    /\ pc = [t \in Thread |-> "none"]
    /\ thread_param = [t \in Thread |-> NULL]
    /\ owner = [m \in Mutex |-> NoOne]
    /\ starts = 0 /\ holds = 0
    /\ released = {} /\ stuck = {}

Goto(t, step) == pc' = [pc EXCEPT ![t] = step]
-----------------------------------------------------------------------------
(* start_thread_obtaining_mutex: malloc and the fields. *)
StartMalloc ==
    /\ ~crashed /\ thread_data_ptr = NULL
    /\ starts < MaxStarts
    /\ starts' = starts + 1
    /\ \E b \in FreeBlocks, m \in Mutex :
          /\ thread_data_ptr' = b
          /\ thread_data' = [thread_data EXCEPT ![b] = [mutex |-> m, thread_complete_success |-> FALSE]]
    /\ UNCHANGED <<crashed, pc, thread_param, owner, holds, released, stuck>>

(* malloc's result is not looked at: without memory the first assignment   *)
(* writes through a null pointer.                                          *)
StartCrashes ==
    /\ ~crashed /\ thread_data_ptr = NULL
    /\ starts < MaxStarts
    /\ Faults \/ FreeBlocks = {}
    /\ crashed' = TRUE
    /\ UNCHANGED <<thread_data, thread_data_ptr, pc, thread_param, owner, starts, holds, released, stuck>>

(* Fault: the thread is not given its argument. *)
CreateThread_NoArgument ==
    \E t \in FreeThreads :
        /\ Goto(t, "asleep")
        /\ thread_data_ptr' = NULL
        /\ UNCHANGED <<thread_param, thread_data>>

(* pthread_create. *)
CreateThread ==
    \E t \in FreeThreads :
        /\ Goto(t, "asleep")
        /\ thread_param' = [thread_param EXCEPT ![t] = thread_data_ptr]
        /\ thread_data_ptr' = NULL
        /\ UNCHANGED thread_data

StartReturnsTrue ==
    /\ ~crashed /\ thread_data_ptr # NULL
    /\ CreateThread
    /\ UNCHANGED <<crashed, owner, starts, holds, released, stuck>>

(* Fault: what was allocated for the thread is not freed. *)
FreeUnused_Forgotten == UNCHANGED thread_data

FreeUnused == thread_data' = [thread_data EXCEPT ![thread_data_ptr] = NULL]

StartReturnsFalse ==
    /\ ~crashed /\ thread_data_ptr # NULL
    /\ Faults \/ FreeThreads = {}
    /\ FreeUnused
    /\ thread_data_ptr' = NULL
    /\ UNCHANGED <<crashed, pc, thread_param, owner, starts, holds, released, stuck>>
-----------------------------------------------------------------------------
(* threadfunc.  The first usleep is over. *)
Wake(t) ==
    /\ ~crashed /\ pc[t] = "asleep"
    /\ Goto(t, "lock")
    /\ UNCHANGED <<crashed, thread_data, thread_data_ptr, thread_param, owner, starts, holds, released, stuck>>

(* Fault: the mutex is taken although somebody has it. *)
Obtain_NoWait(t) == owner' = [owner EXCEPT ![Data(t).mutex] = t]

Obtain(t) ==
    /\ owner[Data(t).mutex] = NoOne
    /\ owner' = [owner EXCEPT ![Data(t).mutex] = t]

Lock(t) ==
    /\ ~crashed /\ pc[t] = "lock"
    /\ Obtain(t)
    /\ Goto(t, "hold")
    /\ UNCHANGED <<crashed, thread_data, thread_data_ptr, thread_param, starts, holds, released, stuck>>

(* threadfunc returns its argument, with the success flag set. *)
ReturnWith(t, success) ==
    /\ thread_data' = [thread_data EXCEPT ![thread_param[t]] =
                           [mutex |-> Data(t).mutex, thread_complete_success |-> success]]
    /\ Goto(t, "returned")

LockFails(t) ==
    /\ ~crashed /\ pc[t] = "lock" /\ Faults
    /\ ReturnWith(t, FALSE)
    /\ UNCHANGED <<crashed, thread_data_ptr, thread_param, owner, starts, holds, released, stuck>>

(* Fault: the mutex is not released. *)
Unlock_Forgotten(t) ==
    /\ ~crashed /\ pc[t] = "hold"
    /\ released' = released \cup {t}
    /\ ReturnWith(t, TRUE)
    /\ UNCHANGED <<crashed, thread_data_ptr, thread_param, owner, starts, holds, stuck>>

(* The second usleep is over and the mutex is released. *)
Unlock(t) ==
    /\ ~crashed /\ pc[t] = "hold"
    /\ owner' = [owner EXCEPT ![Data(t).mutex] = NoOne]
    /\ released' = released \cup {t}
    /\ ReturnWith(t, TRUE)
    /\ UNCHANGED <<crashed, thread_data_ptr, thread_param, starts, holds, stuck>>

(* Fault: success is reported before unlocking is tried. *)
ReturnLocked_Success(t) == ReturnWith(t, TRUE)

ReturnLocked(t) == ReturnWith(t, FALSE)

(* pthread_mutex_unlock fails: the mutex stays as it is. *)
UnlockFails(t) ==
    /\ ~crashed /\ pc[t] = "hold" /\ Faults
    /\ ReturnLocked(t)
    /\ stuck' = stuck \cup {Data(t).mutex}
    /\ UNCHANGED <<crashed, thread_data_ptr, thread_param, owner, starts, holds, released>>
-----------------------------------------------------------------------------
(* The caller: pthread_join, a look at the result, free. *)
JoinAndFree(t) ==
    /\ ~crashed /\ thread_data_ptr = NULL
    /\ pc[t] = "returned"
    /\ Goto(t, "none")
    /\ thread_data' = [thread_data EXCEPT ![thread_param[t]] = NULL]
    /\ thread_param' = [thread_param EXCEPT ![t] = NULL]
    /\ released' = released \ {t}
    /\ UNCHANGED <<crashed, thread_data_ptr, owner, starts, holds, stuck>>

(* The caller's own use of a mutex. *)
CallerLocks(m) ==
    /\ ~crashed /\ thread_data_ptr = NULL
    /\ holds < MaxHolds
    /\ owner[m] = NoOne
    /\ owner' = [owner EXCEPT ![m] = Caller]
    /\ holds' = holds + 1
    /\ UNCHANGED <<crashed, thread_data, thread_data_ptr, pc, thread_param, starts, released, stuck>>

CallerUnlocks(m) ==
    /\ ~crashed /\ thread_data_ptr = NULL
    /\ owner[m] = Caller
    /\ owner' = [owner EXCEPT ![m] = NoOne]
    /\ UNCHANGED <<crashed, thread_data, thread_data_ptr, pc, thread_param, starts, holds, released, stuck>>
-----------------------------------------------------------------------------
ThreadStep(t) == Wake(t) \/ Lock(t) \/ Unlock(t)
ThreadFails(t) == LockFails(t) \/ UnlockFails(t)
CallerStep ==
    \/ StartMalloc \/ StartCrashes \/ StartReturnsTrue \/ StartReturnsFalse
    \/ \E t \in Thread : JoinAndFree(t)
    \/ \E m \in Mutex : CallerLocks(m) \/ CallerUnlocks(m)

Next == CallerStep \/ \E t \in Thread : ThreadStep(t) \/ ThreadFails(t)

Spec == Init /\ [][Next]_vars

(* Threads run, a call that has begun goes on, and the caller gives back   *)
(* what it locks; failures need not happen.  The mutex of the C library is *)
(* not fair, and need not be for threads that take it once.                *)
Fairness ==
    /\ WF_vars(StartReturnsTrue) /\ WF_vars(FreeThreads = {} /\ StartReturnsFalse)
    /\ \A t \in Thread : WF_vars(ThreadStep(t))
    /\ \A m \in Mutex : WF_vars(CallerUnlocks(m))

FairSpec == Spec /\ Fairness
-----------------------------------------------------------------------------
Running == {t \in Thread : pc[t] # "none"}

TypeOK ==
    /\ crashed \in BOOLEAN
    /\ thread_data \in [Block -> ThreadData \cup {NULL}]
    /\ thread_data_ptr \in Block \cup {NULL}
    /\ pc \in [Thread -> {"none", "asleep", "lock", "hold", "returned"}]
    /\ thread_param \in [Thread -> Block \cup {NULL}]
    /\ owner \in [Mutex -> Thread \cup {NoOne, Caller}]
    /\ starts \in 0..MaxStarts /\ holds \in 0..MaxHolds
    /\ released \subseteq Thread /\ stuck \subseteq Mutex
    /\ \A t \in Thread : pc[t] = "none" <=> thread_param[t] = NULL

(* A thread_data belongs to the call that fills it in, then to one thread, *)
(* until the joiner frees it: no thread works on memory that was freed or  *)
(* that another uses, and none is lost when no thread could be started.    *)
DataHasOneOwner ==
    /\ \A t \in Running :
          /\ thread_param[t] # NULL
          /\ Data(t) # NULL
          /\ thread_param[t] # thread_data_ptr
          /\ \A u \in Running : thread_param[t] = thread_param[u] => t = u
    /\ thread_data_ptr # NULL => thread_data[thread_data_ptr] # NULL
    /\ \A b \in Block : thread_data[b] # NULL =>
          b = thread_data_ptr \/ \E t \in Running : thread_param[t] = b

(* The thread between lock and unlock is the owner of its mutex: no two    *)
(* threads are there with the same mutex.                                  *)
HolderOwnsMutex == \A t \in Thread : pc[t] = "hold" => owner[Data(t).mutex] = t

(* threading.h: the joiner can check thread_complete_success for           *)
(* successful exit.  It is set in exactly the threads that have obtained   *)
(* the mutex and released it, when they have returned.                     *)
SuccessMeansReleased ==
    \A t \in Thread : pc[t] = "returned" => (Data(t).thread_complete_success <=> t \in released)

(* Every thread that was started returns, whoever else wants its mutex,    *)
(* unless that could not be unlocked once.                                 *)
EveryThreadReturns ==
    \A t \in Thread :
        pc[t] = "asleep" ~>
            pc[t] = "returned" \/ crashed \/ (pc[t] = "lock" /\ Data(t).mutex \in stuck)
=============================================================================
