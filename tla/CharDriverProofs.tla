-------------------------- MODULE CharDriverProofs --------------------------
(***************************************************************************)
(* Proofs about the aesdchar driver, for any number of processes, files,   *)
(* slots and addresses, with memory that can run out and user buffers that *)
(* can fault.  First its memory: calls exclude each other, and no pointer  *)
(* the driver keeps ever dangles.                                          *)
(*                                                                         *)
(* Then what it does with the bytes: writers append to one log of lines    *)
(* (DeviceIsLineLog), readers see its contents (ReadsRight), seeks land    *)
(* where they say (SeeksRight, LlseeksRight), no file operation loses      *)
(* memory but in the two situations named (NothingOrphaned), and as long   *)
(* as users stay clear of the two ways to leave the lock held, it and the  *)
(* device numbers are given back (LockReleased, RegionsReturned).          *)
(***************************************************************************)
EXTENDS CharDriver, CircularBufferOpsProofs

Inv == MemoryTypeOK /\ Sessions /\ MutualExclusion /\ NoDanglingPointers

(* Two calls inside are one call. *)
LEMMA OneInside ==
    ASSUME MutualExclusion, NEW p \in Proc, NEW q \in Proc,
           pc[p] \in Inside, pc[q] \in Inside
    PROVE  p = q
  BY DEF MutualExclusion

(* A step that leaves the driver's memory alone, and the locals of the     *)
(* calls that own memory, keeps every pointer valid.                       *)
LEMMA MemoryKept ==
    ASSUME NoDanglingPointers, UNCHANGED <<device, heap>>,
           Storing' \subseteq Storing, Joined' = Joined,
           \A q \in Storing' : k_buf'[q] = k_buf[q] /\ usr_count'[q] = usr_count[q],
           module' # "unloaded" => module # "unloaded"
    PROVE  NoDanglingPointers'
  <1>1. CASE module' = "unloaded"
    BY <1>1 DEF NoDanglingPointers
  <1>2. CASE module' # "unloaded"
    <2>1. /\ UNCHANGED <<circular_buffer, buffer_entry, heap>>
          /\ EntryPtrs' = EntryPtrs /\ PartialPtr' = PartialPtr
          /\ CallPtrs' \subseteq CallPtrs
      BY DEF device, EntryPtrs, PartialPtr, CallPtrs
    <2> QED
      BY <1>2, <2>1 DEF NoDanglingPointers, EntriesValid, PartialValid, CallsValid, NotShared, Holds
  <1> QED
    BY <1>1, <1>2

LEMMA QuietStep ==
    ASSUME NoDanglingPointers,
           UNCHANGED <<device, heap, k_buf, usr_count>>,
           Storing' \subseteq Storing, Joined' = Joined,
           module' # "unloaded" => module # "unloaded"
    PROVE  NoDanglingPointers'
  BY MemoryKept

(* A step of p from step l to step m, neither of them one at which a call  *)
(* owns memory. *)
LEMMA GotoQuiet ==
    ASSUME MemoryTypeOK, NEW p \in Proc, NEW m \in Steps \ {"store", "populate"},
           Goto(p, m), pc[p] # "populate"
    PROVE  Storing' \subseteq Storing /\ Joined' = Joined
  BY DEF MemoryTypeOK, Goto, Storing, Joined, Steps

(* A call outside becomes a call outside; or leaves, giving up the lock;   *)
(* or stays inside.                                                        *)
LEMMA ExclusionKept ==
    ASSUME MemoryTypeOK, MutualExclusion, NEW p \in Proc, NEW m \in Steps, Goto(p, m),
           \/ m \notin Inside /\ lock' = lock
           \/ m \notin Inside /\ pc[p] \in Inside
           \/ m \in Inside /\ lock' = lock /\ pc[p] \in Inside
           \/ m \in Inside /\ lock' = p /\ lock = NoProc
    PROVE  MutualExclusion'
  <1>1. ASSUME NEW q \in Proc, pc'[q] \in Inside
        PROVE  lock' = q
    <2>1. CASE q = p
      BY <1>1, <2>1 DEF MemoryTypeOK, Goto, MutualExclusion
    <2>2. CASE q # p
      <3>1. pc[q] \in Inside
        BY <1>1, <2>2 DEF MemoryTypeOK, Goto
      <3>2. lock = q /\ q # NoProc
        BY <3>1, ProcAssumption DEF MutualExclusion
      <3> QED
        BY <2>2, <3>2 DEF MutualExclusion
    <2> QED
      BY <2>1, <2>2
  <1> QED
    BY <1>1 DEF MutualExclusion

(* The part of Sessions that a step inside a call can disturb. *)
LEMMA SessionsKept ==
    ASSUME MemoryTypeOK, Sessions, NEW p \in Proc, NEW m \in Steps \ {"idle", "lock", "in"}, Goto(p, m),
           pc[p] \notin {"idle", "dead"}, UNCHANGED <<module, opened, filp>>,
           \A q \in Proc : q # p => call'[q] = call[q]
    PROVE  Sessions'
  BY DEF MemoryTypeOK, Sessions, Goto
-----------------------------------------------------------------------------
(* Kernel memory. *)

Bytes == Byte \cup {Zero, Garbage}

(* What kmalloc and a store into it leave at an address. *)
LEMMA KmallocValue ==
    ASSUME NEW h \in [Ptr -> Memory], NEW ptr \in Ptr, NEW bytes \in Seq(Bytes)
    PROVE  /\ kmalloc(h, ptr, bytes) \in [Ptr -> Memory]
           /\ kmalloc(h, ptr, bytes)[ptr] = [state |-> "allocated", bytes |-> bytes]
           /\ \A q \in Ptr \ {ptr} : kmalloc(h, ptr, bytes)[q] = h[q]
  BY DEF kmalloc, Memory, Bytes

(* kfree touches no other address, and leaves nothing allocated at its own.  *)
LEMMA KfreeValue ==
    ASSUME NEW h \in [Ptr -> Memory], NEW ptr \in Ptr \cup {NULL}
    PROVE  /\ kfree(h, ptr) \in [Ptr -> Memory]
           /\ \A q \in Ptr \ {ptr} : kfree(h, ptr)[q] = h[q]
           /\ ptr # NULL => kfree(h, ptr)[ptr].state # "allocated"
  <1>1. <<>> \in Seq(Byte \cup {Zero, Garbage})
    OBVIOUS
  <1>2. CASE ptr = NULL
    BY <1>2 DEF kfree
  <1>3. CASE ptr # NULL
    BY <1>1, <1>3 DEF kfree, Memory
  <1> QED
    BY <1>2, <1>3

(* A buffer filled by copy_from_user has the length of the user's. *)
LEMMA CopyValue ==
    ASSUME NEW w \in Payloads, NEW n \in Copied(Len(w))
    PROVE  /\ copy_from_user(w, n) \in Seq(Bytes)
           /\ Len(copy_from_user(w, n)) = Len(w)
           /\ n \in Nat /\ n <= Len(w)
  <1>1. w \in Seq(Byte) /\ Len(w) \in Nat
    BY UserAssumption, LenProperties
  <1>2. n \in Nat /\ n <= Len(w)
    BY <1>1 DEF Copied
  <1>3. \A i \in 1..Len(w) : w[i] \in Byte
    BY <1>1, ElementOfSeq
  <1>4. copy_from_user(w, n) \in [1..Len(w) -> Bytes]
    BY <1>3 DEF copy_from_user, Bytes
  <1> QED
    BY <1>1, <1>2, <1>4, SeqDef, LenProperties

(* A load of n bytes has n bytes. *)
LEMMA LoadValue ==
    ASSUME MemoryTypeOK, NEW ptr, NEW n \in Nat
    PROVE  Load(ptr, n) \in Seq(Bytes) /\ Len(Load(ptr, n)) = n
  <1>1. ASSUME NEW i \in 1..n, ptr \in Ptr, i \in DOMAIN heap[ptr].bytes
        PROVE  heap[ptr].bytes[i] \in Bytes
    <2>1. heap[ptr].bytes \in Seq(Bytes)
      BY <1>1 DEF MemoryTypeOK, Memory, Bytes
    <2> QED
      BY <1>1, <2>1, ElementOfSeq, LenProperties
  <1>2. Load(ptr, n) \in [1..n -> Bytes]
    BY <1>1 DEF Load, Bytes
  <1> QED
    BY <1>2, SeqDef, LenProperties

(* The joined buffer has room for both parts. *)
LEMMA JoinedValue ==
    ASSUME MemoryTypeOK, NEW p \in Proc
    PROVE  /\ JoinedBytes(p) \in Seq(Bytes)
           /\ Len(JoinedBytes(p)) = buffer_entry.size + usr_count[p]
  <1>1. buffer_entry.size \in Nat /\ usr_count[p] \in Nat
    BY DEF MemoryTypeOK, Entry
  <1> DEFINE x == Load(buffer_entry.buffptr, buffer_entry.size)
             y == Load(k_buf[p], usr_count[p])
  <1>2. x \in Seq(Bytes) /\ Len(x) = buffer_entry.size
    BY <1>1, LoadValue
  <1>3. y \in Seq(Bytes) /\ Len(y) = usr_count[p]
    BY <1>1, LoadValue
  <1> HIDE DEF x, y
  <1>4. x \o y \in Seq(Bytes) /\ Len(x \o y) = Len(x) + Len(y)
    BY <1>2, <1>3, ConcatProperties
  <1> QED
    BY <1>2, <1>3, <1>4 DEF JoinedBytes, x, y
-----------------------------------------------------------------------------
(* Each action preserves the invariant. *)

LEMMA InitInv == Init => Inv
  <1> SUFFICES ASSUME Init PROVE Inv
    OBVIOUS
  <1>1. MemoryTypeOK
    <2>1. <<>> \in Seq(Byte \cup {Zero, Garbage})
      OBVIOUS
    <2>2. heap \in [Ptr -> Memory]
      BY <2>1 DEF Init, Unallocated, Memory
    <2>3. circular_buffer \in [entry : [Slots -> Entry], in_offs : Slots,
                               out_offs : Slots, full : BOOLEAN]
      BY NAssumption DEF Init, aesd_circular_buffer_init, Slots, EmptyEntry, Entry
    <2> QED
      BY <2>2, <2>3 DEF Init, MemoryTypeOK, EmptyEntry, Entry, Steps
  <1>2. Sessions /\ MutualExclusion /\ NoDanglingPointers
    BY DEF Init, Sessions, MutualExclusion, NoDanglingPointers, Inside
  <1> QED
    BY <1>1, <1>2 DEF Inv

(* The steps of a call that leave memory alone. *)
LEMMA QuietCallInv ==
    ASSUME Inv, NEW p \in Proc, NEW m \in Steps \ {"idle", "lock", "in", "store", "populate"},
           Goto(p, m), pc[p] \in Steps \ {"idle", "dead", "populate"},
           UNCHANGED <<module, device, heap, opened, filp, k_buf, usr_count>>,
           DOMAIN call' = Proc, \A q \in Proc : q # p => call'[q] = call[q],
           \/ m \notin Inside /\ lock' = lock
           \/ m \notin Inside /\ lock' = NoProc /\ pc[p] \in Inside
           \/ m \in Inside /\ lock' = lock /\ pc[p] \in Inside
    PROVE  Inv'
  <1>1. MemoryTypeOK'
    BY DEF Inv, MemoryTypeOK, Goto, device
  <1>2. Sessions'
    BY SessionsKept DEF Inv
  <1>3. MutualExclusion'
    BY ExclusionKept DEF Inv
  <1>4. NoDanglingPointers'
    BY GotoQuiet, QuietStep DEF Inv
  <1> QED
    BY <1>1, <1>2, <1>3, <1>4 DEF Inv

LEMMA ReadInv == ASSUME Inv, NEW p \in Proc, ReadFind(p) \/ ReadCopy(p) PROVE Inv'
  <1>1. CASE ReadFind(p)
    <2>1. \/ UnlockAndReturn(p)
          \/ Goto(p, "copy") /\ UNCHANGED lock
      BY <1>1 DEF ReadFind
    <2>2. /\ pc[p] = "in"
          /\ UNCHANGED <<module, device, heap, opened, filp, k_buf, usr_count>>
          /\ DOMAIN call' = Proc /\ \A q \in Proc : q # p => call'[q] = call[q]
      BY <1>1 DEF ReadFind, loading, files, Inv, MemoryTypeOK
    <2> QED
      BY <2>1, <2>2, QuietCallInv DEF UnlockAndReturn, Steps, Inside
  <1>2. CASE ReadCopy(p)
    <2>1. /\ pc[p] = "copy"
          /\ UnlockAndReturn(p)
          /\ UNCHANGED <<module, device, heap, opened, filp, k_buf, usr_count>>
          /\ DOMAIN call' = Proc /\ \A q \in Proc : q # p => call'[q] = call[q]
      BY <1>2 DEF ReadCopy, loading, files, Inv, MemoryTypeOK
    <2> QED
      BY <2>1, QuietCallInv DEF UnlockAndReturn, Steps, Inside
  <1> QED
    BY <1>1, <1>2

LEMMA LlseekInv == ASSUME Inv, NEW p \in Proc, LlseekSize(p) \/ LlseekMove(p) PROVE Inv'
  <1>1. CASE LlseekSize(p)
    <2>1. /\ pc[p] = "in" /\ Goto(p, "move") /\ UNCHANGED lock
          /\ UNCHANGED <<module, device, heap, opened, filp, k_buf, usr_count>>
          /\ DOMAIN call' = Proc /\ \A q \in Proc : q # p => call'[q] = call[q]
      BY <1>1 DEF LlseekSize, loading, files, Inv, MemoryTypeOK
    <2> QED
      BY <2>1, QuietCallInv DEF Steps, Inside
  <1>2. CASE LlseekMove(p)
    <2>1. /\ pc[p] = "move" /\ UnlockAndReturn(p)
          /\ UNCHANGED <<module, device, heap, opened, filp, k_buf, usr_count>>
          /\ DOMAIN call' = Proc /\ \A q \in Proc : q # p => call'[q] = call[q]
      BY <1>2 DEF LlseekMove, loading, files, Inv, MemoryTypeOK
    <2> QED
      BY <2>1, QuietCallInv DEF UnlockAndReturn, Steps, Inside
  <1> QED
    BY <1>1, <1>2

LEMMA IoctlInv == ASSUME Inv, NEW p \in Proc, IoctlFind(p) \/ IoctlSet(p) PROVE Inv'
  <1>1. CASE IoctlFind(p)
    <2>1. /\ pc[p] = "in" /\ UNCHANGED lock
          /\ Goto(p, "set") \/ Goto(p, "ret")
          /\ UNCHANGED <<module, device, heap, opened, filp, k_buf, usr_count>>
          /\ DOMAIN call' = Proc /\ \A q \in Proc : q # p => call'[q] = call[q]
      BY <1>1 DEF IoctlFind, loading, files, Inv, MemoryTypeOK
    <2> QED
      BY <2>1, QuietCallInv DEF Steps, Inside
  <1>2. CASE IoctlSet(p)
    <2>1. /\ pc[p] = "set" /\ UnlockAndReturn(p)
          /\ UNCHANGED <<module, device, heap, opened, filp, k_buf, usr_count>>
          /\ DOMAIN call' = Proc /\ \A q \in Proc : q # p => call'[q] = call[q]
      BY <1>2 DEF IoctlSet, loading, files, Inv, MemoryTypeOK
    <2> QED
      BY <2>1, QuietCallInv DEF UnlockAndReturn, Steps, Inside
  <1> QED
    BY <1>1, <1>2

LEMMA InterruptedInv == ASSUME Inv, NEW p \in Proc, Interrupted(p) PROVE Inv'
  BY QuietCallInv DEF Interrupted, loading, files, locals, Inv, MemoryTypeOK, Steps, Inside

LEMMA AcquireInv == ASSUME Inv, NEW p \in Proc, Acquire(p) PROVE Inv'
  <1>1. MemoryTypeOK'
    BY DEF Acquire, Goto, Inv, MemoryTypeOK, loading, device, files, locals, Steps
  <1>2. Sessions'
    BY DEF Acquire, Goto, Inv, MemoryTypeOK, Sessions, loading, files, locals
  <1>3. MutualExclusion'
    BY ExclusionKept DEF Acquire, Inv, Steps, Inside
  <1>4. NoDanglingPointers'
    BY GotoQuiet, QuietStep DEF Acquire, Inv, Steps, loading, files, locals
  <1> QED
    BY <1>1, <1>2, <1>3, <1>4 DEF Inv

LEMMA SyscallInv == ASSUME Inv, NEW p \in Proc, Syscall(p) PROVE Inv'
  <1>1. PICK f, op, arg :
            /\ f \in File
            /\ Enter(p, f, op, arg)
            /\ Goto(p, "lock") \/ Goto(p, "ret")
            /\ op = "write" => arg \in Payloads
    <2>1. PICK f \in File : SysRead(p, f) \/ SysWrite(p, f) \/ SysLlseek(p, f) \/ SysIoctl(p, f)
      BY DEF Syscall
    <2>s. "read" # "write" /\ "llseek" # "write" /\ "ioctl" # "write"
      OBVIOUS
    <2>2. CASE SysRead(p, f)
      BY <2>2, <2>s, Zenon DEF SysRead
    <2>3. CASE SysWrite(p, f)
      BY <2>3, Zenon DEF SysWrite
    <2>4. CASE SysLlseek(p, f)
      BY <2>4, <2>s, Zenon DEF SysLlseek
    <2>5. CASE SysIoctl(p, f)
      <3>1. PICK arg : Enter(p, f, "ioctl", arg) /\ (Goto(p, "lock") \/ Goto(p, "ret"))
        BY <2>5, Zenon DEF SysIoctl
      <3> QED
        BY <3>1, <2>s, Zenon
    <2> QED
      BY <2>1, <2>2, <2>3, <2>4, <2>5
  <1>2. call'[p].op = op /\ call'[p].arg = arg /\ DOMAIN call' = Proc
    BY <1>1 DEF Enter, NoCall, Inv, MemoryTypeOK
  <1>3. \A q \in Proc : q # p => call'[q] = call[q]
    BY <1>1 DEF Enter, Inv, MemoryTypeOK
  <1>4. MemoryTypeOK'
    BY <1>1, <1>2 DEF Enter, Goto, Inv, MemoryTypeOK, loading, device, files, Steps
  <1>5. Sessions'
    BY <1>1, <1>2, <1>3 DEF Enter, Goto, Inv, MemoryTypeOK, Sessions, loading, files
  <1>6. MutualExclusion'
    BY <1>1, ExclusionKept DEF Enter, Inv, Steps, Inside
  <1>7. NoDanglingPointers'
    BY <1>1, GotoQuiet, QuietStep DEF Enter, Inv, Steps, loading, files
  <1> QED
    BY <1>4, <1>5, <1>6, <1>7 DEF Inv

LEMMA ReturnInv == ASSUME Inv, NEW p \in Proc, Return(p) PROVE Inv'
  <1>1. MemoryTypeOK'
    BY DEF Return, Forgotten, Goto, Inv, MemoryTypeOK, loading, device, Steps
  <1>2. Sessions'
    BY DEF Return, Forgotten, Goto, Inv, MemoryTypeOK, Sessions, loading
  <1>3. MutualExclusion'
    BY ExclusionKept DEF Return, Inv, Steps, Inside
  <1>4. Storing' \subseteq Storing /\ Joined' = Joined /\ p \notin Storing'
    BY GotoQuiet DEF Return, Inv, Steps, Storing, Goto, MemoryTypeOK
  <1>5. \A q \in Storing' : k_buf'[q] = k_buf[q] /\ usr_count'[q] = usr_count[q]
    BY <1>4 DEF Return, Forgotten, Inv, MemoryTypeOK, Storing
  <1>6. NoDanglingPointers'
    BY <1>4, <1>5, MemoryKept DEF Return, Inv, loading
  <1> QED
    BY <1>1, <1>2, <1>3, <1>6 DEF Inv

LEMMA WriteOopsInv == ASSUME Inv, NEW p \in Proc, WriteOops(p) PROVE Inv'
  <1>1. MemoryTypeOK'
    BY DEF WriteOops, Forgotten, Goto, Inv, MemoryTypeOK, loading, device, files, Steps
  <1>2. Sessions'
    BY DEF WriteOops, Forgotten, Goto, Inv, MemoryTypeOK, Sessions, loading, files
  <1>3. MutualExclusion'
    BY ExclusionKept DEF WriteOops, Inv, Steps, Inside
  <1>4. Storing' \subseteq Storing /\ Joined' = Joined /\ p \notin Storing'
    BY GotoQuiet DEF WriteOops, Inv, Steps, Storing, Goto, MemoryTypeOK
  <1>5. \A q \in Storing' : k_buf'[q] = k_buf[q] /\ usr_count'[q] = usr_count[q]
    BY <1>4 DEF WriteOops, Forgotten, Inv, MemoryTypeOK, Storing
  <1>6. NoDanglingPointers'
    BY <1>4, <1>5, MemoryKept DEF WriteOops, Inv, loading
  <1> QED
    BY <1>1, <1>2, <1>3, <1>6 DEF Inv

LEMMA FilesInv == ASSUME Inv, NEW f \in File, Open(f) \/ Release(f) PROVE Inv'
  <1>1. UNCHANGED <<module, device, lock, heap, pc, locals>> /\ opened' \subseteq File
    BY DEF Open, Release, loading, Inv, MemoryTypeOK
  <1>2. MemoryTypeOK'
    BY <1>1 DEF Inv, MemoryTypeOK, device, locals
  <1>3. Sessions'
    BY <1>1 DEF Open, Release, Inv, Sessions, MemoryTypeOK, locals
  <1>4. MutualExclusion'
    BY <1>1 DEF Inv, MutualExclusion
  <1>5. Storing' = Storing /\ Joined' = Joined
    BY <1>1 DEF Storing, Joined
  <1>6. NoDanglingPointers'
    BY <1>1, <1>5, QuietStep DEF Inv, locals
  <1> QED
    BY <1>2, <1>3, <1>4, <1>6 DEF Inv
(* A call inside and about to store is the only one that owns memory. *)
LEMMA OneStoring ==
    ASSUME MutualExclusion, NEW p \in Proc, pc[p] \in Inside
    PROVE  Storing \subseteq {p}
  BY OneInside DEF Storing, Inside

(* While a call is inside, the module is loaded and its pointers are good. *)
LEMMA LoadedInside ==
    ASSUME Inv, NEW p \in Proc, pc[p] \in Inside
    PROVE  module = "loaded" /\ EntriesValid /\ PartialValid /\ CallsValid /\ NotShared
  BY DEF Inv, Sessions, NoDanglingPointers, Inside

LEMMA WriteAllocInv == ASSUME Inv, NEW p \in Proc, WriteAlloc(p) PROVE Inv'
  <1> DEFINE w == call[p].arg
  <1>1. /\ pc[p] = "in" /\ w \in Payloads
        /\ UNCHANGED <<module, device, opened, filp>>
    BY DEF WriteAlloc, Inv, Sessions, loading, files
  <1>2. CASE UnlockAndReturn(p) /\ UNCHANGED <<heap, k_buf, usr_count, call>>
    BY <1>1, <1>2, QuietCallInv DEF UnlockAndReturn, Steps, Inside, Inv, MemoryTypeOK
  <1>3. ASSUME NEW ptr \in FreePtrs, NEW n \in Copied(Len(w)),
               heap' = kmalloc(heap, ptr, copy_from_user(w, n)),
               k_buf' = [k_buf EXCEPT ![p] = ptr],
               usr_count' = [usr_count EXCEPT ![p] = n],
               call' = [call EXCEPT ![p].newline = copy_from_user(w, n)[Len(w)] = NL],
               Goto(p, "store"), UNCHANGED lock
        PROVE  Inv'
    <2>1. /\ copy_from_user(w, n) \in Seq(Bytes)
          /\ Len(copy_from_user(w, n)) = Len(w)
          /\ n \in Nat /\ n <= Len(w)
      BY <1>1, <1>3, CopyValue
    <2>2. ptr \in Ptr /\ heap[ptr].state = "free"
      BY <1>3 DEF FreePtrs
    <2>3. /\ heap' \in [Ptr -> Memory]
          /\ heap'[ptr] = [state |-> "allocated", bytes |-> copy_from_user(w, n)]
          /\ \A q \in Ptr \ {ptr} : heap'[q] = heap[q]
      BY <1>3, <2>1, <2>2, KmallocValue DEF Inv, MemoryTypeOK
    <2>4. DOMAIN call' = Proc /\ \A q \in Proc : q # p => call'[q] = call[q]
      BY <1>3 DEF Inv, MemoryTypeOK
    <2>5. MemoryTypeOK'
      BY <1>1, <1>3, <2>1, <2>2, <2>3, <2>4 DEF Inv, MemoryTypeOK, Goto, device, Steps
    <2>6. Sessions'
      BY <1>1, <1>3, <2>4, SessionsKept DEF Inv, Steps
    <2>7. MutualExclusion'
      BY <1>1, <1>3, ExclusionKept DEF Inv, Steps, Inside
    <2>8. Storing' = {p} /\ Joined' = {} /\ Joined = {}
      <3>1. Storing \subseteq {p} /\ p \notin Storing
        BY <1>1, OneStoring DEF Inv, Inside, Storing
      <3> QED
        BY <1>3, <3>1 DEF Storing, Joined, Goto, Inv, MemoryTypeOK
    <2>10. k_buf'[p] = ptr /\ usr_count'[p] = n /\ CallPtrs' = {ptr}
      BY <1>3, <2>8 DEF CallPtrs, Inv, MemoryTypeOK
    <2>11. UNCHANGED <<circular_buffer, buffer_entry>> /\ EntryPtrs' = EntryPtrs /\ PartialPtr' = PartialPtr
      BY <1>1, <2>8 DEF device, EntryPtrs, PartialPtr
    <2>12. EntriesValid /\ PartialValid /\ NotShared
      BY <1>1, LoadedInside DEF Inv, Inside
    <2>13. NoDanglingPointers'
      <3>1. ptr \notin EntryPtrs \cup PartialPtr
        BY <2>2, <2>8, <2>12 DEF EntryPtrs, PartialPtr, EntriesValid, PartialValid, Holds
      <3>2. \A i \in Slots : circular_buffer.entry[i].buffptr # NULL =>
                /\ circular_buffer.entry[i].buffptr \in Ptr \ {ptr}
                /\ heap'[circular_buffer.entry[i].buffptr] = heap[circular_buffer.entry[i].buffptr]
        BY <2>3, <3>1 DEF EntryPtrs, Inv, MemoryTypeOK, Entry
      <3>3. buffer_entry.buffptr # NULL => heap'[buffer_entry.buffptr] = heap[buffer_entry.buffptr]
        BY <2>3, <2>8, <3>1 DEF PartialPtr, Inv, MemoryTypeOK, Entry
      <3>4. ptr # NULL /\ n <= Len(heap'[ptr].bytes) /\ heap'[ptr].state = "allocated"
        BY <2>1, <2>2, <2>3, PtrAssumption
      <3>5. EntriesValid'
        BY <2>11, <2>12, <3>2 DEF EntriesValid, Holds
      <3>6. PartialValid'
        BY <2>8, <2>11, <2>12, <3>3 DEF PartialValid, Holds
      <3>7. CallsValid'
        BY <2>8, <2>10, <3>4 DEF CallsValid, Holds
      <3>8. NotShared'
        BY <2>10, <2>11, <2>12, <3>1 DEF NotShared
      <3> QED
        BY <3>5, <3>6, <3>7, <3>8 DEF NoDanglingPointers
    <2> QED
      BY <2>5, <2>6, <2>7, <2>13 DEF Inv
  <1> QED
    BY <1>2, <1>3 DEF WriteAlloc

(* What joining the unfinished line with the call's bytes does to memory:  *)
(* temp_buf is new, and the two buffers it replaces are freed.             *)
LEMMA JoinMemory ==
    ASSUME Inv, NEW p \in Proc, pc[p] = "store", buffer_entry.size # 0,
           NEW temp_buf \in FreePtrs,
           heap' = kfree(kfree(kmalloc(heap, temp_buf, JoinedBytes(p)),
                               buffer_entry.buffptr), k_buf[p])
    PROVE  LET B == buffer_entry.buffptr
               K == k_buf[p]
           IN  /\ temp_buf \in Ptr /\ heap[temp_buf].state = "free" /\ temp_buf # NULL
               /\ K # B /\ K \notin EntryPtrs /\ B \notin EntryPtrs /\ temp_buf \notin EntryPtrs
               /\ JoinedBytes(p) \in Seq(Bytes)
               /\ Len(JoinedBytes(p)) = buffer_entry.size + usr_count[p]
               /\ heap' \in [Ptr -> Memory]
               /\ heap'[temp_buf] = [state |-> "allocated", bytes |-> JoinedBytes(p)]
               /\ \A q \in Ptr \ {temp_buf, B, K} : heap'[q] = heap[q]
               /\ B \in Ptr /\ K \in Ptr
               /\ heap'[B].state # "allocated" /\ heap'[K].state # "allocated"
  <1> DEFINE B == buffer_entry.buffptr
             K == k_buf[p]
  <1>1. MemoryTypeOK /\ MutualExclusion
    BY DEF Inv
  <1>2. EntriesValid /\ PartialValid /\ CallsValid /\ NotShared
    BY LoadedInside DEF Inside
  <1>3. Storing = {p} /\ Joined = {}
    <2>1. Storing = {p}
      BY <1>1, OneStoring DEF Storing, Inside
    <2>2. \A q \in Proc : q # p => pc[q] \notin {"store", "populate"}
      BY <2>1 DEF Storing
    <2> QED
      BY <2>1, <2>2 DEF Joined
  <1>4. temp_buf \in Ptr /\ heap[temp_buf].state = "free" /\ temp_buf # NULL
    BY PtrAssumption DEF FreePtrs
  <1>5. B \in Ptr /\ K \in Ptr /\ heap[B].state = "allocated" /\ heap[K].state = "allocated"
    BY <1>1, <1>2, <1>3 DEF PartialValid, CallsValid, Holds, MemoryTypeOK, Entry
  <1>6. K # B /\ K \notin EntryPtrs /\ B \notin EntryPtrs /\ temp_buf \notin EntryPtrs
    <2>1. K \in CallPtrs /\ B \in PartialPtr
      BY <1>3, <1>5, PtrAssumption DEF CallPtrs, PartialPtr
    <2>2. temp_buf \notin EntryPtrs
      BY <1>2, <1>4 DEF EntryPtrs, EntriesValid, Holds
    <2> QED
      BY <1>2, <2>1, <2>2 DEF NotShared
  <1>7. JoinedBytes(p) \in Seq(Bytes) /\ Len(JoinedBytes(p)) = buffer_entry.size + usr_count[p]
    BY <1>1, JoinedValue
  <1>8. /\ heap' \in [Ptr -> Memory]
        /\ heap'[temp_buf] = [state |-> "allocated", bytes |-> JoinedBytes(p)]
        /\ \A q \in Ptr \ {temp_buf, B, K} : heap'[q] = heap[q]
        /\ heap'[B].state # "allocated" /\ heap'[K].state # "allocated"
    <2> DEFINE h1 == kmalloc(heap, temp_buf, JoinedBytes(p))
               h2 == kfree(h1, B)
    <2>1. /\ h1 \in [Ptr -> Memory]
          /\ h1[temp_buf] = [state |-> "allocated", bytes |-> JoinedBytes(p)]
          /\ \A q \in Ptr \ {temp_buf} : h1[q] = heap[q]
      <3>1. heap \in [Ptr -> Memory]
        BY <1>1 DEF MemoryTypeOK
      <3> QED
        BY <1>4, <1>7, <3>1, KmallocValue
    <2> HIDE DEF h1
    <2>2. /\ h2 \in [Ptr -> Memory] /\ \A q \in Ptr \ {B} : h2[q] = h1[q]
          /\ h2[B].state # "allocated"
      BY <1>5, <2>1, KfreeValue, PtrAssumption
    <2> HIDE DEF h2
    <2>3. /\ kfree(h2, K) \in [Ptr -> Memory] /\ \A q \in Ptr \ {K} : kfree(h2, K)[q] = h2[q]
          /\ kfree(h2, K)[K].state # "allocated"
      BY <1>5, <2>2, KfreeValue, PtrAssumption
    <2>4. heap' = kfree(h2, K)
      BY DEF h1, h2
    <2>5. temp_buf # B /\ temp_buf # K
      BY <1>4, <1>5
    <2> QED
      BY <1>4, <1>5, <1>6, <2>1, <2>2, <2>3, <2>4, <2>5
  <1> QED
    BY <1>4, <1>5, <1>6, <1>7, <1>8

LEMMA WriteJoinInv == ASSUME Inv, NEW p \in Proc, WriteJoin(p) PROVE Inv'
  <1>1. /\ pc[p] = "store" /\ buffer_entry.size # 0
        /\ UNCHANGED <<module, device, opened, filp, usr_count, call>>
    BY DEF WriteJoin, loading, files
  <1>2. CASE UnlockAndReturn(p) /\ UNCHANGED <<heap, k_buf>>
    BY <1>1, <1>2, QuietCallInv DEF UnlockAndReturn, Steps, Inside, Inv, MemoryTypeOK
  <1>3. ASSUME NEW temp_buf \in FreePtrs,
               heap' = kfree(kfree(kmalloc(heap, temp_buf, JoinedBytes(p)),
                                   buffer_entry.buffptr), k_buf[p]),
               k_buf' = [k_buf EXCEPT ![p] = temp_buf],
               Goto(p, "populate"), UNCHANGED lock
        PROVE  Inv'
    <2> DEFINE B == buffer_entry.buffptr
               K == k_buf[p]
    <2>1. MemoryTypeOK /\ MutualExclusion /\ Sessions
      BY DEF Inv
    <2>2. EntriesValid /\ PartialValid /\ CallsValid /\ NotShared
      BY <1>1, LoadedInside DEF Inside
    <2>3. Storing = {p} /\ Joined = {} /\ Storing' = {p} /\ Joined' = {p}
      <3>1. Storing = {p}
        BY <1>1, <2>1, OneStoring DEF Storing, Inside
      <3>2. \A q \in Proc : pc'[q] = IF q = p THEN "populate" ELSE pc[q]
        BY <1>3, <2>1 DEF Goto, MemoryTypeOK
      <3>3. \A q \in Proc : q # p => pc[q] \notin {"store", "populate"}
        BY <3>1 DEF Storing
      <3> QED
        BY <1>1, <3>1, <3>2, <3>3 DEF Storing, Joined
    <2>4. /\ temp_buf \in Ptr /\ heap[temp_buf].state = "free" /\ temp_buf # NULL
          /\ K # B /\ K \notin EntryPtrs /\ B \notin EntryPtrs /\ temp_buf \notin EntryPtrs
          /\ JoinedBytes(p) \in Seq(Bytes)
          /\ Len(JoinedBytes(p)) = buffer_entry.size + usr_count[p]
          /\ heap' \in [Ptr -> Memory]
          /\ heap'[temp_buf] = [state |-> "allocated", bytes |-> JoinedBytes(p)]
          /\ \A q \in Ptr \ {temp_buf, B, K} : heap'[q] = heap[q]
      BY <1>1, <1>3, JoinMemory
    <2>5. MemoryTypeOK'
      BY <1>1, <1>3, <2>1, <2>4 DEF MemoryTypeOK, Goto, device, Steps
    <2>6. Sessions'
      BY <1>1, <1>3, <2>1, SessionsKept DEF Steps
    <2>7. MutualExclusion'
      BY <1>1, <1>3, <2>1, ExclusionKept DEF Steps, Inside
    <2>8. /\ UNCHANGED <<circular_buffer, buffer_entry>>
           /\ EntryPtrs' = EntryPtrs /\ PartialPtr' = {}
           /\ k_buf'[p] = temp_buf /\ usr_count'[p] = usr_count[p] /\ CallPtrs' = {temp_buf}
      BY <1>1, <1>3, <2>1, <2>3 DEF device, EntryPtrs, PartialPtr, CallPtrs, MemoryTypeOK
    <2>9. \A i \in Slots : circular_buffer.entry[i].buffptr # NULL =>
               heap'[circular_buffer.entry[i].buffptr] = heap[circular_buffer.entry[i].buffptr]
      BY <2>1, <2>4 DEF EntryPtrs, MemoryTypeOK, Entry
    <2>10. EntriesValid'
      BY <2>2, <2>8, <2>9 DEF EntriesValid, Holds
    <2>11. PartialValid'
      BY <2>2, <2>3, <2>8 DEF PartialValid
    <2>12. CallsValid'
      <3>1. buffer_entry.size + usr_count[p] <= Len(JoinedBytes(p))
        BY <2>1, <2>4 DEF MemoryTypeOK, Entry
      <3> QED
        BY <2>3, <2>4, <2>8, <3>1 DEF CallsValid, Holds
    <2>13. NotShared'
      BY <2>2, <2>4, <2>8 DEF NotShared
    <2> QED
      BY <2>5, <2>6, <2>7, <2>10, <2>11, <2>12, <2>13 DEF Inv, NoDanglingPointers
  <1> QED
    BY <1>2, <1>3 DEF WriteJoin

LEMMA WriteStoreInv == ASSUME Inv, NEW p \in Proc, WriteStore(p) PROVE Inv'
  <1> DEFINE K == k_buf[p]
             size == buffer_entry.size + usr_count[p]
             entry == [buffptr |-> K, size |-> size]
  <1>1. /\ pc[p] \in {"store", "populate"}
        /\ pc[p] = "store" => buffer_entry.size = 0
        /\ UnlockAndReturn(p)
        /\ UNCHANGED <<module, opened, filp, k_buf, usr_count>>
        /\ \/ Commit(entry)
           \/ buffer_entry' = entry /\ UNCHANGED <<circular_buffer, heap>>
    BY DEF WriteStore, loading, files
  <1>2. MemoryTypeOK /\ MutualExclusion /\ Sessions
    BY DEF Inv
  <1>3. EntriesValid /\ CallsValid /\ NotShared
    BY <1>1, LoadedInside DEF Inside
  <1>4. Storing = {p} /\ Storing' = {} /\ Joined' = {}
    <2>1. Storing = {p}
      BY <1>1, <1>2, OneStoring DEF Storing, Inside
    <2>2. \A q \in Proc : pc'[q] = IF q = p THEN "ret" ELSE pc[q]
      BY <1>1, <1>2 DEF UnlockAndReturn, Goto, MemoryTypeOK
    <2>3. \A q \in Proc : q # p => pc[q] \notin {"store", "populate"}
      BY <2>1 DEF Storing
    <2> QED
      BY <2>1, <2>2, <2>3 DEF Storing, Joined
  <1>5. size \in Nat /\ K \in Ptr /\ heap[K].state = "allocated" /\ size <= Len(heap[K].bytes)
    <2>1. K \in Ptr /\ K # NULL /\ heap[K].state = "allocated"
      BY <1>2, <1>3, <1>4 DEF CallsValid, Holds, MemoryTypeOK
    <2>2. buffer_entry.size \in Nat /\ usr_count[p] \in Nat
      BY <1>2 DEF MemoryTypeOK, Entry
    <2>3. size <= Len(heap[K].bytes)
      BY <1>1, <1>3, <1>4, <2>2 DEF CallsValid, Holds, Joined
    <2> QED
      BY <2>1, <2>2, <2>3
  <1>6. entry \in Entry /\ entry.buffptr = K /\ entry.size = size /\ K # NULL
    BY <1>5, PtrAssumption DEF Entry
  <1>7. K \notin EntryPtrs
    BY <1>3, <1>4 DEF NotShared, CallPtrs
  <1>8. DOMAIN call' = Proc /\ \A q \in Proc : q # p => call'[q] = call[q]
    BY <1>2 DEF WriteStore, MemoryTypeOK
  <1>9. Sessions' /\ MutualExclusion'
    <2>1. Sessions'
      BY <1>1, <1>2, <1>8, SessionsKept DEF UnlockAndReturn, Steps
    <2>2. MutualExclusion'
      BY <1>1, <1>2, ExclusionKept DEF UnlockAndReturn, Steps, Inside
    <2> QED
      BY <2>1, <2>2
  <1>10. CallPtrs' = {} /\ CallsValid'
    BY <1>4 DEF CallPtrs, CallsValid
  <1> HIDE DEF K, size, entry
  <1>11. CASE buffer_entry' = entry /\ UNCHANGED <<circular_buffer, heap>>
    <2>1. MemoryTypeOK'
      BY <1>1, <1>2, <1>6, <1>8, <1>11 DEF UnlockAndReturn, Goto, MemoryTypeOK, Steps
    <2>2. PartialPtr' = {K} /\ EntryPtrs' = EntryPtrs
      BY <1>4, <1>6, <1>11 DEF PartialPtr, EntryPtrs
    <2>3. EntriesValid'
      BY <1>3, <1>11 DEF EntriesValid, Holds
    <2>4. PartialValid'
      BY <1>5, <1>6, <1>11 DEF PartialValid, Holds
    <2>5. NotShared'
      BY <1>3, <1>7, <1>10, <1>11, <2>2 DEF NotShared
    <2> QED
      BY <1>9, <1>10, <2>1, <2>3, <2>4, <2>5 DEF Inv, NoDanglingPointers
  <1>12. CASE Commit(entry)
    <2> DEFINE in == circular_buffer.in_offs
               R == ptr_return(circular_buffer)
    <2>1. /\ in \in Slots /\ circular_buffer.entry \in [Slots -> Entry]
          /\ circular_buffer.out_offs \in Slots /\ circular_buffer.full \in BOOLEAN
      BY <1>2 DEF MemoryTypeOK
    <2>2. R = NULL \/ R = circular_buffer.entry[in].buffptr
      BY DEF ptr_return
    <2>3. R \in Ptr \cup {NULL} /\ R # K
      BY <1>6, <1>7, <2>1, <2>2 DEF EntryPtrs, Entry
    <2>4. heap' \in [Ptr -> Memory] /\ \A q \in Ptr \ {R} : heap'[q] = heap[q]
      <3>1. heap' = kfree(heap, R) /\ heap \in [Ptr -> Memory]
        BY <1>2, <1>12 DEF Commit, MemoryTypeOK
      <3> HIDE DEF R
      <3> QED
        BY <2>3, <3>1, KfreeValue
    <2>5. /\ circular_buffer'.entry = [circular_buffer.entry EXCEPT ![in] = entry]
          /\ buffer_entry' = EmptyEntry
      BY <1>12 DEF Commit, aesd_circular_buffer_add_entry
    <2>6. circular_buffer' \in [entry : [Slots -> Entry], in_offs : Slots,
                                out_offs : Slots, full : BOOLEAN]
      <3>1. \A i \in Slots : Wrap(i, 1) \in Slots
        BY NAssumption, SMT DEF Wrap, Slots
      <3> QED
        BY <1>6, <1>12, <2>1, <3>1 DEF Commit, aesd_circular_buffer_add_entry
    <2>7. MemoryTypeOK'
      BY <1>1, <1>2, <1>8, <2>4, <2>5, <2>6
      DEF UnlockAndReturn, Goto, MemoryTypeOK, Steps, EmptyEntry, Entry
    <2> HIDE DEF R, in
    <2>8. \A i \in Slots : circular_buffer'.entry[i] = IF i = in THEN entry ELSE circular_buffer.entry[i]
      BY <2>1, <2>5
    <2>9. ASSUME NEW i \in Slots, i # in, circular_buffer.entry[i].buffptr # NULL
          PROVE  /\ circular_buffer.entry[i].buffptr \in Ptr \ {R}
                 /\ circular_buffer.entry[i].buffptr # K
      <3>1. circular_buffer.entry[i].buffptr \in EntryPtrs \cap Ptr
        BY <2>1, <2>9 DEF EntryPtrs, Entry
      <3>2. circular_buffer.entry[i].buffptr # R
        BY <1>3, <2>1, <2>2, <2>9 DEF NotShared
      <3> QED
        BY <1>7, <3>1, <3>2
    <2>10. EntriesValid'
      <3>1. ASSUME NEW i \in Slots
            PROVE  LET e == circular_buffer'.entry[i]
                   IN  /\ e.buffptr = NULL => e.size = 0
                       /\ e.buffptr # NULL => /\ heap'[e.buffptr].state = "allocated"
                                              /\ e.size <= Len(heap'[e.buffptr].bytes)
        <4>1. CASE i = in
          BY <1>5, <1>6, <2>3, <2>4, <2>8, <4>1
        <4>2. CASE i # in
          BY <1>3, <2>4, <2>8, <2>9, <4>2 DEF EntriesValid, Holds
        <4> QED
          BY <4>1, <4>2
      <3> QED
        BY <3>1 DEF EntriesValid, Holds
    <2>11. PartialValid' /\ PartialPtr' = {}
      BY <2>5 DEF PartialValid, PartialPtr, EmptyEntry
    <2>12. NotShared'
      <3>1. ASSUME NEW i \in Slots, NEW j \in Slots, i # j,
                   circular_buffer'.entry[i].buffptr = circular_buffer'.entry[j].buffptr
            PROVE  circular_buffer'.entry[i].buffptr = NULL
        BY <1>3, <1>6, <2>8, <2>9, <3>1 DEF NotShared
      <3> QED
        BY <1>10, <2>11, <3>1 DEF NotShared
    <2> QED
      BY <1>9, <1>10, <2>7, <2>10, <2>11, <2>12 DEF Inv, NoDanglingPointers
  <1> QED
    BY <1>1, <1>11, <1>12

(* Nobody is inside the driver while the module is not loaded. *)
LEMMA NobodyInside ==
    ASSUME Inv, opened = {}
    PROVE  Storing = {} /\ Joined = {} /\ \A p \in Proc : pc[p] \notin Inside
  BY DEF Inv, Sessions, Storing, Joined, Inside

LEMMA LoaderInv == ASSUME Inv, Loader PROVE Inv'
  <1>1. UNCHANGED <<pc, opened, filp, k_buf, usr_count, call>>
    BY DEF Loader, InitModule, SetupCdev, CleanupModule, CleanupInterrupted, CleanupFree,
           files, locals
  <1>2. opened = {}
    BY DEF Loader, InitModule, SetupCdev, CleanupModule, CleanupInterrupted, CleanupFree,
           Inv, Sessions
  <1>3. Storing' = {} /\ Joined' = {} /\ \A p \in Proc : pc'[p] \notin Inside
    BY <1>1, <1>2, NobodyInside DEF Storing, Joined
  <1>4. Sessions' /\ MutualExclusion'
    BY <1>1, <1>2, <1>3 DEF Inv, Sessions, MutualExclusion
  <1>5. CASE InitModule
    <2>1. MemoryTypeOK'
      <3>1. 0 \in Slots /\ EmptyEntry \in Entry
        BY NAssumption DEF Slots, EmptyEntry, Entry
      <3>2. aesd_circular_buffer_init \in
                [entry : [Slots -> Entry], in_offs : Slots, out_offs : Slots, full : BOOLEAN]
        BY <3>1 DEF aesd_circular_buffer_init
      <3> QED
        BY <1>1, <1>5, <3>1, <3>2 DEF InitModule, Inv, MemoryTypeOK
    <2>2. /\ EntryPtrs' = {} /\ PartialPtr' = {} /\ CallPtrs' = {}
          /\ EntriesValid' /\ PartialValid' /\ CallsValid'
      BY <1>3, <1>5
      DEF InitModule, aesd_circular_buffer_init, EmptyEntry, EntryPtrs, PartialPtr, CallPtrs,
          EntriesValid, PartialValid, CallsValid
    <2>3. NotShared'
      BY <1>5, <2>2 DEF InitModule, aesd_circular_buffer_init, EmptyEntry, NotShared
    <2> QED
      BY <1>4, <2>1, <2>2, <2>3 DEF Inv, NoDanglingPointers
  <1>6. CASE SetupCdev \/ CleanupModule \/ CleanupInterrupted
    <2>1. /\ UNCHANGED <<device, lock, heap>>
          /\ module' \in {"unloaded", "starting", "loaded", "exiting"}
          /\ module' # "unloaded" => module # "unloaded"
      BY <1>6 DEF SetupCdev, CleanupModule, CleanupInterrupted
    <2>2. MemoryTypeOK'
      BY <1>1, <2>1 DEF Inv, MemoryTypeOK, device
    <2>3. NoDanglingPointers'
      BY <1>1, <1>2, <1>3, <2>1, NobodyInside, QuietStep DEF Inv
    <2> QED
      BY <1>4, <2>2, <2>3 DEF Inv
  <1>7. CASE CleanupFree
    <2> DEFINE ptr == buffer_entry.buffptr
    <2>1. ptr \in Ptr \cup {NULL} /\ heap \in [Ptr -> Memory]
      BY DEF Inv, MemoryTypeOK, Entry
    <2>2. heap' = kfree(heap, ptr) \/ heap' = kfree(kfree(heap, ptr), ptr)
      BY <1>7 DEF CleanupFree
    <2> HIDE DEF ptr
    <2>3. heap' \in [Ptr -> Memory]
      BY <2>1, <2>2, KfreeValue
    <2>4. UNCHANGED <<device, lock>> /\ module' = "unloaded"
      BY <1>7 DEF CleanupFree
    <2>5. MemoryTypeOK'
      BY <1>1, <2>3, <2>4 DEF Inv, MemoryTypeOK, device
    <2> QED
      BY <1>4, <2>4, <2>5 DEF Inv, NoDanglingPointers
  <1> QED
    BY <1>5, <1>6, <1>7 DEF Loader
-----------------------------------------------------------------------------
LEMMA NextInv == Inv /\ [Next]_vars => Inv'
  <1> SUFFICES ASSUME Inv, [Next]_vars PROVE Inv'
    OBVIOUS
  <1>1. CASE UNCHANGED vars
    <2>1. UNCHANGED <<module, device, lock, heap, opened, pc, locals>>
      BY <1>1 DEF vars, loading, files
    <2>2. Storing' = Storing /\ Joined' = Joined
      BY <2>1 DEF Storing, Joined
    <2>3. NoDanglingPointers'
      BY <2>1, <2>2, QuietStep DEF Inv, locals
    <2>4. MemoryTypeOK' /\ Sessions' /\ MutualExclusion'
      BY <2>1 DEF Inv, MemoryTypeOK, Sessions, MutualExclusion, device, locals
    <2> QED
      BY <2>3, <2>4 DEF Inv
  <1>2. CASE Loader
    BY <1>2, LoaderInv
  <1>3. CASE \E f \in File : Open(f) \/ Release(f)
    BY <1>3, FilesInv
  <1>4. ASSUME NEW p \in Proc, Body(p)
        PROVE  Inv'
    BY <1>4, ReadInv, WriteAllocInv, WriteOopsInv, WriteJoinInv, WriteStoreInv,
       LlseekInv, IoctlInv DEF Body
  <1>5. ASSUME NEW p \in Proc, Syscall(p) \/ Acquire(p) \/ Interrupted(p) \/ Return(p)
        PROVE  Inv'
    BY <1>5, SyscallInv, AcquireInv, InterruptedInv, ReturnInv
  <1> QED
    BY <1>1, <1>2, <1>3, <1>4, <1>5 DEF Next

(* The invariant of the driver. *)
LEMMA Invariant == Spec => []Inv
  BY InitInv, NextInv, PTL DEF Spec

(* The driver's state keeps its types, with any number of processes. *)
THEOREM MemoryTyped == Spec => []MemoryTypeOK
  BY Invariant, PTL DEF Inv

(* No two calls are ever between their mutex_lock_interruptible and their  *)
(* mutex_unlock, whichever lock a failed ioctl or an oops leaves held, and *)
(* however often the module is loaded again.                               *)
THEOREM CallsExclude == Spec => []MutualExclusion
  BY Invariant, PTL DEF Inv

(* However writes, joins, evictions, failures and reloads interleave, the  *)
(* driver never keeps a pointer to memory that it freed or that is too     *)
(* small, nor two pointers to the same memory.                             *)
THEOREM PointersValid == Spec => []NoDanglingPointers
  BY Invariant, PTL DEF Inv
-----------------------------------------------------------------------------
(* The log. *)

(* The entry of a complete line: it has memory, and at least the newline. *)
Line == [buffptr : Ptr, size : Nat \ {0}]

(* What aesd_unlocked_ioctl passes on. *)
IoctlArgs ==
    {[write_cmd |-> (s.write_cmd % 256) + 256 * junk, write_cmd_offset |-> junk, user |-> s] :
        s \in SeekTos, junk \in Junk}

Call ==
    [op : {"none", "read", "write", "llseek", "ioctl"},
     arg : {NULL} \cup Counts \cup Payloads \cup Seeks \cup IoctlArgs,
     pos : Nat, from : Ptr \cup {NULL}, off : Nat, num : Nat,
     newline : BOOLEAN, ok : BOOLEAN, data : Seq(Bytes)]

(* A call that has not returned yet has its arguments and no result. *)
Pending(c) ==
    /\ ~c.ok /\ c.data = <<>>
    /\ \/ c.op = "read"   /\ c.arg \in Counts
       \/ c.op = "write"  /\ c.arg \in Payloads
       \/ c.op = "llseek" /\ c.arg \in Seeks
       \/ c.op = "ioctl"  /\ c.arg \in IoctlArgs

(* A read has found the entry of buffer b that its position falls into. *)
Found(c, b) ==
    LET L == OldestFirst(b)
        B == BytesBefore(b)
    IN  /\ c.op = "read"
        /\ \E k \in 1..Len(L) : /\ B[k-1] <= c.pos /\ c.pos < B[k]
                                /\ c.from = L[k].buffptr
                                /\ c.off = c.pos - B[k-1]
                                /\ c.num = bytes_to_copy(L[k].size - c.off, c.arg)

(* A write has copied the first n bytes of the user's to offset at of the  *)
(* memory, and knows whether they end a line.                              *)
Taken(c, n, bytes, at) ==
    /\ c.op = "write"
    /\ c.arg # <<>>
    /\ n <= Len(c.arg)
    /\ c.newline <=> n = Len(c.arg) /\ c.arg[n] = NL
    /\ \A i \in 1..n : bytes[at + i] = c.arg[i]

(* A seek has computed the size of buffer b, or the position in it. *)
Sized(c, b)  == c.op = "llseek" /\ c.num = BytesBefore(b)[N]
Placed(c, b) ==
    LET k == (c.arg.write_cmd \div 16) % 16
    IN  c.op = "ioctl" /\ k < N /\ c.num = BytesBefore(b)[k] + (c.arg.write_cmd % 16)

(* What the call of p has done so far is still true of the device. *)
CallOK(p) ==
    /\ call[p] \in Call
    /\ pc[p] \in Inside \cup {"lock"} => Pending(call[p])
    /\ pc[p] = "copy" => Found(call[p], circular_buffer)
    /\ pc[p] = "store" => Taken(call[p], usr_count[p], heap[k_buf[p]].bytes, 0)
    /\ pc[p] = "populate" => Taken(call[p], usr_count[p], heap[k_buf[p]].bytes, buffer_entry.size)
    /\ pc[p] = "move" => Sized(call[p], circular_buffer)
    /\ pc[p] = "set" => Placed(call[p], circular_buffer)

Numbers ==
    /\ regions \in Nat
    /\ module # "unloaded" => regions # 0
    /\ loads \in 0..MaxLoads
    /\ f_pos \in [File -> Nat]

LogInv ==
    /\ Inv
    /\ Numbers
    /\ WellFormed(circular_buffer, Line)
    /\ \A p \in Proc : CallOK(p)

LEMMA LineIsUsed == EmptyEntry \notin Line /\ \A e \in Line : e.size \in Nat \ {0}
  BY DEF EmptyEntry, Line

(* The positions the scans count are natural numbers. *)
LEMMA PositionsNat ==
    ASSUME WellFormed(circular_buffer, Line), NEW k \in 0..N
    PROVE  BytesBefore(circular_buffer)[k] \in Nat
  <1>1. Sums(BytesBefore(circular_buffer), Sizes(circular_buffer), N)
    BY LineIsUsed, Positions
  <1> QED
    BY <1>1 DEF Sums

(* What one call knows is not disturbed by the step of another: a step     *)
(* that is not inside changes nothing that is shared, and when a step is   *)
(* inside no other call is.                                                *)
LEMMA OthersKept ==
    ASSUME LogInv, NEW p \in Proc,
           \A q \in Proc : q # p => /\ pc'[q] = pc[q] /\ call'[q] = call[q]
                                    /\ k_buf'[q] = k_buf[q] /\ usr_count'[q] = usr_count[q],
           pc[p] \in Inside \/ UNCHANGED <<circular_buffer, buffer_entry, heap>>
    PROVE  \A q \in Proc : q # p => CallOK(q)'
  <1> SUFFICES ASSUME NEW q \in Proc, q # p PROVE CallOK(q)'
    OBVIOUS
  <1>1. CallOK(q)
    BY DEF LogInv
  <1>2. CASE UNCHANGED <<circular_buffer, buffer_entry, heap>>
    BY <1>1, <1>2 DEF CallOK
  <1>3. CASE pc[p] \in Inside
    <2>1. pc[q] \notin Inside
      BY <1>3, OneInside DEF LogInv, Inv
    <2> QED
      BY <1>1, <2>1 DEF CallOK, Inside
  <1> QED
    BY <1>2, <1>3

(* A step of p, with what is left to show. *)
LEMMA StepKeeps ==
    ASSUME LogInv, Inv', NEW p \in Proc,
           \A q \in Proc : q # p => /\ pc'[q] = pc[q] /\ call'[q] = call[q]
                                    /\ k_buf'[q] = k_buf[q] /\ usr_count'[q] = usr_count[q],
           pc[p] \in Inside \/ UNCHANGED <<circular_buffer, buffer_entry, heap>>,
           UNCHANGED <<module, regions, loads>>, f_pos' \in [File -> Nat],
           WellFormed(circular_buffer', Line), CallOK(p)'
    PROVE  LogInv'
  <1>1. \A q \in Proc : CallOK(q)'
    BY OthersKept
  <1>2. Numbers'
    BY DEF LogInv, Numbers
  <1> QED
    BY <1>1, <1>2 DEF LogInv

(* Where the control of a step of p goes. *)
LEMMA GotoValue ==
    ASSUME Inv, NEW p \in Proc, NEW l, Goto(p, l)
    PROVE  pc'[p] = l /\ \A q \in Proc : q # p => pc'[q] = pc[q]
  BY DEF Goto, Inv, MemoryTypeOK
-----------------------------------------------------------------------------
LEMMA InitLog == Init => LogInv
  <1> SUFFICES ASSUME Init PROVE LogInv
    OBVIOUS
  <1>1. Inv
    BY InitInv
  <1>2. Numbers
    BY BoundAssumption DEF Init, Numbers
  <1>3. WellFormed(circular_buffer, Line)
    BY LineIsUsed, InitWellFormed DEF Init
  <1>4. NoCall \in Call
    <2>1. <<>> \in Seq(Bytes)
      OBVIOUS
    <2> QED
      BY <2>1 DEF NoCall, Call
  <1>5. ASSUME NEW p \in Proc
        PROVE  CallOK(p)
    BY <1>4 DEF Init, CallOK, Inside
  <1> QED
    BY <1>1, <1>2, <1>3, <1>5 DEF LogInv

LEMMA SyscallLog == ASSUME LogInv, NEW p \in Proc, Syscall(p) PROVE LogInv'
  <1>1. PICK f, op, arg :
            /\ f \in File
            /\ Enter(p, f, op, arg)
            /\ Goto(p, "lock") \/ Goto(p, "ret")
            /\ \/ op = "read"   /\ arg \in Counts
               \/ op = "write"  /\ arg \in Payloads
               \/ op = "llseek" /\ arg \in Seeks
               \/ op = "ioctl"  /\ arg \in IoctlArgs
    <2>1. PICK f \in File : SysRead(p, f) \/ SysWrite(p, f) \/ SysLlseek(p, f) \/ SysIoctl(p, f)
      BY DEF Syscall
    <2>2. CASE SysRead(p, f)
      BY <2>2, Zenon DEF SysRead
    <2>3. CASE SysWrite(p, f)
      BY <2>3, Zenon DEF SysWrite
    <2>4. CASE SysLlseek(p, f)
      BY <2>4, Zenon DEF SysLlseek
    <2>5. CASE SysIoctl(p, f)
      <3> DEFINE A(s, junk) == [write_cmd |-> (s.write_cmd % 256) + 256 * junk,
                                write_cmd_offset |-> junk, user |-> s]
      <3>1. \A s \in SeekTos, junk \in Junk : A(s, junk) \in IoctlArgs
        BY DEF IoctlArgs
      <3>2. \E s \in SeekTos, junk \in Junk :
                Enter(p, f, "ioctl", A(s, junk)) /\ (Goto(p, "lock") \/ Goto(p, "ret"))
        BY <2>5, ZenonT(30) DEF SysIoctl
      <3> HIDE DEF A
      <3> QED
        BY <3>1, <3>2, Zenon
    <2> QED
      BY <2>1, <2>2, <2>3, <2>4, <2>5
  <1>2. f_pos \in [File -> Nat]
    BY DEF LogInv, Numbers
  <1>3. DOMAIN call = Proc
    BY DEF LogInv, Inv, MemoryTypeOK
  <1>4. call'[p] = [op |-> op, arg |-> arg, pos |-> f_pos[f],
                    from |-> NULL, off |-> 0, num |-> 0, newline |-> FALSE,
                    ok |-> FALSE, data |-> <<>>]
    <2>1. call'[p] = [NoCall EXCEPT !.op = op, !.arg = arg, !.pos = f_pos[f]]
      BY <1>1, <1>3 DEF Enter
    <2> QED
      BY <2>1 DEF NoCall
  <1>5. \A q \in Proc : q # p => call'[q] = call[q]
    BY <1>1, <1>3 DEF Enter
  <1>6. Inv'
    BY SyscallInv DEF LogInv
  <1>7. call'[p] \in Call /\ Pending(call'[p])
    <2>1. <<>> \in Seq(Bytes) /\ f_pos[f] \in Nat
      BY <1>1, <1>2
    <2> QED
      BY <1>1, <1>4, <2>1 DEF Call, Pending
  <1>8. UNCHANGED <<module, regions, loads, circular_buffer, buffer_entry, heap, f_pos, k_buf, usr_count>>
    BY <1>1 DEF Enter, loading, device, files
  <1>9. /\ pc'[p] \in {"lock", "ret"}
        /\ \A q \in Proc : q # p => pc'[q] = pc[q]
    BY <1>1, GotoValue DEF LogInv
  <1>10. CallOK(p)'
    BY <1>7, <1>9 DEF CallOK, Inside
  <1> QED
    BY <1>2, <1>5, <1>6, <1>8, <1>9, <1>10, StepKeeps DEF LogInv

(* The call of p is over, or has not begun its work. *)
LEMMA OutsideLog ==
    ASSUME LogInv, NEW p \in Proc, Acquire(p) \/ Interrupted(p) \/ Return(p) \/ WriteOops(p)
    PROVE  LogInv'
  <1>1. Inv'
    BY AcquireInv, InterruptedInv, ReturnInv, WriteOopsInv DEF LogInv
  <1>2. /\ UNCHANGED <<module, regions, loads, circular_buffer, buffer_entry, heap>>
        /\ \A q \in Proc : q # p => /\ pc'[q] = pc[q] /\ call'[q] = call[q]
                                    /\ k_buf'[q] = k_buf[q] /\ usr_count'[q] = usr_count[q]
    BY DEF Acquire, Interrupted, Return, WriteOops, Forgotten, Goto, loading, device, files, locals,
           LogInv, Inv, MemoryTypeOK
  <1>3. call[p] \in Call /\ f_pos \in [File -> Nat] /\ filp \in [Proc -> File \cup {NULL}]
    BY DEF LogInv, CallOK, Numbers, Inv, MemoryTypeOK
  <1>4. f_pos' \in [File -> Nat]
    <2>1. CASE Return(p)
      <3>1. filp[p] \in opened /\ opened \subseteq File
        BY <2>1 DEF Return, LogInv, Inv, Sessions, MemoryTypeOK
      <3>2. call[p].pos \in Nat
        BY <1>3 DEF Call
      <3> QED
        BY <1>3, <2>1, <3>1, <3>2 DEF Return
    <2>2. CASE ~Return(p)
      BY <1>3, <2>2 DEF Acquire, Interrupted, WriteOops, files
    <2> QED
      BY <2>1, <2>2
  <1>5. CallOK(p)'
    <2>1. CASE Acquire(p)
      <3>1. pc[p] = "lock" /\ pc'[p] = "in" /\ call' = call
        BY <2>1, GotoValue DEF Acquire, locals, LogInv
      <3> QED
        BY <3>1 DEF CallOK, LogInv, Inside
    <2>2. CASE Interrupted(p)
      <3>1. pc'[p] = "ret" /\ call' = call
        BY <2>2, GotoValue DEF Interrupted, locals, LogInv
      <3> QED
        BY <1>3, <3>1 DEF CallOK, Inside
    <2>3. CASE Return(p) \/ WriteOops(p)
      <3>1. pc'[p] \in {"idle", "dead"} /\ call'[p] = NoCall
        BY <2>3 DEF Return, WriteOops, Forgotten, Goto, LogInv, Inv, MemoryTypeOK
      <3>2. NoCall \in Call
        <4>1. <<>> \in Seq(Bytes)
          OBVIOUS
        <4> QED
          BY <4>1 DEF NoCall, Call
      <3> QED
        BY <3>1, <3>2 DEF CallOK, Inside
    <2> QED
      BY <2>1, <2>2, <2>3
  <1>6. WellFormed(circular_buffer', Line)
    BY <1>2 DEF LogInv
  <1> QED
    BY <1>1, <1>2, <1>4, <1>5, <1>6, StepKeeps

(* The memory of the calls is not touched by a step inside that only reads *)
(* the device: such a step changes the call of p and nothing else here.    *)
LEMMA InsideLog ==
    ASSUME LogInv, Inv', NEW p \in Proc, pc[p] \in Inside,
           \A q \in Proc : q # p => pc'[q] = pc[q] /\ call'[q] = call[q],
           UNCHANGED <<loading, device, heap, k_buf, usr_count>>, f_pos' \in [File -> Nat],
           CallOK(p)'
    PROVE  LogInv'
  <1>1. UNCHANGED <<module, regions, loads, circular_buffer>>
    BY DEF loading, device
  <1>2. WellFormed(circular_buffer', Line)
    BY <1>1 DEF LogInv
  <1> QED
    BY <1>1, <1>2, StepKeeps

LEMMA ReadLog == ASSUME LogInv, NEW p \in Proc, ReadFind(p) \/ ReadCopy(p) PROVE LogInv'
  <1> DEFINE c == call[p]
  <1>1. Inv' /\ Inv
    BY ReadInv DEF LogInv
  <1>2. /\ pc[p] \in Inside /\ f_pos' = f_pos
        /\ UNCHANGED <<loading, device, heap, k_buf, usr_count>>
    BY DEF ReadFind, ReadCopy, Inside, files
  <1>3. \A q \in Proc : q # p => pc'[q] = pc[q] /\ call'[q] = call[q]
    BY <1>1, ZenonT(40) DEF ReadFind, ReadCopy, UnlockAndReturn, Goto, Inv, MemoryTypeOK
  <1>4. c \in Call /\ Pending(c) /\ DOMAIN call = Proc /\ circular_buffer' = circular_buffer
    BY <1>1, <1>2 DEF LogInv, CallOK, Inv, MemoryTypeOK, device
  <1>5. CallOK(p)'
    <2>1. CASE pc'[p] = "ret"
      <3>1. call'[p] \in Call
        <4>1. CASE ReadFind(p)
          <5>1. call' = [call EXCEPT ![p].ok = TRUE]
            <6>1. "copy" # "ret"
              OBVIOUS
            <6> QED
              BY <1>1, <2>1, <4>1, <6>1, GotoValue DEF ReadFind
          <5> QED
            BY <1>4, <5>1 DEF Call
        <4>2. CASE ReadCopy(p)
          <5> DEFINE d == SubSeq(Load(c.from, c.off + c.num), c.off + 1, c.off + c.num)
          <5>1. CASE UNCHANGED call
            BY <1>4, <5>1
          <5>2. CASE call' = [call EXCEPT ![p].data = d, ![p].pos = c.pos + c.num, ![p].ok = TRUE]
            <6>0. c.off \in Nat /\ c.num \in Nat /\ c.pos \in Nat
              BY <1>4 DEF Call
            <6>1. d \in Seq(Bytes)
              <7> DEFINE l == Load(c.from, c.off + c.num)
              <7>1. l \in Seq(Bytes) /\ Len(l) = c.off + c.num
                BY <1>1, <6>0, LoadValue DEF Inv
              <7> HIDE DEF l
              <7>2. \A i \in c.off + 1 .. c.off + c.num : i \in 1..Len(l)
                BY <6>0, <7>1
              <7>3. SubSeq(l, c.off + 1, c.off + c.num) \in Seq(Bytes)
                BY <6>0, <7>1, <7>2, SubSeqProperties
              <7> QED
                BY <7>3 DEF l
            <6> HIDE DEF d
            <6>2. call'[p] = [c EXCEPT !.data = d, !.pos = c.pos + c.num, !.ok = TRUE]
              BY <1>4, <5>2
            <6>3. c.pos + c.num \in Nat
              BY <6>0
            <6> HIDE DEF c
            <6> QED
              BY <1>4, <6>1, <6>2, <6>3 DEF Call
          <5> QED
            BY <4>2, <5>1, <5>2 DEF ReadCopy
        <4> QED
          BY <4>1, <4>2
      <3> QED
        BY <2>1, <3>1 DEF CallOK, Inside
    <2>2. CASE pc'[p] # "ret"
      <3> DEFINE b == circular_buffer
                 found == aesd_circular_buffer_find_entry_offset_for_fpos(b, c.pos)
                 entry == b.entry[found.slot]
                 m == bytes_to_copy(entry.size - found.offset, c.arg)
                 B == BytesBefore(b)
                 L == OldestFirst(b)
      <3>1. /\ pc[p] = "in" /\ c.op = "read" /\ found # NULL
            /\ call' = [call EXCEPT ![p].from = entry.buffptr, ![p].off = found.offset, ![p].num = m]
            /\ pc'[p] = "copy"
        <4>1. ReadFind(p)
          BY <1>1, <2>2, GotoValue DEF ReadCopy, UnlockAndReturn
        <4>2. found # NULL /\ Goto(p, "copy")
          BY <1>1, <2>2, <4>1, GotoValue DEF ReadFind, UnlockAndReturn
        <4> QED
          BY <1>1, <4>1, <4>2, GotoValue DEF ReadFind
      <3>2. c.pos \in Nat /\ c.arg \in Nat /\ c.arg \in Counts
        <4>1. c.arg \in Counts
          BY <1>4, <3>1 DEF Pending
        <4> QED
          BY <1>4, <4>1, UserAssumption DEF Call
      <3>3. WellFormed(b, Line) /\ b.out_offs \in Slots
        BY DEF LogInv, WellFormed
      <3>4. /\ \A k \in 1..Len(L) : B[k-1] <= c.pos /\ c.pos < B[k]
                   => found = [slot |-> Wrap(b.out_offs, k - 1), offset |-> c.pos - B[k-1]]
            /\ c.pos >= B[N] => found = NULL
            /\ c.pos < B[N] => \E k \in 1..Len(L) : B[k-1] <= c.pos /\ c.pos < B[k]
        BY <3>2, <3>3, LineIsUsed, FindValue
      <3>5. N \in Nat /\ N \in 0..N /\ 0 \in Slots /\ Slots = 0 .. N - 1
        BY NAssumption DEF Slots
      <3>6. \A k \in 0..N : B[k] \in Nat
        BY <3>3, PositionsNat
      <3>7. PICK k \in 1..Len(L) : B[k-1] <= c.pos /\ c.pos < B[k]
        <4>1. c.pos < B[N]
          <5>1. B[N] \in Nat /\ ~(c.pos >= B[N]) /\ c.pos \in Nat
            BY <3>1, <3>2, <3>4, <3>5, <3>6
          <5> HIDE DEF B
          <5> QED
            BY <5>1
        <4> QED
          BY <3>4, <4>1
      <3>8. Len(L) \in 0..N
        BY <3>3, <3>5, LineIsUsed, SlotValue
      <3>9. k - 1 \in Slots /\ k - 1 < Len(L) /\ (k - 1) + 1 = k /\ k \in 0..N /\ k - 1 \in 0..N
        BY <3>5, <3>8
      <3>10. b.entry[Wrap(b.out_offs, k - 1)] = L[k] /\ L[k] \in Line
        BY <3>3, <3>9, LineIsUsed, SlotValue
      <3>11. found.slot = Wrap(b.out_offs, k - 1) /\ found.offset = c.pos - B[k-1]
        <4> HIDE DEF found, B
        <4>1. found = [slot |-> Wrap(b.out_offs, k - 1), offset |-> c.pos - B[k-1]]
          BY <3>4, <3>7
        <4> QED
          BY <4>1
      <3>12. entry = L[k]
        BY <3>10, <3>11
      <3>13. B[k] = B[k-1] + L[k].size
        BY <3>3, LineIsUsed, Positions
      <3>14. /\ L[k].size \in Nat /\ L[k].buffptr \in Ptr
             /\ found.offset \in Nat /\ found.offset < L[k].size
        <4>1. L[k].size \in Nat /\ L[k].buffptr \in Ptr
          BY <3>10 DEF Line
        <4>2. B[k] \in Nat /\ B[k-1] \in Nat
          BY <3>6, <3>9
        <4> QED
          BY <3>2, <3>7, <3>11, <3>13, <4>1, <4>2, SMTT(30)
      <3> HIDE DEF found, entry, B, L, b
      <3>15. m = bytes_to_copy(L[k].size - found.offset, c.arg) /\ m \in Nat
        BY <3>2, <3>12, <3>14 DEF bytes_to_copy
      <3> HIDE DEF m
      <3>16. call'[p] = [c EXCEPT !.from = L[k].buffptr, !.off = found.offset, !.num = m]
        BY <1>4, <3>1, <3>12
      <3> HIDE DEF c
      <3>17. /\ call'[p] \in Call
             /\ call'[p].from = L[k].buffptr /\ call'[p].off = found.offset /\ call'[p].num = m
             /\ call'[p].op = c.op /\ call'[p].arg = c.arg /\ call'[p].pos = c.pos
             /\ call'[p].ok = c.ok /\ call'[p].data = c.data
        BY <1>4, <3>14, <3>15, <3>16, ZenonT(40) DEF Call
      <3>18. Pending(call'[p])
        BY <1>4, <3>17 DEF Pending
      <3>19. Found(call'[p], b)
        BY <3>1, <3>7, <3>11, <3>15, <3>17 DEF Found, B, L
      <3>20. Found(call'[p], circular_buffer')
        BY <1>4, <3>19 DEF b
      <3> QED
        BY <3>1, <3>17, <3>18, <3>20 DEF CallOK
    <2> QED
      BY <2>1, <2>2
  <1>6. f_pos' \in [File -> Nat]
    BY <1>2 DEF LogInv, Numbers
  <1> QED
    BY <1>1, <1>2, <1>3, <1>5, <1>6, InsideLog

LEMMA LlseekLog == ASSUME LogInv, NEW p \in Proc, LlseekSize(p) \/ LlseekMove(p) PROVE LogInv'
  <1> DEFINE c == call[p]
             f == filp[p]
  <1>1. Inv' /\ Inv
    BY LlseekInv DEF LogInv
  <1>2. pc[p] \in Inside /\ UNCHANGED <<loading, device, heap, k_buf, usr_count>>
    BY DEF LlseekSize, LlseekMove, Inside
  <1>3. \A q \in Proc : q # p => pc'[q] = pc[q] /\ call'[q] = call[q]
    BY <1>1 DEF LlseekSize, LlseekMove, UnlockAndReturn, Goto, Inv, MemoryTypeOK
  <1>4. c \in Call /\ Pending(c) /\ DOMAIN call = Proc /\ circular_buffer' = circular_buffer
    BY <1>1, <1>2 DEF LogInv, CallOK, Inv, MemoryTypeOK, device
  <1>5. BytesBefore(circular_buffer)[N] \in Nat
    BY NAssumption, PositionsNat DEF LogInv
  <1>6. f_pos \in [File -> Nat] /\ f \in File
    BY <1>2 DEF LogInv, Numbers, Inv, Sessions, MemoryTypeOK, Inside
  <1>7. CASE LlseekSize(p)
    <2>1. /\ c.op = "llseek" /\ pc'[p] = "move" /\ f_pos' = f_pos
          /\ call' = [call EXCEPT ![p].num = BytesBefore(circular_buffer)[N]]
      BY <1>1, <1>7, GotoValue DEF LlseekSize, files
    <2>2. /\ call'[p] \in Call
          /\ call'[p].num = BytesBefore(circular_buffer)[N]
          /\ call'[p].op = c.op /\ call'[p].arg = c.arg
          /\ call'[p].ok = c.ok /\ call'[p].data = c.data
      BY <1>4, <1>5, <2>1 DEF Call
    <2>3. CallOK(p)'
      BY <1>4, <2>1, <2>2 DEF CallOK, Pending, Sized
    <2> QED
      BY <1>1, <1>2, <1>3, <1>6, <2>1, <2>3, InsideLog
  <1>8. CASE LlseekMove(p)
    <2> DEFINE target == fixed_size_llseek(f_pos[f], c.arg[1], c.arg[2], c.num)
    <2>1. /\ pc[p] = "move" /\ pc'[p] = "ret"
          /\ \/ UNCHANGED <<f_pos, call>>
             \/ /\ target # -1
                /\ f_pos' = [f_pos EXCEPT ![f] = target]
                /\ call' = [call EXCEPT ![p].ok = TRUE]
      BY <1>1, <1>8, GotoValue DEF LlseekMove, UnlockAndReturn
    <2>2. CallOK(p)'
      <3>1. CASE call' = call
        BY <1>4, <2>1, <3>1 DEF CallOK, Inside
      <3>2. CASE call' = [call EXCEPT ![p].ok = TRUE]
        <4>1. call'[p] \in Call
          BY <1>4, <3>2 DEF Call
        <4> QED
          BY <2>1, <4>1 DEF CallOK, Inside
      <3> QED
        BY <2>1, <3>1, <3>2
    <2>3. ASSUME target # -1
          PROVE  target \in Nat
      <3>1. c.op = "llseek" /\ c.arg[1] \in Int
        <4>1. Sized(c, circular_buffer)
          BY <2>1 DEF LogInv, CallOK
        <4> QED
          BY <1>4, <4>1, UserAssumption DEF Pending, Sized
      <3>2. c.num \in Nat /\ f_pos[f] \in Nat
        BY <1>4, <1>6 DEF Call
      <3> DEFINE pos == f_pos[f]
                 off == c.arg[1]
                 whence == c.arg[2]
                 size == c.num
      <3> HIDE DEF pos, off, whence, size
      <3>3. pos \in Nat /\ off \in Int /\ size \in Nat /\ target = fixed_size_llseek(pos, off, whence, size)
        BY <3>1, <3>2 DEF pos, off, whence, size
      <3>4. CASE whence = "SEEK_CUR" /\ off = 0
        <4>1. "SEEK_CUR" # "SEEK_SET" /\ "SEEK_CUR" # "SEEK_END"
          OBVIOUS
        <4>2. target = pos + off
          BY <3>3, <3>4, <4>1 DEF fixed_size_llseek
        <4> QED
          BY <3>3, <3>4, <4>2
      <3>5. CASE ~(whence = "SEEK_CUR" /\ off = 0)
        <4>1. target \in 0..size
          BY <2>3, <3>3, <3>5 DEF fixed_size_llseek
        <4> QED
          BY <3>3, <4>1
      <3> QED
        BY <3>4, <3>5
    <2>4. f_pos' \in [File -> Nat]
      <3> HIDE DEF target
      <3> QED
        BY <1>6, <2>1, <2>3
    <2> QED
      BY <1>1, <1>2, <1>3, <2>2, <2>4, InsideLog
  <1> QED
    BY <1>7, <1>8

(* The command and the offset that aesd_adjust_file_offset decodes are     *)
(* numbers.                                                                *)
LEMMA DecodeValue ==
    ASSUME NEW arg \in IoctlArgs
    PROVE  /\ arg.write_cmd \in Nat
           /\ (arg.write_cmd \div 16) % 16 \in 0..15
           /\ arg.write_cmd % 16 \in 0..15
  <1>1. PICK s \in SeekTos, junk \in Junk :
            arg = [write_cmd |-> (s.write_cmd % 256) + 256 * junk,
                   write_cmd_offset |-> junk, user |-> s]
    BY DEF IoctlArgs
  <1>2. s.write_cmd \in Nat /\ junk \in Nat
    BY UserAssumption
  <1>3. \A x, y \in Nat : (x % 256) + 256 * y \in Nat
    BY SMT
  <1>4. arg.write_cmd \in Nat
    BY <1>1, <1>2, <1>3
  <1>5. \A x \in Nat : (x \div 16) % 16 \in 0..15 /\ x % 16 \in 0..15
    BY SMT
  <1> QED
    BY <1>4, <1>5

LEMMA IoctlLog == ASSUME LogInv, NEW p \in Proc, IoctlFind(p) \/ IoctlSet(p) PROVE LogInv'
  <1> DEFINE c == call[p]
             f == filp[p]
  <1>1. Inv' /\ Inv
    BY IoctlInv DEF LogInv
  <1>2. pc[p] \in Inside /\ UNCHANGED <<loading, device, heap, k_buf, usr_count>>
    BY DEF IoctlFind, IoctlSet, Inside
  <1>3. \A q \in Proc : q # p => pc'[q] = pc[q] /\ call'[q] = call[q]
    BY <1>1 DEF IoctlFind, IoctlSet, UnlockAndReturn, Goto, Inv, MemoryTypeOK
  <1>4. c \in Call /\ Pending(c) /\ DOMAIN call = Proc /\ circular_buffer' = circular_buffer
    BY <1>1, <1>2 DEF LogInv, CallOK, Inv, MemoryTypeOK, device
  <1>5. f_pos \in [File -> Nat] /\ f \in File
    BY <1>2 DEF LogInv, Numbers, Inv, Sessions, MemoryTypeOK, Inside
  <1>6. CASE IoctlFind(p)
    <2> DEFINE k == (c.arg.write_cmd \div 16) % 16
               o == c.arg.write_cmd % 16
    <2>1. /\ c.op = "ioctl" /\ f_pos' = f_pos
          /\ \/ k >= N /\ pc'[p] = "ret" /\ call' = call
             \/ /\ ~(k >= N) /\ pc'[p] = "set"
                /\ call' = [call EXCEPT ![p].num = aesd_circular_buffer_get_fpos(circular_buffer, k, o)]
      BY <1>1, <1>6, GotoValue DEF IoctlFind, files
    <2>2. c.arg \in IoctlArgs
      BY <1>4, <2>1 DEF Pending
    <2>3. k \in 0..15 /\ o \in 0..15
      BY <2>2, DecodeValue
    <2>4. CallOK(p)'
      <3> HIDE DEF k, o
      <3>1. CASE k >= N
        BY <1>4, <2>1, <3>1 DEF CallOK, Inside
      <3>2. CASE ~(k >= N)
        <4>1. k < N /\ k \in 0..N
          BY <2>3, <3>2, NAssumption
        <4>2. aesd_circular_buffer_get_fpos(circular_buffer, k, o) = BytesBefore(circular_buffer)[k] + o
          BY <4>1 DEF aesd_circular_buffer_get_fpos
        <4>3. BytesBefore(circular_buffer)[k] \in Nat
          BY <4>1, PositionsNat DEF LogInv
        <4> DEFINE num == BytesBefore(circular_buffer)[k] + o
        <4>4. num \in Nat
          BY <2>3, <4>3
        <4> HIDE DEF num
        <4>5. call' = [call EXCEPT ![p].num = num] /\ pc'[p] = "set"
          BY <2>1, <3>2, <4>2 DEF num
        <4>6. /\ call'[p] \in Call /\ call'[p].num = num
              /\ call'[p].op = c.op /\ call'[p].arg = c.arg
              /\ call'[p].ok = c.ok /\ call'[p].data = c.data
          BY <1>4, <4>4, <4>5 DEF Call
        <4>7. Pending(call'[p])
          BY <1>4, <4>6 DEF Pending
        <4>8. Placed(call'[p], circular_buffer')
          BY <1>4, <2>1, <4>1, <4>6 DEF Placed, k, o, num
        <4> QED
          BY <4>5, <4>6, <4>7, <4>8 DEF CallOK
      <3> QED
        BY <3>1, <3>2
    <2> QED
      BY <1>1, <1>2, <1>3, <1>5, <2>1, <2>4, InsideLog
  <1>7. CASE IoctlSet(p)
    <2>1. /\ pc'[p] = "ret"
          /\ f_pos' = [f_pos EXCEPT ![f] = c.num]
          /\ call' = [call EXCEPT ![p].ok = TRUE]
      BY <1>1, <1>7, GotoValue DEF IoctlSet, UnlockAndReturn
    <2>2. c.num \in Nat
      BY <1>4 DEF Call
    <2>3. f_pos' \in [File -> Nat]
      BY <1>5, <2>1, <2>2
    <2>4. call'[p] \in Call
      BY <1>4, <2>1 DEF Call
    <2>5. CallOK(p)'
      BY <2>1, <2>4 DEF CallOK, Inside
    <2> QED
      BY <1>1, <1>2, <1>3, <2>3, <2>5, InsideLog
  <1> QED
    BY <1>6, <1>7

(* Byte by byte, what copy_from_user and the join leave in memory. *)
LEMMA CopiedBytes ==
    ASSUME NEW w \in Payloads, w # <<>>, NEW n \in Copied(Len(w))
    PROVE  /\ \A i \in 1..n : copy_from_user(w, n)[i] = w[i]
           /\ (copy_from_user(w, n)[Len(w)] = NL) <=> (n = Len(w) /\ w[n] = NL)
           /\ Len(w) \in Nat /\ Len(w) # 0
  <1>1. w \in Seq(Byte) /\ Len(w) \in Nat
    BY UserAssumption, LenProperties
  <1>2. n \in Nat /\ n <= Len(w)
    BY <1>1 DEF Copied
  <1>3. Len(w) # 0
    BY <1>1, EmptySeq
  <1>4. \A i \in 1..Len(w) : copy_from_user(w, n)[i] = IF i <= n THEN w[i] ELSE Zero
    BY DEF copy_from_user
  <1>5. \A i \in 1..n : copy_from_user(w, n)[i] = w[i]
    BY <1>1, <1>2, <1>4
  <1>6. copy_from_user(w, n)[Len(w)] = IF Len(w) <= n THEN w[Len(w)] ELSE Zero
    BY <1>1, <1>3, <1>4
  <1> QED
    BY <1>1, <1>2, <1>3, <1>5, <1>6, UserAssumption

LEMMA JoinedElements ==
    ASSUME MemoryTypeOK, NEW p \in Proc
    PROVE  /\ \A i \in 1..buffer_entry.size :
                  JoinedBytes(p)[i] = Load(buffer_entry.buffptr, buffer_entry.size)[i]
           /\ \A i \in 1..usr_count[p] :
                  JoinedBytes(p)[buffer_entry.size + i] = Load(k_buf[p], usr_count[p])[i]
  <1>1. buffer_entry.size \in Nat /\ usr_count[p] \in Nat
    BY DEF MemoryTypeOK, Entry
  <1> DEFINE m == buffer_entry.size
             n == usr_count[p]
             x == Load(buffer_entry.buffptr, m)
             y == Load(k_buf[p], n)
  <1>2. x \in Seq(Bytes) /\ Len(x) = m /\ y \in Seq(Bytes) /\ Len(y) = n
    BY <1>1, LoadValue
  <1>3. JoinedBytes(p) = x \o y
    BY DEF JoinedBytes
  <1> HIDE DEF x, y, m, n
  <1>4. \A i \in 1 .. m + n : (x \o y)[i] = IF i <= m THEN x[i] ELSE y[i - m]
    BY <1>2, ConcatProperties
  <1>5. m \in Nat /\ n \in Nat
    BY <1>1 DEF m, n
  <1>6. ASSUME NEW i \in 1..m
        PROVE  (x \o y)[i] = x[i]
    <2>1. i \in 1 .. m + n /\ i <= m
      BY <1>5
    <2> QED
      BY <1>4, <2>1
  <1>7. ASSUME NEW i \in 1..n
        PROVE  (x \o y)[m + i] = y[i]
    <2>1. m + i \in 1 .. m + n /\ ~(m + i <= m) /\ (m + i) - m = i
      BY <1>5
    <2> QED
      BY <1>4, <2>1
  <1> QED
    BY <1>3, <1>6, <1>7 DEF x, y, m, n

(* Loads from memory that is as large as asked for. *)
LEMMA LoadElements ==
    ASSUME MemoryTypeOK, NEW ptr \in Ptr, NEW n \in Nat, n <= Len(heap[ptr].bytes)
    PROVE  \A i \in 1..n : Load(ptr, n)[i] = heap[ptr].bytes[i]
  <1>1. heap[ptr].bytes \in Seq(Bytes)
    BY DEF MemoryTypeOK, Memory, Bytes
  <1>2. DOMAIN heap[ptr].bytes = 1..Len(heap[ptr].bytes) /\ Len(heap[ptr].bytes) \in Nat
    BY <1>1, LenProperties
  <1>3. \A i \in 1..n : i \in DOMAIN heap[ptr].bytes
    BY <1>2
  <1> QED
    BY <1>3 DEF Load

LEMMA WriteAllocLog == ASSUME LogInv, NEW p \in Proc, WriteAlloc(p) PROVE LogInv'
  <1> DEFINE c == call[p]
             w == c.arg
  <1>1. Inv' /\ Inv
    BY WriteAllocInv DEF LogInv
  <1>2. /\ pc[p] = "in" /\ c.op = "write" /\ w # <<>>
        /\ UNCHANGED <<module, regions, loads, circular_buffer, buffer_entry, f_pos>>
    BY DEF WriteAlloc, loading, device, files
  <1>3. c \in Call /\ Pending(c) /\ w \in Payloads /\ DOMAIN call = Proc
    BY <1>1, <1>2 DEF LogInv, CallOK, Inv, MemoryTypeOK, Inside, Pending
  <1>4. f_pos' \in [File -> Nat] /\ WellFormed(circular_buffer', Line)
    BY <1>2 DEF LogInv, Numbers
  <1>5. /\ k_buf \in [Proc -> Ptr \cup {NULL}] /\ usr_count \in [Proc -> Nat]
        /\ heap \in [Ptr -> Memory]
    BY <1>1 DEF Inv, MemoryTypeOK
  <1>6. CASE UnlockAndReturn(p) /\ UNCHANGED <<heap, k_buf, usr_count, call>>
    <2>1. pc'[p] = "ret" /\ \A q \in Proc : q # p => pc'[q] = pc[q]
      BY <1>1, <1>6, GotoValue DEF UnlockAndReturn
    <2>2. CallOK(p)'
      BY <1>3, <1>6, <2>1 DEF CallOK, Inside
    <2> QED
      BY <1>1, <1>2, <1>4, <1>6, <2>1, <2>2, StepKeeps
  <1>7. ASSUME NEW ptr \in FreePtrs, NEW n \in Copied(Len(w)),
               heap' = kmalloc(heap, ptr, copy_from_user(w, n)),
               k_buf' = [k_buf EXCEPT ![p] = ptr],
               usr_count' = [usr_count EXCEPT ![p] = n],
               call' = [call EXCEPT ![p].newline = copy_from_user(w, n)[Len(w)] = NL],
               Goto(p, "store")
        PROVE  LogInv'
    <2>1. pc'[p] = "store" /\ \A q \in Proc : q # p => pc'[q] = pc[q]
      BY <1>1, <1>7, GotoValue
    <2>2. /\ \A q \in Proc : q # p => /\ call'[q] = call[q]
                                      /\ k_buf'[q] = k_buf[q] /\ usr_count'[q] = usr_count[q]
          /\ k_buf'[p] = ptr /\ usr_count'[p] = n
      BY <1>3, <1>5, <1>7
    <2> DEFINE nl == copy_from_user(w, n)[Len(w)] = NL
    <2>3. nl \in BOOLEAN /\ call' = [call EXCEPT ![p].newline = nl]
      BY <1>7
    <2>4. /\ \A i \in 1..n : copy_from_user(w, n)[i] = w[i]
          /\ nl <=> (n = Len(w) /\ w[n] = NL)
      BY <1>2, <1>3, <1>7, CopiedBytes
    <2>5. n \in Nat /\ n <= Len(w) /\ copy_from_user(w, n) \in Seq(Bytes)
      BY <1>3, <1>7, CopyValue
    <2> HIDE DEF nl
    <2>6. /\ call'[p] \in Call /\ call'[p].newline = nl
          /\ call'[p].op = c.op /\ call'[p].arg = c.arg
          /\ call'[p].ok = c.ok /\ call'[p].data = c.data
      BY <1>3, <2>3 DEF Call
    <2>7. heap'[ptr].bytes = copy_from_user(w, n)
      <3>1. ptr \in Ptr
        BY <1>7 DEF FreePtrs
      <3>2. heap'[ptr] = [state |-> "allocated", bytes |-> copy_from_user(w, n)]
        BY <1>5, <1>7, <2>5, <3>1, KmallocValue
      <3> QED
        BY <3>2
    <2>8. \A i \in 1..n : 0 + i = i
      BY <2>5
    <2>9. Taken(call'[p], n, heap'[ptr].bytes, 0)
      <3> HIDE DEF c
      <3> QED
        BY <1>2, <2>4, <2>5, <2>6, <2>7, <2>8 DEF Taken
    <2>10. Pending(call'[p])
      BY <1>3, <2>6 DEF Pending
    <2>11. CallOK(p)'
      BY <2>1, <2>2, <2>6, <2>9, <2>10 DEF CallOK
    <2> QED
      BY <1>1, <1>2, <1>4, <2>1, <2>2, <2>11, StepKeeps DEF Inside
  <1> QED
    BY <1>6, <1>7 DEF WriteAlloc

LEMMA WriteJoinLog == ASSUME LogInv, NEW p \in Proc, WriteJoin(p) PROVE LogInv'
  <1> DEFINE c == call[p]
             n == usr_count[p]
             m == buffer_entry.size
  <1>1. Inv' /\ Inv /\ MemoryTypeOK
    BY WriteJoinInv DEF LogInv, Inv
  <1>2. /\ pc[p] = "store" /\ buffer_entry.size # 0
        /\ UNCHANGED <<module, regions, loads, circular_buffer, buffer_entry, f_pos, usr_count, call>>
    BY DEF WriteJoin, loading, device, files
  <1>3. c \in Call /\ Pending(c) /\ Taken(c, n, heap[k_buf[p]].bytes, 0)
    BY <1>2 DEF LogInv, CallOK, Inside
  <1>4. f_pos' \in [File -> Nat] /\ WellFormed(circular_buffer', Line)
    BY <1>2 DEF LogInv, Numbers
  <1>5. CASE UnlockAndReturn(p) /\ UNCHANGED <<heap, k_buf>>
    <2>1. pc'[p] = "ret" /\ \A q \in Proc : q # p => pc'[q] = pc[q]
      BY <1>1, <1>5, GotoValue DEF UnlockAndReturn
    <2>2. CallOK(p)'
      BY <1>2, <1>3, <2>1 DEF CallOK, Inside
    <2> QED
      BY <1>1, <1>2, <1>4, <1>5, <2>1, <2>2, StepKeeps
  <1>6. ASSUME NEW temp_buf \in FreePtrs,
               heap' = kfree(kfree(kmalloc(heap, temp_buf, JoinedBytes(p)),
                                   buffer_entry.buffptr), k_buf[p]),
               k_buf' = [k_buf EXCEPT ![p] = temp_buf],
               Goto(p, "populate")
        PROVE  LogInv'
    <2>1. pc'[p] = "populate" /\ \A q \in Proc : q # p => pc'[q] = pc[q]
      BY <1>1, <1>6, GotoValue
    <2>2. k_buf'[p] = temp_buf /\ \A q \in Proc : q # p => k_buf'[q] = k_buf[q]
      BY <1>1, <1>6 DEF MemoryTypeOK
    <2>3. /\ heap'[temp_buf] = [state |-> "allocated", bytes |-> JoinedBytes(p)]
          /\ k_buf[p] \in Ptr
      BY <1>1, <1>2, <1>6, JoinMemory
    <2>4. \A i \in 1..n : JoinedBytes(p)[m + i] = Load(k_buf[p], n)[i]
      BY <1>1, JoinedElements
    <2>5. \A i \in 1..n : Load(k_buf[p], n)[i] = heap[k_buf[p]].bytes[i]
      <3>1. n \in Nat /\ n <= Len(heap[k_buf[p]].bytes)
        BY <1>1, <1>2, LoadedInside DEF CallsValid, Holds, Storing, Joined, Inside, MemoryTypeOK
      <3> QED
        BY <1>1, <2>3, <3>1, LoadElements
    <2>6. \A i \in 1..n : 0 + i = i
      BY <1>1 DEF MemoryTypeOK
    <2>7. Taken(c, n, heap'[temp_buf].bytes, m)
      <3> HIDE DEF c, n, m
      <3>1. \A i \in 1..n : heap[k_buf[p]].bytes[i] = c.arg[i]
        BY <1>3, <2>6 DEF Taken
      <3> QED
        BY <1>3, <2>3, <2>4, <2>5, <3>1 DEF Taken
    <2>8. CallOK(p)'
      BY <1>2, <1>3, <2>1, <2>2, <2>7 DEF CallOK
    <2> QED
      BY <1>1, <1>2, <1>4, <2>1, <2>2, <2>8, StepKeeps DEF Inside
  <1> QED
    BY <1>5, <1>6 DEF WriteJoin

(* What is known when a write is about to change the device. *)
LEMMA StoreFacts ==
    ASSUME LogInv, NEW p \in Proc, WriteStore(p)
    PROVE  LET c == call[p]
               m == buffer_entry.size
               n == usr_count[p]
               K == k_buf[p]
           IN  /\ pc[p] \in Inside /\ pc[p] \in {"store", "populate"}
               /\ pc[p] = "store" => m = 0
               /\ m \in Nat /\ n \in Nat /\ K \in Ptr
               /\ heap[K].state = "allocated" /\ m + n <= Len(heap[K].bytes)
               /\ c \in Call /\ Pending(c) /\ c.arg \in Payloads
               /\ Taken(c, n, heap[K].bytes, m)
               /\ c.newline => n # 0
  <1> DEFINE c == call[p]
             m == buffer_entry.size
             n == usr_count[p]
             K == k_buf[p]
  <1>1. /\ pc[p] \in Inside /\ pc[p] \in {"store", "populate"}
        /\ pc[p] = "store" => m = 0
    BY DEF WriteStore, Inside
  <1>2. MemoryTypeOK /\ CallsValid
    BY <1>1, LoadedInside DEF LogInv, Inv
  <1>3. m \in Nat /\ n \in Nat /\ K \in Ptr
    BY <1>1, <1>2 DEF MemoryTypeOK, Entry, CallsValid, Storing
  <1>4. heap[K].state = "allocated" /\ m + n <= Len(heap[K].bytes)
    BY <1>1, <1>2, <1>3 DEF CallsValid, Holds, Storing, Joined
  <1>5. c \in Call /\ Pending(c) /\ Taken(c, n, heap[K].bytes, m)
    BY <1>1 DEF LogInv, CallOK
  <1>6. c.arg \in Payloads
    BY <1>5 DEF Pending, Taken
  <1>7. Len(c.arg) \in Nat /\ Len(c.arg) # 0
    <2>1. c.arg \in Seq(Byte) /\ c.arg # <<>>
      BY <1>5, <1>6, UserAssumption DEF Taken
    <2> QED
      BY <2>1, LenProperties, EmptySeq
  <1>8. c.newline => n # 0
    BY <1>5, <1>7 DEF Taken
  <1> QED
    BY <1>1, <1>3, <1>4, <1>5, <1>6, <1>8

LEMMA WriteStoreLog == ASSUME LogInv, NEW p \in Proc, WriteStore(p) PROVE LogInv'
  <1> DEFINE c == call[p]
             m == buffer_entry.size
             n == usr_count[p]
             K == k_buf[p]
             entry == [buffptr |-> K, size |-> m + n]
  <1>1. Inv' /\ Inv
    BY WriteStoreInv DEF LogInv
  <1>2. /\ IF c.newline THEN Commit(entry) ELSE UNCHANGED circular_buffer
        /\ call' = [call EXCEPT ![p].pos = @ + n, ![p].ok = TRUE]
        /\ Goto(p, "ret")
        /\ UNCHANGED <<module, regions, loads, f_pos, k_buf, usr_count>>
    BY DEF WriteStore, UnlockAndReturn, loading, files
  <1>3. /\ pc[p] \in Inside /\ m \in Nat /\ n \in Nat /\ K \in Ptr
        /\ c \in Call
        /\ c.newline => n # 0
    BY StoreFacts
  <1>4. WellFormed(circular_buffer', Line)
    <2>1. CASE c.newline
      <3>1. entry \in Line
        BY <1>3, <2>1 DEF Line
      <3> HIDE DEF entry
      <3> QED
        BY <1>2, <2>1, <3>1, LineIsUsed, AddWellFormed DEF LogInv, Commit
    <2>2. CASE ~c.newline
      BY <1>2, <2>2 DEF LogInv
    <2> QED
      BY <2>1, <2>2
  <1>5. pc'[p] = "ret" /\ \A q \in Proc : q # p => pc'[q] = pc[q]
    BY <1>1, <1>2, GotoValue
  <1>6. DOMAIN call = Proc
    BY <1>1 DEF Inv, MemoryTypeOK
  <1>7. \A q \in Proc : q # p => call'[q] = call[q]
    BY <1>2, <1>6
  <1>8. call'[p] \in Call
    <2>1. call'[p] = [c EXCEPT !.pos = c.pos + n, !.ok = TRUE]
      BY <1>2, <1>6
    <2>2. c.pos + n \in Nat
      BY <1>3 DEF Call
    <2> HIDE DEF c
    <2> QED
      BY <1>3, <2>1, <2>2 DEF Call
  <1>9. CallOK(p)'
    BY <1>5, <1>8 DEF CallOK, Inside
  <1>10. f_pos' \in [File -> Nat]
    BY <1>2 DEF LogInv, Numbers
  <1> QED
    BY <1>1, <1>2, <1>3, <1>4, <1>5, <1>7, <1>9, <1>10, StepKeeps

LEMMA FilesLog == ASSUME LogInv, NEW f \in File, Open(f) \/ Release(f) PROVE LogInv'
  <1>1. Inv'
    BY FilesInv DEF LogInv
  <1>2. UNCHANGED <<module, regions, loads, circular_buffer, buffer_entry, heap, pc, call, k_buf, usr_count>>
    BY DEF Open, Release, loading, device, locals
  <1>3. f_pos' \in [File -> Nat]
    BY DEF Open, Release, LogInv, Numbers
  <1>4. \A p \in Proc : CallOK(p)'
    BY <1>2 DEF LogInv, CallOK
  <1> QED
    BY <1>1, <1>2, <1>3, <1>4 DEF LogInv, Numbers

LEMMA LoaderLog == ASSUME LogInv, Loader PROVE LogInv'
  <1>1. Inv' /\ Inv
    BY LoaderInv DEF LogInv
  <1>2. opened = {} /\ UNCHANGED <<pc, call, f_pos>>
    BY <1>1 DEF Loader, InitModule, SetupCdev, CleanupModule, CleanupInterrupted, CleanupFree,
                files, locals, Inv, Sessions
  <1>3. ASSUME NEW p \in Proc
        PROVE  CallOK(p)'
    <2>1. pc[p] \in {"idle", "dead"} /\ call[p] \in Call
      BY <1>1, <1>2 DEF LogInv, CallOK, Inv, Sessions
    <2> QED
      BY <1>2, <2>1 DEF CallOK, Inside
  <1>4. Numbers'
    BY <1>2, BoundAssumption
    DEF Loader, InitModule, SetupCdev, CleanupModule, CleanupInterrupted, CleanupFree, LogInv, Numbers
  <1>5. WellFormed(circular_buffer', Line)
    <2>1. CASE InitModule
      BY <2>1, LineIsUsed, InitWellFormed DEF InitModule
    <2>2. CASE ~InitModule
      <3>1. circular_buffer' = circular_buffer
        BY <2>2 DEF Loader, SetupCdev, CleanupModule, CleanupInterrupted, CleanupFree, device
      <3> QED
        BY <3>1 DEF LogInv
    <2> QED
      BY <2>1, <2>2
  <1> QED
    BY <1>1, <1>3, <1>4, <1>5 DEF LogInv
-----------------------------------------------------------------------------
LEMMA NextLog == LogInv /\ [Next]_vars => LogInv'
  <1> SUFFICES ASSUME LogInv, [Next]_vars PROVE LogInv'
    OBVIOUS
  <1>1. CASE UNCHANGED vars
    <2>1. Inv'
      BY <1>1, NextInv DEF LogInv
    <2>2. UNCHANGED <<module, regions, loads, circular_buffer, buffer_entry, heap, f_pos,
                      pc, call, k_buf, usr_count>>
      BY <1>1 DEF vars, loading, device, files, locals
    <2>3. \A p \in Proc : CallOK(p)'
      BY <2>2 DEF LogInv, CallOK
    <2> QED
      BY <2>1, <2>2, <2>3 DEF LogInv, Numbers
  <1>2. CASE Loader
    BY <1>2, LoaderLog
  <1>3. CASE \E f \in File : Open(f) \/ Release(f)
    BY <1>3, FilesLog
  <1>4. ASSUME NEW p \in Proc, Body(p)
        PROVE  LogInv'
    BY <1>4, ReadLog, WriteAllocLog, OutsideLog, WriteJoinLog, WriteStoreLog, LlseekLog, IoctlLog
    DEF Body
  <1>5. ASSUME NEW p \in Proc, Syscall(p) \/ Acquire(p) \/ Interrupted(p) \/ Return(p)
        PROVE  LogInv'
    BY <1>5, SyscallLog, OutsideLog
  <1> QED
    BY <1>1, <1>2, <1>3, <1>4, <1>5 DEF Next

LEMMA LogInvariant == Spec => []LogInv
  BY InitLog, NextLog, PTL DEF Spec

(* All of the driver's state keeps its types, however calls interleave:    *)
(* no file position and no count of bytes is ever negative, and the device *)
(* number region is given back at most as often as it was allocated.       *)
THEOREM DriverTyped == Spec => []TypeOK
  <1>1. LogInv => TypeOK
    BY DEF LogInv, Inv, Numbers, CallOK, Call, TypeOK
  <1> QED
    BY <1>1, LogInvariant, PTL
-----------------------------------------------------------------------------
(* The lines of the device as a value of its memory and its buffer. *)
LoadFrom(h, ptr, n) ==
    [i \in 1..n |-> IF ptr \in Ptr /\ i \in DOMAIN h[ptr].bytes
                    THEN h[ptr].bytes[i]
                    ELSE Garbage]
LoadAll(h, L) == [k \in DOMAIN L |-> LoadFrom(h, L[k].buffptr, L[k].size)]

LEMMA LoadFromValue ==
    ASSUME NEW h \in [Ptr -> Memory], NEW ptr, NEW n \in Nat
    PROVE  LoadFrom(h, ptr, n) \in Seq(Bytes) /\ Len(LoadFrom(h, ptr, n)) = n
  <1>1. ASSUME NEW i \in 1..n, ptr \in Ptr, i \in DOMAIN h[ptr].bytes
        PROVE  h[ptr].bytes[i] \in Bytes
    <2>1. h[ptr].bytes \in Seq(Bytes)
      BY <1>1 DEF Memory, Bytes
    <2> QED
      BY <1>1, <2>1, ElementOfSeq, LenProperties
  <1>2. LoadFrom(h, ptr, n) \in [1..n -> Bytes]
    BY <1>1 DEF LoadFrom, Bytes
  <1> QED
    BY <1>2, FunctionIsSeq

LEMMA LoadFromSame ==
    ASSUME NEW g, NEW h, NEW ptr, NEW n, ptr \in Ptr => g[ptr] = h[ptr]
    PROVE  LoadFrom(g, ptr, n) = LoadFrom(h, ptr, n)
  BY DEF LoadFrom

LEMMA LoadFromEmpty ==
    ASSUME NEW h, NEW ptr
    PROVE  LoadFrom(h, ptr, 0) = <<>>
  BY DEF LoadFrom

(* The first elements of a sequence. *)
LEMMA Prefix ==
    ASSUME NEW T, NEW x \in Seq(T), NEW k \in 0..Len(x)
    PROVE  /\ SubSeq(x, 1, k) \in Seq(T) /\ Len(SubSeq(x, 1, k)) = k
           /\ SubSeq(x, 1, k) \in [1..k -> T]
           /\ \A i \in 1..k : SubSeq(x, 1, k)[i] = x[i]
  <1> DEFINE y == SubSeq(x, 1, k)
  <1>1. Len(x) \in Nat /\ k \in Nat /\ \A i \in 1..k : i \in 1..Len(x)
    BY LenProperties
  <1>2. \A i \in 1..k : x[i] \in T
    BY <1>1, ElementOfSeq
  <1>3. /\ y \in Seq(T) /\ Len(y) = IF 1 <= k THEN k - 1 + 1 ELSE 0
        /\ \A i \in 1 .. k - 1 + 1 : y[i] = x[1 + i - 1]
    BY <1>1, <1>2, SubSeqProperties
  <1> HIDE DEF y
  <1>4. k - 1 + 1 = k /\ Len(y) = k /\ \A i \in 1..k : 1 + i - 1 = i
    BY <1>1, <1>3
  <1>5. \A i \in 1..k : y[i] = x[i]
    BY <1>3, <1>4
  <1>6. y \in [1..k -> T]
    BY <1>3, <1>4, SeqDef, LenProperties
  <1> QED
    BY <1>3, <1>4, <1>5, <1>6 DEF y

(* A load is the load of its first part followed by what is after it. *)
LEMMA LoadFromSplit ==
    ASSUME NEW h \in [Ptr -> Memory], NEW ptr \in Ptr, NEW m \in Nat, NEW n \in Nat,
           m + n <= Len(h[ptr].bytes), NEW w \in Seq(Byte), n <= Len(w),
           \A i \in 1..n : h[ptr].bytes[m + i] = w[i]
    PROVE  LoadFrom(h, ptr, m + n) = LoadFrom(h, ptr, m) \o SubSeq(w, 1, n)
  <1> DEFINE x == LoadFrom(h, ptr, m)
             y == SubSeq(w, 1, n)
             z == LoadFrom(h, ptr, m + n)
             s == h[ptr].bytes
  <1>0. s \in Seq(Bytes) /\ m + n \in Nat
    BY DEF Memory, Bytes
  <1>1. DOMAIN s = 1..Len(s) /\ Len(s) \in Nat
    BY <1>0, LenProperties
  <1>2. x \in Seq(Bytes) /\ Len(x) = m /\ z \in Seq(Bytes) /\ Len(z) = m + n
    BY <1>0, LoadFromValue
  <1>3. y \in Seq(Bytes) /\ Len(y) = n /\ \A i \in 1..n : y[i] = w[i]
    <2>1. w \in Seq(Bytes) /\ Len(w) \in Nat
      BY LenProperties DEF Bytes
    <2>2. n \in 0..Len(w)
      BY <2>1
    <2> QED
      BY <2>1, <2>2, Prefix
  <1>4. ASSUME NEW i \in 1 .. m + n
        PROVE  z[i] = s[i] /\ (i <= m => x[i] = s[i])
    <2>1. i \in DOMAIN s
      BY <1>1
    <2>2. z[i] = s[i]
      BY <2>1 DEF LoadFrom
    <2>3. i <= m => i \in 1..m
      OBVIOUS
    <2> QED
      BY <2>1, <2>2, <2>3 DEF LoadFrom
  <1> HIDE DEF x, y, z
  <1>5. /\ x \o y \in Seq(Bytes) /\ Len(x \o y) = m + n
        /\ \A i \in 1 .. m + n : (x \o y)[i] = IF i <= m THEN x[i] ELSE y[i - m]
    BY <1>2, <1>3, ConcatProperties
  <1>6. ASSUME NEW i \in 1 .. m + n
        PROVE  z[i] = (x \o y)[i]
    <2>1. CASE i <= m
      BY <1>4, <1>5, <2>1
    <2>2. CASE ~(i <= m)
      <3>1. i - m \in 1..n /\ m + (i - m) = i
        BY <2>2
      <3>2. s[i] = w[i - m] /\ y[i - m] = w[i - m]
        BY <1>3, <3>1
      <3> QED
        BY <1>4, <1>5, <2>2, <3>2
    <2> QED
      BY <2>1, <2>2
  <1>7. z = x \o y
    BY <1>2, <1>5, <1>6, SeqEqual, SMTT(30)
  <1> QED
    BY <1>7 DEF x, y, z

LEMMA LoadAllValue ==
    ASSUME NEW h \in [Ptr -> Memory], NEW L \in Seq(Line)
    PROVE  /\ LoadAll(h, L) \in Seq(Seq(Bytes)) /\ Len(LoadAll(h, L)) = Len(L)
           /\ LoadAll(h, L) \in [1..Len(L) -> Seq(Bytes)]
           /\ \A k \in 1..Len(L) :
                  /\ LoadAll(h, L)[k] = LoadFrom(h, L[k].buffptr, L[k].size)
                  /\ Len(LoadAll(h, L)[k]) = L[k].size
                  /\ L[k] \in Line /\ L[k].size \in Nat
  <1>1. DOMAIN L = 1..Len(L) /\ Len(L) \in Nat
    BY LenProperties
  <1>2. ASSUME NEW k \in 1..Len(L)
        PROVE  /\ LoadAll(h, L)[k] = LoadFrom(h, L[k].buffptr, L[k].size)
               /\ LoadFrom(h, L[k].buffptr, L[k].size) \in Seq(Bytes)
               /\ Len(LoadAll(h, L)[k]) = L[k].size
               /\ L[k] \in Line /\ L[k].size \in Nat
    <2>1. L[k] \in Line
      BY ElementOfSeq
    <2>2. L[k].size \in Nat
      BY <2>1 DEF Line
    <2>3. LoadAll(h, L)[k] = LoadFrom(h, L[k].buffptr, L[k].size)
      BY <1>1 DEF LoadAll
    <2> QED
      BY <2>1, <2>2, <2>3, LoadFromValue
  <1>3. LoadAll(h, L) \in [1..Len(L) -> Seq(Bytes)]
    BY <1>1, <1>2 DEF LoadAll
  <1> QED
    BY <1>1, <1>2, <1>3, FunctionIsSeq

LEMMA LoadAllSame ==
    ASSUME NEW g, NEW h, NEW L \in Seq(Line), \A k \in 1..Len(L) : g[L[k].buffptr] = h[L[k].buffptr]
    PROVE  LoadAll(g, L) = LoadAll(h, L)
  <1>1. DOMAIN L = 1..Len(L)
    BY LenProperties
  <1>2. \A k \in DOMAIN L : LoadFrom(g, L[k].buffptr, L[k].size) = LoadFrom(h, L[k].buffptr, L[k].size)
    BY <1>1, LoadFromSame
  <1> QED
    BY <1>2 DEF LoadAll

LEMMA LoadAllAppend ==
    ASSUME NEW h \in [Ptr -> Memory], NEW L \in Seq(Line), NEW e \in Line
    PROVE  LoadAll(h, Append(L, e)) = Append(LoadAll(h, L), LoadFrom(h, e.buffptr, e.size))
  <1> DEFINE x == Append(L, e)
             a == LoadAll(h, L)
             l == LoadFrom(h, e.buffptr, e.size)
             n == Len(L)
  <1>0. n \in Nat
    BY LenProperties
  <1>1. /\ x \in Seq(Line) /\ Len(x) = n + 1 /\ x[n + 1] = e
        /\ \A k \in 1..n : x[k] = L[k]
    BY AppendProperties
  <1>2. a \in Seq(Seq(Bytes)) /\ Len(a) = n /\ \A k \in 1..n : a[k] = LoadFrom(h, L[k].buffptr, L[k].size)
    BY LoadAllValue
  <1>3. l \in Seq(Bytes)
    BY LoadFromValue DEF Line
  <1> HIDE DEF x, a, l
  <1>4. /\ LoadAll(h, x) \in Seq(Seq(Bytes)) /\ Len(LoadAll(h, x)) = n + 1
        /\ \A k \in 1 .. n + 1 : LoadAll(h, x)[k] = LoadFrom(h, x[k].buffptr, x[k].size)
    BY <1>1, LoadAllValue
  <1>5. /\ Append(a, l) \in Seq(Seq(Bytes)) /\ Len(Append(a, l)) = n + 1 /\ Append(a, l)[n + 1] = l
        /\ \A k \in 1..n : Append(a, l)[k] = a[k]
    BY <1>2, <1>3, AppendProperties
  <1>6. ASSUME NEW k \in 1 .. n + 1
        PROVE  LoadAll(h, x)[k] = Append(a, l)[k]
    <2>1. k = n + 1 \/ k \in 1..n
      BY <1>0
    <2>2. CASE k = n + 1
      BY <1>1, <1>4, <1>5, <2>2 DEF l
    <2>3. CASE k \in 1..n
      BY <1>1, <1>2, <1>4, <1>5, <2>3
    <2> QED
      BY <2>1, <2>2, <2>3
  <1>7. LoadAll(h, x) = Append(a, l)
    BY <1>4, <1>5, <1>6, SeqEqual
  <1> QED
    BY <1>7 DEF x, a, l

LEMMA LoadAllTail ==
    ASSUME NEW h \in [Ptr -> Memory], NEW L \in Seq(Line), L # <<>>
    PROVE  LoadAll(h, Tail(L)) = Tail(LoadAll(h, L))
  <1> DEFINE x == Tail(L)
             a == LoadAll(h, L)
             n == Len(L)
  <1>0. n \in Nat /\ n # 0
    BY LenProperties, EmptySeq
  <1>1. x \in Seq(Line) /\ Len(x) = n - 1 /\ \A k \in 1 .. n - 1 : x[k] = L[k + 1]
    BY HeadTailProperties
  <1>2. a \in Seq(Seq(Bytes)) /\ Len(a) = n /\ \A k \in 1..n : a[k] = LoadFrom(h, L[k].buffptr, L[k].size)
    BY LoadAllValue
  <1> HIDE DEF x, a
  <1>3. a # <<>>
    BY <1>0, <1>2, EmptySeq
  <1>4. Tail(a) \in Seq(Seq(Bytes)) /\ Len(Tail(a)) = n - 1 /\ \A k \in 1 .. n - 1 : Tail(a)[k] = a[k + 1]
    BY <1>2, <1>3, HeadTailProperties
  <1>5. /\ LoadAll(h, x) \in Seq(Seq(Bytes)) /\ Len(LoadAll(h, x)) = n - 1
        /\ \A k \in 1 .. n - 1 : LoadAll(h, x)[k] = LoadFrom(h, x[k].buffptr, x[k].size)
    BY <1>1, LoadAllValue
  <1>6. ASSUME NEW k \in 1 .. n - 1
        PROVE  LoadAll(h, x)[k] = Tail(a)[k]
    <2>1. k + 1 \in 1..n
      BY <1>0
    <2> QED
      BY <1>1, <1>2, <1>4, <1>5, <2>1
  <1>7. LoadAll(h, x) = Tail(a)
    BY <1>4, <1>5, <1>6, SeqEqual
  <1> QED
    BY <1>7 DEF x, a
-----------------------------------------------------------------------------
(* The driver implements LineLog. *)

LEMMA LinesAre ==
    /\ module # "unloaded" => lines = LoadAll(heap, OldestFirst(circular_buffer))
    /\ module' # "unloaded" => lines' = LoadAll(heap', OldestFirst(circular_buffer'))
  BY DEF lines, Load, LoadAll, LoadFrom

LEMMA PartialIs ==
    /\ module # "unloaded" /\ Joined = {}
       => partial = LoadFrom(heap, buffer_entry.buffptr, buffer_entry.size)
    /\ module' # "unloaded" /\ Joined' = {}
       => partial' = LoadFrom(heap', buffer_entry'.buffptr, buffer_entry'.size)
  BY DEF partial, Load, LoadFrom

LEMMA PartialIsJoined ==
    ASSUME NEW p
    PROVE  /\ module # "unloaded" /\ Joined = {p}
              => partial = LoadFrom(heap, k_buf[p], buffer_entry.size)
           /\ module' # "unloaded" /\ Joined' = {p}
              => partial' = LoadFrom(heap', k_buf'[p], buffer_entry'.size)
  <1>1. (CHOOSE q \in {p} : TRUE) = p
    OBVIOUS
  <1> QED
    BY <1>1 DEF partial, Load, LoadFrom

(* A step that changes neither the device nor a call that has joined its   *)
(* bytes to the line is invisible.                                         *)
LEMMA Invisible ==
    ASSUME UNCHANGED <<circular_buffer, buffer_entry, heap>>,
           module' = module \/ (module # "unloaded" /\ module' # "unloaded"),
           Joined' = Joined, \A q \in Joined : k_buf'[q] = k_buf[q]
    PROVE  UNCHANGED <<lines, partial>>
  <1>1. CASE module = "unloaded"
    BY <1>1 DEF lines, partial
  <1>2. CASE module # "unloaded"
    <2>1. module' # "unloaded"
      BY <1>2
    <2>2. lines' = lines
      BY <1>2, <2>1, LinesAre
    <2>3. CASE Joined = {}
      BY <1>2, <2>1, <2>2, <2>3, PartialIs
    <2>4. CASE Joined # {}
      <3>1. (CHOOSE q \in Joined : TRUE) \in Joined
        BY <2>4
      <3>2. partial' = partial
        BY <1>2, <2>1, <2>4, <3>1 DEF partial, Load
      <3> QED
        BY <2>2, <3>2
    <2> QED
      BY <2>3, <2>4
  <1> QED
    BY <1>1, <1>2

(* The steps of a call that are invisible. *)
LEMMA InvisibleCall ==
    ASSUME Inv, NEW p \in Proc,
           \/ Syscall(p) \/ Acquire(p) \/ Interrupted(p) \/ Return(p) \/ WriteOops(p)
           \/ ReadFind(p) \/ ReadCopy(p) \/ LlseekSize(p) \/ LlseekMove(p)
           \/ IoctlFind(p) \/ IoctlSet(p)
    PROVE  /\ UNCHANGED <<loading, device, heap>>
           /\ pc[p] \notin {"store", "populate"} /\ pc'[p] \notin {"store", "populate"}
           /\ \A q \in Proc : q # p => pc'[q] = pc[q] /\ k_buf'[q] = k_buf[q]
  <1>1. CASE Syscall(p)
    <2>1. /\ pc[p] = "idle" /\ UNCHANGED <<loading, device, heap, k_buf>>
          /\ Goto(p, "lock") \/ Goto(p, "ret")
      <3>1. PICK f \in File : SysRead(p, f) \/ SysWrite(p, f) \/ SysLlseek(p, f) \/ SysIoctl(p, f)
        BY <1>1 DEF Syscall
      <3> QED
        BY <3>1 DEF SysRead, SysWrite, SysLlseek, SysIoctl, Enter
    <2> QED
      BY <2>1, GotoValue
  <1>2. CASE ~Syscall(p)
    <2>1. /\ UNCHANGED <<loading, device, heap>>
          /\ pc[p] \notin {"store", "populate"}
          /\ \E l \in {"in", "ret", "idle", "dead", "copy", "move", "set"} : Goto(p, l)
      BY <1>2 DEF Acquire, Interrupted, Return, WriteOops, ReadFind, ReadCopy, LlseekSize,
                  LlseekMove, IoctlFind, IoctlSet, UnlockAndReturn
    <2>2. \A q \in Proc : q # p => k_buf'[q] = k_buf[q]
      BY <1>2 DEF Acquire, Interrupted, Return, WriteOops, ReadFind, ReadCopy, LlseekSize,
                  LlseekMove, IoctlFind, IoctlSet, Forgotten, locals, Inv, MemoryTypeOK
    <2> QED
      BY <2>1, <2>2, GotoValue
  <1> QED
    BY <1>1, <1>2

(* A step of p between steps at which it has not joined anything. *)
LEMMA InvisibleStep ==
    ASSUME NEW p \in Proc, UNCHANGED <<module, circular_buffer, buffer_entry, heap>>,
           pc[p] # "populate", pc'[p] # "populate",
           \A q \in Proc : q # p => pc'[q] = pc[q] /\ k_buf'[q] = k_buf[q]
    PROVE  UNCHANGED <<lines, partial>>
  <1>1. Joined' = Joined /\ \A q \in Joined : k_buf'[q] = k_buf[q]
    BY DEF Joined
  <1> QED
    BY <1>1, Invisible

(* Every line of the log is in a slot. *)
LEMMA LogSlots ==
    ASSUME NEW b, WellFormed(b, Line)
    PROVE  /\ OldestFirst(b) \in Seq(Line)
           /\ \A k \in 1..Len(OldestFirst(b)) :
                  /\ OldestFirst(b)[k] \in Line
                  /\ \E i \in Slots : OldestFirst(b)[k] = b.entry[i]
  <1> DEFINE L == OldestFirst(b)
  <1>1. /\ L \in Seq(Line) /\ Len(L) = IF b.full THEN N ELSE b.in_offs
        /\ \A k \in 1..Len(L) : L[k] = b.entry[IF b.out_offs + k - 1 < N
                                               THEN b.out_offs + k - 1
                                               ELSE b.out_offs + k - 1 - N]
    BY LogValue
  <1>2. /\ b.in_offs \in 0 .. N - 1 /\ b.out_offs \in 0 .. N - 1 /\ N \in Nat
        /\ (~b.full => b.out_offs = 0)
    BY NAssumption DEF WellFormed, Slots
  <1> HIDE DEF L
  <1>3. ASSUME NEW k \in 1..Len(L)
        PROVE  L[k] \in Line /\ \E i \in Slots : L[k] = b.entry[i]
    <2> DEFINE i == IF b.out_offs + k - 1 < N THEN b.out_offs + k - 1 ELSE b.out_offs + k - 1 - N
    <2>1. i \in 0 .. N - 1
      BY <1>1, <1>2, SMTT(30)
    <2>2. L[k] = b.entry[i]
      BY <1>1
    <2>3. L[k] \in Line
      BY <1>1, ElementOfSeq
    <2> HIDE DEF i
    <2> QED
      BY <2>1, <2>2, <2>3 DEF Slots
  <1> QED
    BY <1>1, <1>3 DEF L

(* The memory of a line of the log is allocated, and nobody else's. *)
LEMMA LogPtrs ==
    ASSUME WellFormed(circular_buffer, Line), EntriesValid
    PROVE  /\ OldestFirst(circular_buffer) \in Seq(Line)
           /\ \A k \in 1..Len(OldestFirst(circular_buffer)) :
                  LET P == OldestFirst(circular_buffer)[k].buffptr
                  IN  P \in Ptr /\ P \in EntryPtrs /\ heap[P].state = "allocated"
  <1> DEFINE L == OldestFirst(circular_buffer)
  <1>1. /\ L \in Seq(Line)
        /\ \A k \in 1..Len(L) : L[k] \in Line /\ \E i \in Slots : L[k] = circular_buffer.entry[i]
    BY LogSlots
  <1> HIDE DEF L
  <1>2. ASSUME NEW k \in 1..Len(L)
        PROVE  LET P == L[k].buffptr
               IN  P \in Ptr /\ P \in EntryPtrs /\ heap[P].state = "allocated"
    BY <1>1, PtrAssumption DEF Line, EntryPtrs, EntriesValid, Holds
  <1> QED
    BY <1>1, <1>2 DEF L

LEMMA WriteAllocRefines ==
    ASSUME LogInv, NEW p \in Proc, WriteAlloc(p)
    PROVE  UNCHANGED <<lines, partial>>
  <1>1. /\ pc[p] = "in" /\ pc[p] \in Inside /\ pc[p] # "populate"
        /\ UNCHANGED <<module, circular_buffer, buffer_entry>>
    BY DEF WriteAlloc, loading, device, Inside
  <1>2. CASE UnlockAndReturn(p) /\ UNCHANGED <<heap, k_buf>>
    <2>1. pc'[p] # "populate" /\ \A q \in Proc : q # p => pc'[q] = pc[q]
      BY <1>2, GotoValue DEF UnlockAndReturn, LogInv
    <2> QED
      BY <1>1, <1>2, <2>1, InvisibleStep
  <1>3. ASSUME NEW ptr \in FreePtrs, NEW s \in Seq(Bytes),
               heap' = kmalloc(heap, ptr, s), Goto(p, "store")
        PROVE  UNCHANGED <<lines, partial>>
    <2> DEFINE L == OldestFirst(circular_buffer)
               B == buffer_entry.buffptr
    <2>1. /\ Inv /\ MemoryTypeOK /\ heap \in [Ptr -> Memory] /\ WellFormed(circular_buffer, Line)
          /\ module = "loaded" /\ EntriesValid /\ PartialValid
      BY <1>1, LoadedInside DEF LogInv, Inv, MemoryTypeOK
    <2>2. ptr \in Ptr /\ heap[ptr].state = "free"
      BY <1>3 DEF FreePtrs
    <2>3. \A q \in Ptr \ {ptr} : heap'[q] = heap[q]
      <3>1. heap \in [Ptr -> Memory] /\ ptr \in Ptr /\ s \in Seq(Bytes)
        BY <1>3, <2>1, <2>2
      <3>2. ASSUME NEW q \in Ptr \ {ptr}
            PROVE  kmalloc(heap, ptr, s)[q] = heap[q]
        BY <3>1 DEF kmalloc
      <3> QED
        BY <1>3, <3>2
    <2>4. Joined = {} /\ Joined' = {}
      <3>1. \A q \in Proc : q # p => pc[q] \notin Inside
        BY <1>1, <2>1, OneInside DEF Inv
      <3>2. pc'[p] = "store" /\ \A q \in Proc : q # p => pc'[q] = pc[q]
        BY <1>3, <2>1, GotoValue
      <3> QED
        BY <1>1, <3>1, <3>2 DEF Joined, Inside
    <2>5. \A k \in 1..Len(L) : heap'[L[k].buffptr] = heap[L[k].buffptr]
      BY <2>1, <2>2, <2>3, LogPtrs
    <2>6. L \in Seq(Line)
      BY <2>1, LogPtrs
    <2>7. LoadAll(heap', L) = LoadAll(heap, L)
      <3> HIDE DEF L
      <3> QED
        BY <2>5, <2>6, LoadAllSame
    <2>8. B \in Ptr => heap'[B] = heap[B]
      BY <2>1, <2>2, <2>3, <2>4, PtrAssumption DEF PartialValid, Holds
    <2>9. LoadFrom(heap', B, buffer_entry.size) = LoadFrom(heap, B, buffer_entry.size)
      BY <2>8, LoadFromSame
    <2> QED
      BY <1>1, <2>1, <2>4, <2>7, <2>9, LinesAre, PartialIs
  <1>4. ASSUME NEW n \in Copied(Len(call[p].arg))
        PROVE  copy_from_user(call[p].arg, n) \in Seq(Bytes)
    <2>1. call[p].arg \in Payloads
      BY <1>1 DEF WriteAlloc, LogInv, Inv, Sessions
    <2> QED
      BY <1>4, <2>1, CopyValue
  <1> QED
    BY <1>2, <1>3, <1>4 DEF WriteAlloc

LEMMA WriteJoinRefines ==
    ASSUME LogInv, NEW p \in Proc, WriteJoin(p)
    PROVE  UNCHANGED <<lines, partial>>
  <1>1. /\ pc[p] = "store" /\ pc[p] \in Inside /\ pc[p] # "populate" /\ buffer_entry.size # 0
        /\ UNCHANGED <<module, circular_buffer, buffer_entry>>
    BY DEF WriteJoin, loading, device, Inside
  <1>2. CASE UnlockAndReturn(p) /\ UNCHANGED <<heap, k_buf>>
    <2>1. pc'[p] # "populate" /\ \A q \in Proc : q # p => pc'[q] = pc[q]
      BY <1>2, GotoValue DEF UnlockAndReturn, LogInv
    <2> QED
      BY <1>1, <1>2, <2>1, InvisibleStep
  <1>3. ASSUME NEW temp_buf \in FreePtrs,
               heap' = kfree(kfree(kmalloc(heap, temp_buf, JoinedBytes(p)),
                                   buffer_entry.buffptr), k_buf[p]),
               k_buf' = [k_buf EXCEPT ![p] = temp_buf],
               Goto(p, "populate")
        PROVE  UNCHANGED <<lines, partial>>
    <2> DEFINE L == OldestFirst(circular_buffer)
               B == buffer_entry.buffptr
               m == buffer_entry.size
    <2>1. /\ Inv /\ MemoryTypeOK /\ heap \in [Ptr -> Memory] /\ WellFormed(circular_buffer, Line)
          /\ module = "loaded" /\ m \in Nat /\ EntriesValid
      BY <1>1, LoadedInside DEF LogInv, Inv, MemoryTypeOK, Entry
    <2>2. /\ temp_buf \in Ptr /\ temp_buf \notin EntryPtrs
          /\ k_buf[p] \notin EntryPtrs /\ B \notin EntryPtrs
          /\ heap' \in [Ptr -> Memory]
          /\ heap'[temp_buf] = [state |-> "allocated", bytes |-> JoinedBytes(p)]
          /\ \A q \in Ptr \ {temp_buf, B, k_buf[p]} : heap'[q] = heap[q]
          /\ JoinedBytes(p) \in Seq(Bytes) /\ Len(JoinedBytes(p)) = m + usr_count[p]
      BY <1>1, <1>3, <2>1, JoinMemory
    <2>3. Joined = {} /\ Joined' = {p} /\ k_buf'[p] = temp_buf
      <3>1. \A q \in Proc : q # p => pc[q] \notin Inside
        BY <1>1, <2>1, OneInside DEF Inv
      <3>2. pc'[p] = "populate" /\ \A q \in Proc : q # p => pc'[q] = pc[q]
        BY <1>3, <2>1, GotoValue
      <3> QED
        BY <1>1, <1>3, <2>1, <3>1, <3>2 DEF Joined, Inside, MemoryTypeOK
    <2>4. \A k \in 1..Len(L) : heap'[L[k].buffptr] = heap[L[k].buffptr]
      BY <2>1, <2>2, LogPtrs
    <2>5. L \in Seq(Line)
      BY <2>1, LogPtrs
    <2>6. LoadAll(heap', L) = LoadAll(heap, L)
      <3> HIDE DEF L
      <3> QED
        BY <2>4, <2>5, LoadAllSame
    <2>7. LoadFrom(heap', temp_buf, m) = LoadFrom(heap, B, m)
      <3>1. Load(B, m) = LoadFrom(heap, B, m)
        BY DEF Load, LoadFrom
      <3>2. \A i \in 1..m : JoinedBytes(p)[i] = LoadFrom(heap, B, m)[i]
        BY <2>1, <3>1, JoinedElements
      <3>3. \A i \in 1..m : i \in DOMAIN JoinedBytes(p)
        <4>1. usr_count[p] \in Nat
          BY <2>1 DEF MemoryTypeOK
        <4>2. DOMAIN JoinedBytes(p) = 1 .. m + usr_count[p]
          BY <2>2, LenProperties
        <4> QED
          BY <2>1, <4>1, <4>2
      <3>4. \A i \in 1..m : LoadFrom(heap', temp_buf, m)[i] = JoinedBytes(p)[i]
        BY <2>2, <3>3 DEF LoadFrom
      <3>5. /\ LoadFrom(heap', temp_buf, m) \in Seq(Bytes) /\ Len(LoadFrom(heap', temp_buf, m)) = m
            /\ LoadFrom(heap, B, m) \in Seq(Bytes) /\ Len(LoadFrom(heap, B, m)) = m
        BY <2>1, <2>2, LoadFromValue
      <3> QED
        BY <3>2, <3>4, <3>5, SeqEqual
    <2> QED
      BY <1>1, <2>1, <2>3, <2>6, <2>7, LinesAre, PartialIs, PartialIsJoined
  <1> QED
    BY <1>2, <1>3 DEF WriteJoin

(* The bytes of a write join the unfinished line, whatever way they took   *)
(* there.                                                                  *)
LEMMA StoredBytes ==
    ASSUME LogInv, NEW p \in Proc, WriteStore(p)
    PROVE  LoadFrom(heap, k_buf[p], buffer_entry.size + usr_count[p])
               = partial \o SubSeq(call[p].arg, 1, usr_count[p])
  <1> DEFINE m == buffer_entry.size
             n == usr_count[p]
             K == k_buf[p]
             w == call[p].arg
  <1>1. /\ pc[p] \in Inside /\ pc[p] \in {"store", "populate"} /\ (pc[p] = "store" => m = 0)
        /\ m \in Nat /\ n \in Nat /\ K \in Ptr /\ m + n <= Len(heap[K].bytes)
        /\ w \in Payloads /\ Taken(call[p], n, heap[K].bytes, m)
    BY StoreFacts
  <1>2. Inv /\ module = "loaded" /\ heap \in [Ptr -> Memory] /\ w \in Seq(Byte)
    BY <1>1, LoadedInside, UserAssumption DEF LogInv, Inv, MemoryTypeOK
  <1>3. \A q \in Proc : q # p => pc[q] \notin Inside
    BY <1>1, <1>2, OneInside DEF Inv
  <1>4. partial = LoadFrom(heap, K, m)
    <2>1. CASE pc[p] = "store"
      <3>1. Joined = {}
        BY <1>3, <2>1 DEF Joined, Inside
      <3>2. LoadFrom(heap, buffer_entry.buffptr, 0) = <<>> /\ LoadFrom(heap, K, 0) = <<>>
        BY LoadFromEmpty
      <3> QED
        BY <1>1, <1>2, <2>1, <3>1, <3>2, PartialIs
    <2>2. CASE pc[p] = "populate"
      <3>1. Joined = {p}
        BY <1>3, <2>2 DEF Joined, Inside
      <3> QED
        BY <1>2, <3>1, PartialIsJoined
    <2> QED
      BY <1>1, <2>1, <2>2
  <1>5. n <= Len(w) /\ \A i \in 1..n : heap[K].bytes[m + i] = w[i]
    BY <1>1 DEF Taken
  <1> HIDE DEF m, n, K, w
  <1>6. LoadFrom(heap, K, m + n) = LoadFrom(heap, K, m) \o SubSeq(w, 1, n)
    BY <1>1, <1>2, <1>5, LoadFromSplit
  <1> QED
    BY <1>4, <1>6 DEF m, n, K, w

LEMMA WriteStoreRefines ==
    ASSUME LogInv, NEW p \in Proc, WriteStore(p)
    PROVE  [Lines!LineNext]_(Lines!lineVars)
  <1> DEFINE m == buffer_entry.size
             n == usr_count[p]
             K == k_buf[p]
             w == call[p].arg
             entry == [buffptr |-> K, size |-> m + n]
             L == OldestFirst(circular_buffer)
             M == OldestFirst(circular_buffer')
             bytes == partial \o SubSeq(w, 1, n)
  <1>1. /\ pc[p] \in Inside /\ m \in Nat /\ n \in Nat /\ K \in Ptr
        /\ w \in Payloads /\ Taken(call[p], n, heap[K].bytes, m)
        /\ call[p].newline => n # 0
    BY StoreFacts
  <1>2. /\ Inv /\ module = "loaded" /\ heap \in [Ptr -> Memory] /\ MemoryTypeOK
        /\ w \in Seq(Byte) /\ WellFormed(circular_buffer, Line) /\ EntriesValid
    BY <1>1, LoadedInside, UserAssumption DEF LogInv, Inv, MemoryTypeOK
  <1>3. LoadFrom(heap, K, m + n) = bytes
    BY StoredBytes
  <1>4. Joined' = {} /\ module' = "loaded" /\ Inv'
    <2>1. \A q \in Proc : q # p => pc[q] \notin Inside
      BY <1>1, <1>2, OneInside DEF Inv
    <2>2. pc'[p] = "ret" /\ \A q \in Proc : q # p => pc'[q] = pc[q]
      BY <1>2, GotoValue DEF WriteStore, UnlockAndReturn
    <2> QED
      BY <1>2, <2>1, <2>2, WriteStoreInv DEF Joined, Inside, WriteStore, loading
  <1>5. lines = LoadAll(heap, L) /\ lines' = LoadAll(heap', M)
    BY <1>2, <1>4, LinesAre
  <1>6. partial' = LoadFrom(heap', buffer_entry'.buffptr, buffer_entry'.size)
    BY <1>4, PartialIs
  <1>7. n <= Len(w) /\ (call[p].newline <=> (n = Len(w) /\ w[n] = NL)) /\ Len(w) \in Nat
    BY <1>1, <1>2, LenProperties DEF Taken
  <1>8. ASSUME ~call[p].newline
        PROVE  [Lines!LineNext]_(Lines!lineVars)
    <2>1. buffer_entry' = entry /\ UNCHANGED <<circular_buffer, heap>>
      BY <1>8 DEF WriteStore
    <2>2. lines' = lines /\ partial' = bytes
      BY <1>3, <1>5, <1>6, <2>1
    <2>3. CASE n = 0
      <3>1. bytes = partial
        <4>1. SubSeq(w, 1, 0) = <<>>
          BY <1>2
        <4>2. partial \in Seq(Bytes)
          <5>1. \E ptr : partial = LoadFrom(heap, ptr, m)
            BY <1>2 DEF partial, Load, LoadFrom
          <5> QED
            BY <1>1, <1>2, <5>1, LoadFromValue
        <4> QED
          BY <2>3, <4>1, <4>2, ConcatEmptySeq
      <3> QED
        BY <2>2, <3>1 DEF Lines!lineVars
    <2>4. CASE n # 0
      <3>1. n \in 1..Len(w) /\ ~(n = Len(w) /\ w[n] = NL)
        BY <1>1, <1>7, <1>8, <2>4
      <3>2. Lines!Accept(w, n)
        BY <2>2, <3>1 DEF Lines!Accept
      <3> QED
        BY <1>1, <3>1, <3>2 DEF Lines!LineNext
    <2> QED
      BY <2>3, <2>4
  <1>9. ASSUME call[p].newline
        PROVE  [Lines!LineNext]_(Lines!lineVars)
    <2>1. /\ circular_buffer' = aesd_circular_buffer_add_entry(circular_buffer, entry)
          /\ heap' = kfree(heap, ptr_return(circular_buffer))
          /\ buffer_entry' = EmptyEntry
      BY <1>9 DEF WriteStore, Commit
    <2>2. entry \in Line
      BY <1>1, <1>9 DEF Line
    <2>3. /\ M = IF Len(L) < N THEN Append(L, entry) ELSE Append(Tail(L), entry)
          /\ ptr_return(circular_buffer) = IF Len(L) < N THEN NULL ELSE Head(L).buffptr
      <3> HIDE DEF entry
      <3> QED
        BY <1>2, <2>1, <2>2, LineIsUsed, AddIsPush
    <2>4. WellFormed(circular_buffer', Line)
      <3> HIDE DEF entry
      <3> QED
        BY <1>2, <2>1, <2>2, LineIsUsed, AddWellFormed
    <2>5. ptr_return(circular_buffer) \in Ptr \cup {NULL}
      BY <1>2 DEF ptr_return, MemoryTypeOK, Entry, Slots
    <2>6. L \in Seq(Line) /\ Len(L) \in Nat
      BY <1>2, LogPtrs, LenProperties
    <2>7. /\ M \in Seq(Line)
          /\ \A k \in 1..Len(M) : heap'[M[k].buffptr] = heap[M[k].buffptr]
      <3>1. /\ M \in Seq(Line)
            /\ \A k \in 1..Len(M) : M[k] \in Line /\ \E i \in Slots : M[k] = circular_buffer'.entry[i]
        BY <2>4, LogSlots
      <3>2. EntriesValid'
        BY <1>4 DEF Inv, NoDanglingPointers
      <3>3. ASSUME NEW q \in Ptr, heap'[q].state = "allocated"
            PROVE  heap'[q] = heap[q]
        <4> DEFINE R == ptr_return(circular_buffer)
        <4>1. /\ \A x \in Ptr \ {R} : kfree(heap, R)[x] = heap[x]
              /\ R # NULL => kfree(heap, R)[R].state # "allocated"
          BY <1>2, <2>5, KfreeValue
        <4>2. q # R
          BY <2>1, <3>3, <4>1, PtrAssumption
        <4> QED
          BY <2>1, <4>1, <4>2
      <3>4. ASSUME NEW k \in 1..Len(M)
            PROVE  heap'[M[k].buffptr] = heap[M[k].buffptr]
        <4>1. M[k].buffptr \in Ptr
          BY <3>1 DEF Line
        <4>2. heap'[M[k].buffptr].state = "allocated"
          BY <3>1, <3>2, <4>1, PtrAssumption DEF EntriesValid, Holds
        <4> QED
          BY <3>3, <4>1, <4>2
      <3> QED
        BY <3>1, <3>4
    <2>8. lines' = LoadAll(heap, M)
      <3> HIDE DEF M
      <3> QED
        BY <1>5, <2>7, LoadAllSame
    <2>9. LoadFrom(heap, entry.buffptr, entry.size) = bytes
      BY <1>3
    <2>10. partial' = <<>>
      BY <1>6, <2>1, LoadFromEmpty DEF EmptyEntry
    <2>11. Len(lines) = Len(L)
      BY <1>2, <1>5, <2>6, LoadAllValue
    <2> HIDE DEF entry, bytes, L, M
    <2>12. lines' = IF Len(lines) < N THEN Append(lines, bytes) ELSE Append(Tail(lines), bytes)
      <3>1. CASE Len(L) < N
        BY <1>2, <1>5, <2>2, <2>3, <2>6, <2>8, <2>9, <2>11, <3>1, LoadAllAppend
      <3>2. CASE ~(Len(L) < N)
        <4>1. L # <<>>
          BY <3>2, NAssumption
        <4>2. Tail(L) \in Seq(Line)
          BY <2>6, <4>1, HeadTailProperties
        <4>3. LoadAll(heap, Tail(L)) = Tail(lines)
          BY <1>2, <1>5, <2>6, <4>1, LoadAllTail
        <4>4. LoadAll(heap, Append(Tail(L), entry))
                  = Append(LoadAll(heap, Tail(L)), LoadFrom(heap, entry.buffptr, entry.size))
          BY <1>2, <2>2, <4>2, LoadAllAppend
        <4> QED
          BY <2>3, <2>8, <2>9, <2>11, <3>2, <4>3, <4>4
      <3> QED
        BY <3>1, <3>2
    <2>13. n \in 1..Len(w) /\ n = Len(w) /\ w[n] = NL
      BY <1>1, <1>7, <1>9
    <2>14. Lines!Accept(w, n)
      BY <2>10, <2>12, <2>13 DEF Lines!Accept, bytes
    <2> QED
      BY <1>1, <2>13, <2>14 DEF Lines!LineNext
  <1> QED
    BY <1>8, <1>9

LEMMA LoaderRefines ==
    ASSUME LogInv, Loader
    PROVE  [Lines!LineNext]_(Lines!lineVars)
  <1>1. Inv /\ opened = {} /\ UNCHANGED <<pc, k_buf>>
    BY DEF LogInv, Loader, InitModule, SetupCdev, CleanupModule, CleanupInterrupted, CleanupFree,
           files, locals, Inv, Sessions
  <1>2. Joined = {} /\ Joined' = {}
    BY <1>1, NobodyInside DEF Joined
  <1>3. CASE module' = "unloaded"
    BY <1>3 DEF lines, partial, Lines!LineNext, Lines!Forget
  <1>4. CASE InitModule
    <2>1. lines = <<>> /\ partial = <<>>
      BY <1>4 DEF InitModule, lines, partial
    <2>2. module' # "unloaded" /\ buffer_entry' = EmptyEntry
          /\ circular_buffer' = aesd_circular_buffer_init
      BY <1>4 DEF InitModule
    <2>3. lines' = LoadAll(heap', <<>>)
      BY <2>2, LinesAre, InitIsEmpty
    <2>4. lines' = <<>>
      BY <2>3 DEF LoadAll
    <2>5. partial' = <<>>
      BY <1>2, <2>2, PartialIs, LoadFromEmpty DEF EmptyEntry
    <2> QED
      BY <2>1, <2>4, <2>5 DEF Lines!lineVars
  <1>5. CASE module' # "unloaded" /\ ~InitModule
    <2>1. /\ UNCHANGED <<circular_buffer, buffer_entry, heap>>
          /\ module # "unloaded" /\ module' # "unloaded"
      BY <1>5 DEF Loader, SetupCdev, CleanupModule, CleanupInterrupted, CleanupFree, device
    <2>2. UNCHANGED <<lines, partial>>
      BY <1>1, <1>2, <2>1, Invisible
    <2> QED
      BY <2>2 DEF Lines!lineVars
  <1> QED
    BY <1>3, <1>4, <1>5

LEMMA StepRefines == LogInv /\ [Next]_vars => [Lines!LineNext]_(Lines!lineVars)
  <1> SUFFICES ASSUME LogInv, [Next]_vars PROVE [Lines!LineNext]_(Lines!lineVars)
    OBVIOUS
  <1>1. CASE UNCHANGED vars
    <2>1. UNCHANGED <<lines, partial>>
      <3>1. UNCHANGED <<module, circular_buffer, buffer_entry, heap, pc, k_buf>>
        BY <1>1 DEF vars, loading, device, locals
      <3>2. Joined' = Joined
        BY <3>1 DEF Joined
      <3> QED
        BY <3>1, <3>2, Invisible
    <2> QED
      BY <2>1 DEF Lines!lineVars
  <1>2. CASE Loader
    BY <1>2, LoaderRefines
  <1>3. ASSUME NEW f \in File, Open(f) \/ Release(f)
        PROVE  UNCHANGED <<lines, partial>>
    <2>1. UNCHANGED <<module, circular_buffer, buffer_entry, heap, pc, k_buf>>
      BY <1>3 DEF Open, Release, loading, device, locals
    <2>2. Joined' = Joined
      BY <2>1 DEF Joined
    <2> QED
      BY <2>1, <2>2, Invisible
  <1>4. ASSUME NEW p \in Proc,
               \/ Syscall(p) \/ Acquire(p) \/ Interrupted(p) \/ Return(p) \/ WriteOops(p)
               \/ ReadFind(p) \/ ReadCopy(p) \/ LlseekSize(p) \/ LlseekMove(p)
               \/ IoctlFind(p) \/ IoctlSet(p)
        PROVE  UNCHANGED <<lines, partial>>
    <2>1. /\ UNCHANGED <<module, circular_buffer, buffer_entry, heap>>
          /\ pc[p] # "populate" /\ pc'[p] # "populate"
          /\ \A q \in Proc : q # p => pc'[q] = pc[q] /\ k_buf'[q] = k_buf[q]
      BY <1>4, InvisibleCall DEF LogInv, loading, device
    <2> QED
      BY <2>1, InvisibleStep
  <1>5. ASSUME NEW p \in Proc, WriteAlloc(p) \/ WriteJoin(p)
        PROVE  UNCHANGED <<lines, partial>>
    BY <1>5, WriteAllocRefines, WriteJoinRefines
  <1>6. ASSUME UNCHANGED <<lines, partial>>
        PROVE  [Lines!LineNext]_(Lines!lineVars)
    BY <1>6 DEF Lines!lineVars
  <1>7. ASSUME NEW p \in Proc, Body(p)
        PROVE  [Lines!LineNext]_(Lines!lineVars)
    BY <1>4, <1>5, <1>6, <1>7, WriteStoreRefines DEF Body
  <1> QED
    BY <1>1, <1>2, <1>3, <1>4, <1>6, <1>7 DEF Next

(* However many processes write, on however many files, the bytes of all   *)
(* writes accepted form one stream of lines, each write whole and at one   *)
(* instant, of which the device keeps the last N complete lines: memory    *)
(* that runs out and user buffers that fault do not tear a line.           *)
THEOREM DeviceIsLineLog == Spec => LineSpec
  <1>1. Init => Lines!Blank
    BY DEF Init, lines, partial, Lines!Blank
  <1> QED
    BY <1>1, StepRefines, LogInvariant, PTL DEF Spec, LineSpec, Lines!LineSpec
-----------------------------------------------------------------------------
(* What readers and seekers see. *)

(* The contents of the device, byte by byte. *)
LEMMA ContentsAre ==
    ASSUME Inv, WellFormed(circular_buffer, Line), module # "unloaded"
    PROVE  LET B == BytesBefore(circular_buffer)
               L == OldestFirst(circular_buffer)
           IN  /\ Len(L) \in 0..N
               /\ lines \in Seq(Seq(Bytes)) /\ Len(lines) = Len(L)
               /\ \A k \in 1..Len(L) : lines[k] = Load(L[k].buffptr, L[k].size)
               /\ \A k \in 0..Len(L) : Len(FlattenSeq(SubSeq(lines, 1, k))) = B[k]
               /\ Contents \in Seq(Bytes) /\ Len(Contents) = B[N]
               /\ \A k \in 1..Len(L) : \A i \in 1..L[k].size :
                      Contents[B[k-1] + i] = Load(L[k].buffptr, L[k].size)[i]
  <1> DEFINE b == circular_buffer
             B == BytesBefore(b)
             L == OldestFirst(b)
             n == Len(L)
  <1>1. heap \in [Ptr -> Memory]
    BY DEF Inv, MemoryTypeOK
  <1>2. L \in Seq(Line) /\ n \in 0..N /\ N \in Nat
    <2>1. 0 \in Slots /\ N \in Nat
      BY NAssumption DEF Slots
    <2> QED
      BY <2>1, LineIsUsed, LogSlots, SlotValue
  <1>3. lines = LoadAll(heap, L)
    BY LinesAre
  <1>4. /\ lines \in Seq(Seq(Bytes)) /\ Len(lines) = n /\ lines \in [1..n -> Seq(Bytes)]
        /\ \A k \in 1..n : lines[k] = LoadFrom(heap, L[k].buffptr, L[k].size)
        /\ \A k \in 1..n : Len(lines[k]) = L[k].size
    BY <1>1, <1>2, <1>3, LoadAllValue
  <1>5. \A k \in 1..n : lines[k] = Load(L[k].buffptr, L[k].size)
    BY <1>4 DEF Load, LoadFrom
  <1>6. ASSUME NEW k \in 0..n
        PROVE  Joins(FlattenSeq(SubSeq(lines, 1, k)), Bytes, SubSeq(lines, 1, k), B, k)
    <2> DEFINE s == SubSeq(lines, 1, k)
    <2> SUFFICES Joins(FlattenSeq(s), Bytes, s, B, k)
      OBVIOUS
    <2>0. k \in Nat /\ k <= n /\ \A i \in 1..k : i \in 1..n
      BY <1>2, <1>6
    <2>1. s \in [1..k -> Seq(Bytes)] /\ \A i \in 1..k : s[i] = lines[i]
      <3>1. k \in 0..Len(lines)
        BY <1>4, <1>6
      <3> QED
        BY <1>4, <3>1, Prefix
    <2>2. \A i \in 1..k : Len(s[i]) = L[i].size
      BY <1>2, <1>4, <1>6, <2>1
    <2>3. k \in 0..Len(OldestFirst(b))
      BY <1>6
    <2> HIDE DEF s
    <2> QED
      BY <2>1, <2>2, <2>3, LineIsUsed, ContentsValue
  <1>7. Joins(Contents, Bytes, lines, B, n)
    <2>1. n \in 0..Len(OldestFirst(b))
      BY <1>2
    <2> QED
      BY <1>4, <2>1, LineIsUsed, ContentsValue DEF Contents
  <1>8. B[N] = B[n]
    <2>1. \A k \in Len(L)..N : B[k] = B[Len(L)]
      BY LineIsUsed, Positions
    <2> HIDE DEF B, L
    <2> QED
      BY <1>2, <2>1
  <1>9. \A k \in 0..n : Len(FlattenSeq(SubSeq(lines, 1, k))) = B[k]
    BY <1>6 DEF Joins
  <1>10. /\ Contents \in Seq(Bytes) /\ Len(Contents) = B[N]
         /\ \A k \in 1..n : \A i \in 1..L[k].size :
                Contents[B[k-1] + i] = Load(L[k].buffptr, L[k].size)[i]
    <2>1. ASSUME NEW k \in 1..n, NEW i \in 1..L[k].size
          PROVE  Contents[B[k-1] + i] = Load(L[k].buffptr, L[k].size)[i]
      <3> HIDE DEF B, L
      <3>1. i \in 1..Len(lines[k]) /\ lines[k] = Load(L[k].buffptr, L[k].size)
        BY <1>4, <1>5
      <3>2. Contents[B[k-1] + i] = lines[k][i]
        BY <1>7, <3>1 DEF Joins
      <3> QED
        BY <3>1, <3>2
    <2> HIDE DEF B, L
    <2> QED
      BY <1>7, <1>8, <2>1 DEF Joins
  <1> QED
    BY <1>2, <1>4, <1>5, <1>9, <1>10

(* A call that leaves the region leaves it by a step of its own. *)
LEMMA LeavesByBody ==
    ASSUME LogInv, [Next]_vars, NEW p \in Proc, pc[p] \in Inside, pc'[p] = "ret"
    PROVE  Body(p)
  <1>1. pc'[p] # pc[p]
    BY DEF Inside
  <1>2. pc' # pc
    BY <1>1
  <1>3. PICK q \in Proc : Syscall(q) \/ Acquire(q) \/ Interrupted(q) \/ Body(q) \/ Return(q)
    BY <1>2 DEF Next, vars, Loader, InitModule, SetupCdev, CleanupModule, CleanupInterrupted,
                CleanupFree, Open, Release
  <1>4. \E l : Goto(q, l)
    <2>1. CASE Syscall(q)
      BY <2>1 DEF Syscall, SysRead, SysWrite, SysLlseek, SysIoctl
    <2>2. CASE Body(q)
      BY <2>2, Zenon DEF Body, ReadFind, ReadCopy, WriteAlloc, WriteOops, WriteJoin, WriteStore,
                  LlseekSize, LlseekMove, IoctlFind, IoctlSet, UnlockAndReturn
    <2> QED
      BY <1>3, <2>1, <2>2 DEF Acquire, Interrupted, Return
  <1>5. q = p
    BY <1>1, <1>4, GotoValue DEF LogInv
  <1>6. pc[p] \notin {"idle", "lock", "ret"}
    BY DEF Inside
  <1>7. ~Syscall(p)
    BY <1>6 DEF Syscall, SysRead, SysWrite, SysLlseek, SysIoctl, Enter
  <1> QED
    BY <1>3, <1>5, <1>6, <1>7 DEF Acquire, Interrupted, Return

(* Which of them, by the operation: a step is one of the operation that    *)
(* the call is for.                                                        *)
LEMMA BodyOf ==
    ASSUME LogInv, NEW p \in Proc, Body(p), call[p].op # "write"
    PROVE  /\ call[p].op = "read" => ReadFind(p) \/ ReadCopy(p)
           /\ call[p].op = "llseek" => LlseekSize(p) \/ LlseekMove(p)
           /\ call[p].op = "ioctl" => IoctlFind(p) \/ IoctlSet(p)
  <1>1. CallOK(p)
    BY DEF LogInv
  <1>2. /\ pc[p] = "copy" => call[p].op = "read"
        /\ pc[p] \notin {"store", "populate"}
        /\ pc[p] = "move" => call[p].op = "llseek"
        /\ pc[p] = "set" => call[p].op = "ioctl"
    BY <1>1 DEF CallOK, Found, Taken, Sized, Placed
  <1> QED
    BY <1>2 DEF Body, ReadFind, ReadCopy, WriteAlloc, WriteOops, WriteJoin, WriteStore,
                LlseekSize, LlseekMove, IoctlFind, IoctlSet

(* What a read returns, from its position. *)
ReadRight(p) ==
    LET n == Len(call'[p].data)
    IN  /\ call'[p].data = SubSeq(Contents, call[p].pos + 1, call[p].pos + n)
        /\ call'[p].pos = call[p].pos + n
        /\ n <= call[p].arg
        /\ n = 0 => call[p].arg = 0 \/ call[p].pos >= Len(Contents)

LEMMA ReadFindRight ==
    ASSUME LogInv, NEW p \in Proc, ReadFind(p), pc'[p] = "ret"
    PROVE  ReadRight(p)
  <1> DEFINE c == call[p]
             b == circular_buffer
             B == BytesBefore(b)
             found == aesd_circular_buffer_find_entry_offset_for_fpos(b, c.pos)
  <1>0. N \in Nat /\ N \in 0..N /\ Slots = 0 .. N - 1
    BY NAssumption DEF Slots
  <1>1. /\ pc[p] = "in" /\ c.op = "read" /\ Inv /\ module # "unloaded"
        /\ c \in Call /\ Pending(c) /\ WellFormed(b, Line) /\ DOMAIN call = Proc
    <2>1. pc[p] = "in" /\ pc[p] \in Inside
      BY DEF ReadFind, Inside
    <2> QED
      BY <2>1, LoadedInside DEF ReadFind, LogInv, CallOK, Inv, MemoryTypeOK
  <1>2. c.pos \in Nat /\ c.arg \in Nat /\ c.data = <<>>
    BY <1>1, UserAssumption DEF Call, Pending
  <1>3. found = NULL /\ call' = [call EXCEPT ![p].ok = TRUE]
    <2>1. "copy" # "ret"
      OBVIOUS
    <2> QED
      BY <1>1, <2>1, GotoValue DEF ReadFind
  <1>4. call'[p].data = <<>> /\ call'[p].pos = c.pos
    BY <1>1, <1>2, <1>3 DEF Call
  <1>5. Contents \in Seq(Bytes) /\ Len(Contents) = B[N]
    BY <1>1, ContentsAre
  <1>6. c.pos >= B[N]
    <2>1. /\ \A k \in 1..Len(OldestFirst(b)) : B[k-1] <= c.pos /\ c.pos < B[k]
                => found = [slot |-> Wrap(b.out_offs, k - 1), offset |-> c.pos - B[k-1]]
          /\ c.pos < B[N] => \E k \in 1..Len(OldestFirst(b)) : B[k-1] <= c.pos /\ c.pos < B[k]
      BY <1>1, <1>2, LineIsUsed, FindValue
    <2>2. B[N] \in Nat
      BY <1>0, <1>1, PositionsNat
    <2> SUFFICES ASSUME c.pos < B[N] PROVE FALSE
      BY <1>2, <2>2
    <2>3. PICK k \in 1..Len(OldestFirst(b)) : B[k-1] <= c.pos /\ c.pos < B[k]
      BY <2>1
    <2>4. found = [slot |-> Wrap(b.out_offs, k - 1), offset |-> c.pos - B[k-1]]
      BY <2>1, <2>3
    <2>5. Len(OldestFirst(b)) \in 0..N /\ N \in Nat
      <3>1. Len(OldestFirst(b)) \in 0..N
        BY <1>1, ContentsAre
      <3> QED
        BY <1>0, <3>1, Zenon
    <2>6. k - 1 \in Slots /\ k - 1 \in 0..N
      <3> HIDE DEF B, b, c, found
      <3> QED
        BY <1>0, <2>5
    <2>7. Wrap(b.out_offs, k - 1) \in Nat
      <3>1. Wrap(b.out_offs, k - 1) \in Slots
        BY <1>1, <2>6, LineIsUsed, SlotValue
      <3> QED
        BY <1>0, <3>1
    <2>8. c.pos - B[k-1] \in Nat
      <3>1. B[k-1] \in Nat
        BY <1>1, <2>6, PositionsNat
      <3> HIDE DEF B, c
      <3> QED
        BY <1>2, <2>3, <3>1
    <2> HIDE DEF found
    <2> QED
      BY <1>3, <2>4, <2>7, <2>8, NullAssumption
  <1>7. SubSeq(Contents, c.pos + 1, c.pos + 0) = <<>>
    BY <1>2, SubSeqEmpty
  <1>8. Len(call'[p].data) = 0
    BY <1>4
  <1> HIDE DEF c, B
  <1> QED
    BY <1>2, <1>4, <1>5, <1>6, <1>7, <1>8 DEF ReadRight, c

(* n elements of a sequence. *)
LEMMA Slice ==
    ASSUME NEW T, NEW x \in Seq(T), NEW m \in Nat, NEW n \in Nat, m + n <= Len(x)
    PROVE  /\ SubSeq(x, m + 1, m + n) \in Seq(T)
           /\ Len(SubSeq(x, m + 1, m + n)) = n
           /\ \A i \in 1..n : SubSeq(x, m + 1, m + n)[i] = x[m + i]
  <1> DEFINE y == SubSeq(x, m + 1, m + n)
  <1>1. Len(x) \in Nat
    BY LenProperties
  <1>2. \A i \in m + 1 .. m + n : i \in 1..Len(x)
    BY <1>1
  <1>3. \A i \in m + 1 .. m + n : x[i] \in T
    BY <1>2, ElementOfSeq
  <1>4. /\ y \in Seq(T)
        /\ Len(y) = IF m + 1 <= m + n THEN (m + n) - (m + 1) + 1 ELSE 0
        /\ \A i \in 1 .. (m + n) - (m + 1) + 1 : y[i] = x[(m + 1) + i - 1]
    BY <1>3, SubSeqProperties
  <1> HIDE DEF y
  <1>5. Len(y) = n /\ (m + n) - (m + 1) + 1 = n
    BY <1>4
  <1>6. ASSUME NEW i \in 1..n
        PROVE  y[i] = x[m + i]
    <2>1. (m + 1) + i - 1 = m + i
      OBVIOUS
    <2> QED
      BY <1>4, <1>5, <2>1
  <1> QED
    BY <1>4, <1>5, <1>6 DEF y

(* A load of more bytes begins with the load of fewer. *)
LEMMA LoadPrefix ==
    ASSUME NEW ptr, NEW m \in Nat, NEW n \in Nat, m <= n, NEW i \in 1..m
    PROVE  Load(ptr, m)[i] = Load(ptr, n)[i]
  <1>1. i \in 1..n
    OBVIOUS
  <1> QED
    BY <1>1 DEF Load

LEMMA ReadCopyRight ==
    ASSUME LogInv, NEW p \in Proc, ReadCopy(p), call'[p].ok
    PROVE  ReadRight(p)
  <1> DEFINE c == call[p]
             b == circular_buffer
             B == BytesBefore(b)
             L == OldestFirst(b)
             l == Load(c.from, c.off + c.num)
             d == SubSeq(l, c.off + 1, c.off + c.num)
  <1>1. /\ pc[p] = "copy" /\ Inv /\ module # "unloaded" /\ MemoryTypeOK
        /\ c \in Call /\ Pending(c) /\ Found(c, b) /\ WellFormed(b, Line) /\ DOMAIN call = Proc
    <2>1. pc[p] = "copy" /\ pc[p] \in Inside
      BY DEF ReadCopy, Inside
    <2> QED
      BY <2>1, LoadedInside DEF LogInv, CallOK, Inv, MemoryTypeOK
  <1>2. c.pos \in Nat /\ c.off \in Nat /\ c.num \in Nat /\ c.arg \in Nat /\ ~c.ok
    BY <1>1, UserAssumption DEF Call, Pending, Found
  <1>3. call'[p].data = d /\ call'[p].pos = c.pos + c.num
    <2>1. call' = [call EXCEPT ![p].data = d, ![p].pos = c.pos + c.num, ![p].ok = TRUE]
      BY <1>2 DEF ReadCopy
    <2> HIDE DEF d
    <2>2. call'[p] = [c EXCEPT !.data = d, !.pos = c.pos + c.num, !.ok = TRUE]
      BY <1>1, <2>1
    <2> HIDE DEF c
    <2> QED
      BY <1>1, <2>2 DEF Call
  <1>4. PICK k \in 1..Len(L) : /\ B[k-1] <= c.pos /\ c.pos < B[k]
                               /\ c.from = L[k].buffptr
                               /\ c.off = c.pos - B[k-1]
                               /\ c.num = bytes_to_copy(L[k].size - c.off, c.arg)
    BY <1>1 DEF Found
  <1> DEFINE S == L[k].size
             a == B[k-1]
  <1>5. Len(L) \in 0..N /\ k \in 0..N /\ k - 1 \in 0..N /\ N \in 0..N
    <2>1. Len(L) \in 0..N
      BY <1>1, ContentsAre
    <2> HIDE DEF L
    <2> QED
      BY <2>1, NAssumption
  <1>6. a \in Nat /\ B[k] \in Nat /\ B[N] \in Nat
    BY <1>1, <1>5, PositionsNat
  <1>7. B[k] = a + S /\ B[k] <= B[N]
    <2>1. /\ \A j \in 1..Len(L) : B[j] = B[j-1] + L[j].size
          /\ \A i, j \in 0..N : i <= j => B[i] <= B[j]
      BY <1>1, LineIsUsed, Positions
    <2>2. k <= N
      BY <1>5
    <2> HIDE DEF B, L
    <2> QED
      BY <1>5, <2>1, <2>2
  <1>8. S \in Nat
    <2>1. L \in Seq(Line)
      BY <1>1, LogSlots
    <2>2. L[k] \in Line
      BY <2>1, ElementOfSeq
    <2> HIDE DEF L
    <2> QED
      BY <2>2 DEF Line
  <1>9. /\ Contents \in Seq(Bytes) /\ Len(Contents) = B[N]
        /\ \A i \in 1..S : Contents[a + i] = Load(c.from, S)[i]
    <2>1. /\ Contents \in Seq(Bytes) /\ Len(Contents) = B[N]
          /\ \A j \in 1..Len(L) : \A i \in 1..L[j].size :
                 Contents[B[j-1] + i] = Load(L[j].buffptr, L[j].size)[i]
      BY <1>1, ContentsAre
    <2> HIDE DEF B, L
    <2> QED
      BY <1>4, <2>1
  <1>10. l \in Seq(Bytes) /\ Len(l) = c.off + c.num
    <2>1. c.off + c.num \in Nat
      <3> HIDE DEF c, a, B, L, S
      <3> QED
        BY <1>2
    <2> QED
      BY <1>1, <2>1, LoadValue
  <1> DEFINE bN == B[N]
             bk == B[k]
             off == c.off
             num == c.num
             pos == c.pos
             arg == c.arg
  <1>11. /\ pos \in Nat /\ off \in Nat /\ num \in Nat /\ arg \in Nat
         /\ a \in Nat /\ bk \in Nat /\ bN \in Nat /\ S \in Nat
         /\ bk = a + S /\ bk <= bN /\ a <= pos /\ pos < bk /\ off = pos - a
         /\ num = IF S - off < arg THEN S - off ELSE arg
    BY <1>2, <1>4, <1>6, <1>7, <1>8 DEF bytes_to_copy
  <1> HIDE DEF S, a, bN, bk, off, num, pos, arg
  <1>12. /\ off + num <= S /\ num <= arg /\ pos + num <= bN /\ (num = 0 => arg = 0)
         /\ pos = a + off
    BY <1>11
  <1>13. d \in Seq(Bytes) /\ Len(d) = num /\ \A i \in 1..num : d[i] = l[off + i]
    <2>1. off + num <= Len(l)
      BY <1>10, <1>11 DEF off, num
    <2> HIDE DEF l
    <2> QED
      BY <1>10, <1>11, <2>1, Slice DEF off, num
  <1>14. /\ SubSeq(Contents, pos + 1, pos + num) \in Seq(Bytes)
         /\ Len(SubSeq(Contents, pos + 1, pos + num)) = num
         /\ \A i \in 1..num : SubSeq(Contents, pos + 1, pos + num)[i] = Contents[pos + i]
    <2>1. pos + num <= Len(Contents)
      BY <1>9, <1>12 DEF bN
    <2>2. Contents \in Seq(Bytes) /\ pos \in Nat /\ num \in Nat
      BY <1>9, <1>11
    <2> QED
      BY <2>1, <2>2, Slice
  <1>15. ASSUME NEW i \in 1..num
         PROVE  d[i] = SubSeq(Contents, pos + 1, pos + num)[i]
    <2>1. off + i \in 1 .. off + num /\ off + i \in 1..S /\ off + num \in Nat /\ a + (off + i) = pos + i
      BY <1>11, <1>12
    <2>2. l[off + i] = Load(c.from, S)[off + i]
      <3>1. Load(c.from, off + num)[off + i] = Load(c.from, S)[off + i]
        BY <1>11, <1>12, <2>1, LoadPrefix
      <3> QED
        BY <3>1 DEF off, num
    <2>3. Contents[a + (off + i)] = Load(c.from, S)[off + i]
      BY <1>9, <2>1
    <2> QED
      BY <1>13, <1>14, <2>1, <2>2, <2>3
  <1> HIDE DEF d
  <1>16. d = SubSeq(Contents, pos + 1, pos + num)
    BY <1>13, <1>14, <1>15, SeqEqual
  <1> HIDE DEF c
  <1>17. /\ call'[p].data = SubSeq(Contents, c.pos + 1, c.pos + num) /\ call'[p].pos = c.pos + num
         /\ Len(call'[p].data) = num /\ num <= c.arg /\ (num = 0 => c.arg = 0)
    BY <1>3, <1>12, <1>13, <1>16 DEF pos, num, arg
  <1> QED
    BY <1>17 DEF ReadRight, c

(* A read returns the bytes at its position in the contents of the device, *)
(* however writers and other readers interleave with it, whether or not    *)
(* the buffer has wrapped around; and it returns none only when there are  *)
(* none there or none were asked for.                                      *)
THEOREM ReadsRight == Spec => ReadReturnsContents
  <1>1. LogInv /\ [Next]_vars =>
            [\A p \in Proc :
                /\ pc[p] \in Inside /\ pc'[p] = "ret"
                /\ call[p].op = "read" /\ call'[p].ok
                => LET n == Len(call'[p].data)
                   IN  /\ call'[p].data = SubSeq(Contents, call[p].pos + 1, call[p].pos + n)
                       /\ call'[p].pos = call[p].pos + n
                       /\ n <= call[p].arg
                       /\ n = 0 => call[p].arg = 0 \/ call[p].pos >= Len(Contents)]_vars
    <2> SUFFICES ASSUME LogInv, [Next]_vars, NEW p \in Proc,
                        pc[p] \in Inside, pc'[p] = "ret", call[p].op = "read", call'[p].ok
                 PROVE  ReadRight(p)
      BY Zenon DEF ReadRight
    <2>1. ReadFind(p) \/ ReadCopy(p)
      BY LeavesByBody, BodyOf
    <2> QED
      BY <2>1, ReadFindRight, ReadCopyRight
  <1> QED
    BY <1>1, LogInvariant, PTL DEF Spec, ReadReturnsContents

(* An lseek that succeeds ends inside the contents of the device, as long  *)
(* as the concatenation of its lines, or where the file already was.       *)
THEOREM LlseeksRight == Spec => LlseekStaysInside
  <1>1. LogInv /\ [Next]_vars =>
            [\A p \in Proc :
                /\ pc[p] \in Inside /\ pc'[p] = "ret"
                /\ call[p].op = "llseek" /\ call'[p].ok
                => \/ f_pos'[filp[p]] = f_pos[filp[p]]
                   \/ f_pos'[filp[p]] <= Len(Contents)]_vars
    <2> SUFFICES ASSUME LogInv, [Next]_vars, NEW p \in Proc,
                        pc[p] \in Inside, pc'[p] = "ret", call[p].op = "llseek", call'[p].ok
                 PROVE  \/ f_pos'[filp[p]] = f_pos[filp[p]]
                        \/ f_pos'[filp[p]] <= Len(Contents)
      BY Zenon
    <2> DEFINE c == call[p]
               f == filp[p]
               size == BytesBefore(circular_buffer)[N]
               target == fixed_size_llseek(f_pos[f], c.arg[1], c.arg[2], c.num)
    <2>1. /\ c \in Call /\ Pending(c) /\ Inv /\ module # "unloaded" /\ WellFormed(circular_buffer, Line)
          /\ f \in File /\ f_pos \in [File -> Nat]
      BY LoadedInside DEF LogInv, CallOK, Inv, Sessions, MemoryTypeOK, Numbers, Inside
    <2>2. LlseekMove(p)
      <3>1. LlseekSize(p) \/ LlseekMove(p)
        BY LeavesByBody, BodyOf
      <3>2. ~LlseekSize(p)
        <4>1. "move" # "ret"
          OBVIOUS
        <4> QED
          BY <2>1, <4>1, GotoValue DEF LlseekSize
      <3> QED
        BY <3>1, <3>2
    <2>3. c.num = size
      BY <2>2 DEF LlseekMove, LogInv, CallOK, Sized
    <2>4. Len(Contents) = size /\ size \in Nat
      <3>1. N \in 0..N
        BY NAssumption
      <3> QED
        BY <2>1, <3>1, ContentsAre, PositionsNat
    <2>5. target # -1 /\ f_pos' = [f_pos EXCEPT ![f] = target]
      BY <2>1, <2>2 DEF LlseekMove, Pending
    <2>6. f_pos'[f] = target
      BY <2>1, <2>5
    <2>7. c.arg[1] \in Int /\ f_pos[f] \in Nat
      <3>1. c.arg \in Seeks
        BY <2>1 DEF Pending
      <3> QED
        BY <2>1, <3>1, UserAssumption
    <2>8. target = f_pos[f] \/ target \in 0..size
      <3> DEFINE off == c.arg[1]
                 whence == c.arg[2]
                 t == CASE whence = "SEEK_SET" -> off
                        [] whence = "SEEK_CUR" -> f_pos[f] + off
                        [] whence = "SEEK_END" -> size + off
                        [] OTHER               -> -1
      <3>1. target = IF (whence = "SEEK_CUR" /\ off = 0) \/ t \in 0..size THEN t ELSE -1
        BY <2>3 DEF fixed_size_llseek
      <3>2. whence = "SEEK_CUR" /\ off = 0 => t = f_pos[f]
        BY <2>7
      <3> HIDE DEF t, size, off, whence
      <3> QED
        BY <2>5, <3>1, <3>2
    <2> HIDE DEF target, size, f
    <2> QED
      BY <2>4, <2>6, <2>8 DEF f
  <1> QED
    BY <1>1, LogInvariant, PTL DEF Spec, LlseekStaysInside

(* The command and the offset survive the copy of one byte only. *)
LEMMA DecodeUser ==
    ASSUME NEW arg \in IoctlArgs
    PROVE  /\ (arg.write_cmd \div 16) % 16 = (arg.user.write_cmd \div 16) % 16
           /\ arg.write_cmd % 16 = arg.user.write_cmd % 16
           /\ arg.user.write_cmd \in Nat /\ arg.user \in SeekTos
  <1>1. PICK s \in SeekTos, junk \in Junk :
            arg = [write_cmd |-> (s.write_cmd % 256) + 256 * junk,
                   write_cmd_offset |-> junk, user |-> s]
    BY DEF IoctlArgs
  <1>2. s.write_cmd \in Nat /\ junk \in Nat
    BY UserAssumption
  <1>3. \A x, y \in Nat : (((x % 256) + 256 * y) \div 16) % 16 = (x \div 16) % 16
    BY SMT
  <1>4. \A x, y \in Nat : ((x % 256) + 256 * y) % 16 = x % 16
    BY SMT
  <1>5. arg.write_cmd = (s.write_cmd % 256) + 256 * junk /\ arg.user = s
    BY <1>1
  <1> DEFINE x == s.write_cmd
             y == arg.write_cmd
  <1>6. x \in Nat /\ y = (x % 256) + 256 * junk
    BY <1>2, <1>5
  <1> HIDE DEF x, y
  <1>7. (y \div 16) % 16 = (x \div 16) % 16 /\ y % 16 = x % 16
    BY <1>2, <1>3, <1>4, <1>6
  <1> QED
    BY <1>2, <1>5, <1>7 DEF x, y

(* An AESDCHAR_IOCSEEKTO that succeeds and whose low byte names a line     *)
(* that exists moves to the byte packed with it, although only that byte   *)
(* of the user's struct reaches the driver and the rest is whatever was on *)
(* the stack.                                                              *)
THEOREM SeeksRight == Spec => SeekLandsOnPackedTarget
  <1>1. LogInv /\ [Next]_vars =>
            [\A p \in Proc :
                LET packed == call[p].arg.user.write_cmd
                IN  SeekMovesTo(p, (packed \div 16) % 16, packed % 16)]_vars
    <2> SUFFICES ASSUME LogInv, [Next]_vars, NEW p \in Proc,
                        pc[p] \in Inside, pc'[p] = "ret", call[p].op = "ioctl", call'[p].ok,
                        (call[p].arg.user.write_cmd \div 16) % 16 < Len(lines)
                 PROVE  f_pos'[filp[p]] = PositionOf((call[p].arg.user.write_cmd \div 16) % 16,
                                                     call[p].arg.user.write_cmd % 16)
      BY Zenon DEF SeekMovesTo
    <2> DEFINE c == call[p]
               B == BytesBefore(circular_buffer)
               L == OldestFirst(circular_buffer)
               k == (c.arg.user.write_cmd \div 16) % 16
               o == c.arg.user.write_cmd % 16
    <2>1. /\ c \in Call /\ Pending(c) /\ Inv /\ module # "unloaded" /\ WellFormed(circular_buffer, Line)
          /\ filp[p] \in File /\ f_pos \in [File -> Nat]
      BY LoadedInside DEF LogInv, CallOK, Inv, Sessions, MemoryTypeOK, Numbers, Inside
    <2>2. c.arg \in IoctlArgs /\ ~c.ok
      BY <2>1 DEF Pending
    <2>3. IoctlSet(p)
      <3>1. IoctlFind(p) \/ IoctlSet(p)
        BY LeavesByBody, BodyOf
      <3>2. ~IoctlFind(p)
        <4>1. "set" # "ret"
          OBVIOUS
        <4> QED
          BY <2>1, <2>2, <4>1, GotoValue DEF IoctlFind
      <3> QED
        BY <3>1, <3>2
    <2>4. c.num = B[(c.arg.write_cmd \div 16) % 16] + (c.arg.write_cmd % 16)
      BY <2>3 DEF IoctlSet, LogInv, CallOK, Placed
    <2>5. f_pos'[filp[p]] = c.num
      BY <2>1, <2>3 DEF IoctlSet
    <2>6. /\ (c.arg.write_cmd \div 16) % 16 = k /\ c.arg.write_cmd % 16 = o
          /\ c.arg.user.write_cmd \in Nat
      BY <2>2, DecodeUser
    <2>7. Len(lines) = Len(L) /\ Len(L) \in 0..N
      BY <2>1, ContentsAre
    <2>8. k \in Nat
      <3>1. \A x \in Nat : (x \div 16) % 16 \in Nat
        BY SMT
      <3> QED
        BY <2>6, <3>1
    <2> HIDE DEF k, L
    <2>9. k < Len(L)
      BY <2>7 DEF k
    <2>10. k \in 0..Len(L)
      BY <2>7, <2>8, <2>9, NAssumption
    <2>11. Len(FlattenSeq(SubSeq(lines, 1, k))) = B[k]
      <3>1. \A j \in 0..Len(OldestFirst(circular_buffer)) : Len(FlattenSeq(SubSeq(lines, 1, j))) = B[j]
        BY <2>1, ContentsAre
      <3> QED
        BY <2>10, <3>1 DEF L
    <2> QED
      BY <2>4, <2>5, <2>6, <2>11 DEF PositionOf, k
  <1> QED
    BY <1>1, LogInvariant, PTL DEF Spec, SeekLandsOnPackedTarget
-----------------------------------------------------------------------------
(* Memory that nothing refers to any more. *)

LEMMA QuietKeepsPtrs ==
    ASSUME Inv, NEW p \in Proc, UNCHANGED <<circular_buffer, buffer_entry, heap>>,
           pc[p] \notin {"store", "populate"}, pc'[p] \notin {"store", "populate"},
           \A q \in Proc : q # p => pc'[q] = pc[q] /\ k_buf'[q] = k_buf[q]
    PROVE  Orphans' = Orphans
  <1>1. Storing' = Storing /\ Joined' = Joined /\ p \notin Storing
    BY DEF Storing, Joined
  <1>2. \A q \in Storing : k_buf'[q] = k_buf[q]
    BY <1>1 DEF Storing
  <1>3. CallPtrs' = CallPtrs
    BY <1>1, <1>2 DEF CallPtrs
  <1>4. EntryPtrs' = EntryPtrs /\ PartialPtr' = PartialPtr
    BY <1>1 DEF EntryPtrs, PartialPtr
  <1> QED
    BY <1>3, <1>4 DEF Orphans

LEMMA WriteAllocOrphans ==
    ASSUME LogInv, NEW p \in Proc, WriteAlloc(p)
    PROVE  Orphans' \subseteq Orphans
  <1>1. CASE UnlockAndReturn(p) /\ UNCHANGED <<heap, k_buf, usr_count, call>>
    <2>1. Inv /\ MemoryTypeOK /\ pc[p] = "in" /\ UNCHANGED <<circular_buffer, buffer_entry, heap>>
      BY <1>1 DEF WriteAlloc, device, LogInv, Inv
    <2>2. pc'[p] = "ret" /\ \A q \in Proc : q # p => pc'[q] = pc[q] /\ k_buf'[q] = k_buf[q]
      BY <1>1, <2>1, GotoValue DEF UnlockAndReturn
    <2> QED
      BY <2>1, <2>2, QuietKeepsPtrs
  <1>2. ASSUME NEW ptr \in FreePtrs, NEW n \in Copied(Len(call[p].arg)),
               heap' = kmalloc(heap, ptr, copy_from_user(call[p].arg, n)),
               k_buf' = [k_buf EXCEPT ![p] = ptr],
               Goto(p, "store")
        PROVE  Orphans' \subseteq Orphans
    <2>2. /\ pc[p] = "in" /\ pc[p] \in Inside /\ UNCHANGED <<circular_buffer, buffer_entry>>
          /\ Inv /\ MemoryTypeOK /\ ptr \in Ptr
      BY DEF WriteAlloc, device, Inside, LogInv, Inv, FreePtrs
    <2>3. \A q \in Ptr : q # ptr => heap'[q] = heap[q]
      BY <1>2, <2>2 DEF kmalloc, MemoryTypeOK
    <2>4. pc'[p] = "store" /\ k_buf'[p] = ptr
      BY <1>2, <2>2, GotoValue DEF MemoryTypeOK
    <2>5. Storing = {} /\ Joined = {} /\ Storing' = {p} /\ Joined' = {}
      <3>1. \A q \in Proc : q # p => pc[q] \notin Inside
        BY <2>2, OneInside DEF Inv
      <3>2. \A q \in Proc : q # p => pc'[q] = pc[q]
        BY <1>2, <2>2, GotoValue
      <3> QED
        BY <2>2, <2>4, <3>1, <3>2 DEF Storing, Joined, Inside
    <2>6. EntryPtrs' = EntryPtrs /\ PartialPtr' = PartialPtr /\ CallPtrs = {} /\ CallPtrs' = {ptr}
      BY <2>2, <2>4, <2>5 DEF EntryPtrs, PartialPtr, CallPtrs
    <2> QED
      BY <2>3, <2>6 DEF Orphans
  <1> QED
    BY <1>1, <1>2, Zenon DEF WriteAlloc

LEMMA WriteJoinOrphans ==
    ASSUME LogInv, NEW p \in Proc, WriteJoin(p), NEW ptr \in Orphans' \ Orphans
    PROVE  JoinFails(p) /\ ptr = k_buf[p]
  <1> DEFINE B == buffer_entry.buffptr
             K == k_buf[p]
  <1>1. /\ pc[p] = "store" /\ pc[p] \in Inside /\ buffer_entry.size # 0
        /\ UNCHANGED <<circular_buffer, buffer_entry>> /\ Inv /\ MemoryTypeOK
    BY DEF WriteJoin, device, Inside, LogInv, Inv
  <1>2. \A q \in Proc : q # p => pc[q] \notin Inside
    BY <1>1, OneInside DEF Inv
  <1>3. CASE UnlockAndReturn(p) /\ UNCHANGED <<heap, k_buf>>
    <2>1. pc'[p] = "ret" /\ \A q \in Proc : q # p => pc'[q] = pc[q]
      BY <1>1, <1>3, GotoValue DEF UnlockAndReturn
    <2>2. Storing = {p} /\ Joined = {} /\ Joined' = {}
      BY <1>1, <1>2, <2>1 DEF Storing, Joined, Inside
    <2>3. EntryPtrs' = EntryPtrs /\ PartialPtr' = PartialPtr /\ CallPtrs = {K}
      BY <1>1, <2>2 DEF EntryPtrs, PartialPtr, CallPtrs
    <2> QED
      BY <1>1, <1>3, <2>1, <2>3 DEF Orphans, JoinFails
  <1>4. ASSUME NEW temp_buf \in FreePtrs,
               heap' = kfree(kfree(kmalloc(heap, temp_buf, JoinedBytes(p)),
                                   buffer_entry.buffptr), k_buf[p]),
               k_buf' = [k_buf EXCEPT ![p] = temp_buf],
               Goto(p, "populate")
        PROVE  FALSE
    <2>3. /\ temp_buf \in Ptr
          /\ \A q \in Ptr \ {temp_buf, B, K} : heap'[q] = heap[q]
          /\ heap'[B].state # "allocated" /\ heap'[K].state # "allocated"
      BY <1>1, <1>4, JoinMemory
    <2>4. pc'[p] = "populate" /\ k_buf'[p] = temp_buf
      BY <1>1, <1>4, GotoValue DEF MemoryTypeOK
    <2>5. Storing = {p} /\ Joined = {} /\ Storing' = {p} /\ Joined' = {p}
      <3>1. \A q \in Proc : q # p => pc'[q] = pc[q]
        BY <1>1, <1>4, GotoValue
      <3> QED
        BY <1>1, <1>2, <2>4, <3>1 DEF Storing, Joined, Inside
    <2>6. /\ EntryPtrs' = EntryPtrs /\ PartialPtr \subseteq {B}
          /\ CallPtrs = {K} /\ CallPtrs' = {temp_buf}
      BY <1>1, <2>4, <2>5 DEF EntryPtrs, PartialPtr, CallPtrs
    <2> QED
      BY <2>3, <2>6 DEF Orphans
  <1> QED
    BY <1>3, <1>4, Zenon DEF WriteJoin

LEMMA WriteStoreOrphans ==
    ASSUME LogInv, NEW p \in Proc, WriteStore(p), NEW ptr \in Orphans' \ Orphans
    PROVE  NothingCopied /\ ptr = buffer_entry.buffptr
  <1> DEFINE K == k_buf[p]
             b == circular_buffer
             entry == [buffptr |-> K, size |-> buffer_entry.size + usr_count[p]]
             R == ptr_return(b)
  <1>1. /\ pc[p] \in Inside /\ pc[p] \in {"store", "populate"}
        /\ pc[p] = "store" => buffer_entry.size = 0
        /\ K \in Ptr
    BY StoreFacts
  <1>2. Inv /\ MemoryTypeOK /\ WellFormed(b, Line)
    BY DEF LogInv, Inv
  <1>3. \A q \in Proc : q # p => pc[q] \notin Inside
    BY <1>1, <1>2, OneInside DEF Inv
  <1>4. Storing = {p} /\ Storing' = {} /\ Joined' = {} /\ (pc[p] = "populate" => Joined = {p})
    <2>1. pc'[p] = "ret" /\ \A q \in Proc : q # p => pc'[q] = pc[q]
      BY <1>2, GotoValue DEF WriteStore, UnlockAndReturn
    <2> QED
      BY <1>1, <1>3, <2>1 DEF Storing, Joined, Inside
  <1>5. CallPtrs = {K} /\ CallPtrs' = {}
    BY <1>4 DEF CallPtrs
  <1>6. PartialPtr = {} \/ (NothingCopied /\ PartialPtr = {buffer_entry.buffptr})
    <2>1. CASE pc[p] = "populate"
      BY <1>4, <2>1 DEF PartialPtr
    <2>2. CASE pc[p] = "store"
      BY <1>1, <2>2 DEF NothingCopied, PartialPtr
    <2> QED
      BY <1>1, <2>1, <2>2
  <1>7. CASE ~call[p].newline
    <2>1. buffer_entry' = entry /\ UNCHANGED <<circular_buffer, heap>>
      BY <1>7 DEF WriteStore
    <2>2. EntryPtrs' = EntryPtrs /\ PartialPtr' = {K}
      BY <1>1, <1>4, <2>1, PtrAssumption DEF EntryPtrs, PartialPtr
    <2> QED
      BY <1>5, <1>6, <2>1, <2>2 DEF Orphans
  <1>8. CASE call[p].newline
    <2>1. /\ circular_buffer' = aesd_circular_buffer_add_entry(b, entry)
          /\ heap' = kfree(heap, R)
      BY <1>8 DEF WriteStore, Commit
    <2>2. circular_buffer'.entry = [b.entry EXCEPT ![b.in_offs] = entry]
      BY <2>1 DEF aesd_circular_buffer_add_entry
    <2>3. /\ b.in_offs \in Slots /\ b.entry \in [Slots -> Line \cup {EmptyEntry}]
          /\ b.entry[b.in_offs].buffptr \in {R, NULL}
      <3>1. b.in_offs \in Slots /\ b.entry \in [Slots -> Line \cup {EmptyEntry}]
        BY <1>2 DEF WellFormed
      <3>2. ASSUME ~b.full
            PROVE  b.entry[b.in_offs].buffptr = NULL
        <4>1. ~(b.in_offs < b.in_offs)
          BY <3>1, NAssumption DEF Slots
        <4>2. b.entry[b.in_offs] \notin Line
          BY <1>2, <3>1, <3>2, <4>1 DEF WellFormed
        <4>3. b.entry[b.in_offs] = EmptyEntry
          BY <3>1, <4>2
        <4> QED
          BY <4>3 DEF EmptyEntry
      <3> QED
        BY <3>1, <3>2 DEF ptr_return
    <2>4. EntryPtrs \ {R} \subseteq EntryPtrs' /\ K \in EntryPtrs'
      <3> HIDE DEF R
      <3>1. circular_buffer'.entry[b.in_offs].buffptr = K
        BY <2>2, <2>3
      <3>2. \A i \in Slots : i # b.in_offs => circular_buffer'.entry[i] = b.entry[i]
        BY <2>2, <2>3
      <3> QED
        BY <1>1, <2>3, <3>1, <3>2, PtrAssumption DEF EntryPtrs
    <2>5. R \in Ptr \cup {NULL} /\ heap \in [Ptr -> Memory]
      BY <1>2 DEF ptr_return, MemoryTypeOK, Entry, Slots
    <2>6. ASSUME NEW q \in Ptr, heap'[q].state = "allocated"
          PROVE  q # R /\ heap[q].state = "allocated"
      <3>1. /\ \A x \in Ptr \ {R} : kfree(heap, R)[x] = heap[x]
            /\ R # NULL => kfree(heap, R)[R].state # "allocated"
        BY <2>5, KfreeValue
      <3>2. q # R
        BY <2>1, <2>6, <3>1, PtrAssumption
      <3> QED
        BY <2>1, <2>6, <3>1, <3>2
    <2> QED
      BY <1>5, <1>6, <2>4, <2>6 DEF Orphans
  <1> QED
    BY <1>7, <1>8

(* No step of a file operation loses the last reference to memory that is  *)
(* allocated, save the k_buf of a write that finds no memory for temp_buf  *)
(* and what buffer_entry has when an earlier write could copy nothing:     *)
(* what is pushed out, joined or replaced is freed, and what is kept stays *)
(* reachable.                                                              *)
THEOREM NothingOrphaned == Spec => FileOpsOrphanNothing
  <1>1. LogInv /\ [Next]_vars =>
            [module = "loaded" =>
                \A ptr \in Orphans' \ Orphans :
                    \/ \E p \in Proc : JoinFails(p) /\ ptr = k_buf[p]
                    \/ NothingCopied /\ ptr = buffer_entry.buffptr]_vars
    <2> SUFFICES ASSUME LogInv, Next, module = "loaded", NEW ptr \in Orphans' \ Orphans
                 PROVE  \/ \E p \in Proc : JoinFails(p) /\ ptr = k_buf[p]
                        \/ NothingCopied /\ ptr = buffer_entry.buffptr
      BY Zenon
    <2>1. CASE Loader \/ \E f \in File : Open(f) \/ Release(f)
      <3>1. UNCHANGED <<circular_buffer, buffer_entry, heap, pc, k_buf>>
        BY <2>1 DEF Loader, InitModule, SetupCdev, CleanupModule, CleanupInterrupted, CleanupFree,
                    Open, Release, device, locals
      <3>2. Storing' = Storing /\ Joined' = Joined
        BY <3>1 DEF Storing, Joined
      <3>3. EntryPtrs' = EntryPtrs /\ PartialPtr' = PartialPtr /\ CallPtrs' = CallPtrs
        BY <3>1, <3>2 DEF EntryPtrs, PartialPtr, CallPtrs
      <3> QED
        BY <3>1, <3>3 DEF Orphans
    <2>2. ASSUME NEW p \in Proc,
                 \/ Syscall(p) \/ Acquire(p) \/ Interrupted(p) \/ Return(p) \/ WriteOops(p)
                 \/ ReadFind(p) \/ ReadCopy(p) \/ LlseekSize(p) \/ LlseekMove(p)
                 \/ IoctlFind(p) \/ IoctlSet(p)
          PROVE  Orphans' \subseteq Orphans
      <3>1. /\ UNCHANGED <<circular_buffer, buffer_entry, heap>>
            /\ pc[p] \notin {"store", "populate"} /\ pc'[p] \notin {"store", "populate"}
            /\ \A q \in Proc : q # p => pc'[q] = pc[q] /\ k_buf'[q] = k_buf[q]
        BY <2>2, InvisibleCall DEF LogInv, device
      <3> QED
        BY <3>1, QuietKeepsPtrs DEF LogInv
    <2>3. ASSUME NEW p \in Proc, WriteAlloc(p)
          PROVE  Orphans' \subseteq Orphans
      BY <2>3, WriteAllocOrphans
    <2>4. ASSUME NEW p \in Proc, WriteJoin(p)
          PROVE  JoinFails(p) /\ ptr = k_buf[p]
      BY <2>4, WriteJoinOrphans
    <2>5. ASSUME NEW p \in Proc, WriteStore(p)
          PROVE  NothingCopied /\ ptr = buffer_entry.buffptr
      BY <2>5, WriteStoreOrphans
    <2> QED
      BY <2>1, <2>2, <2>3, <2>4, <2>5, Zenon DEF Next, Body
  <1> QED
    BY <1>1, LogInvariant, PTL DEF Spec, FileOpsOrphanNothing
-----------------------------------------------------------------------------
(* Users who write no empty buffer and seek to no command out of range.    *)
Orderly ==
    /\ <<>> \notin Payloads
    /\ \A s \in SeekTos : (s.write_cmd \div 16) % 16 < N

(* For them every way out of an operation releases the lock, and unloading *)
(* never gives up waiting for it.                                          *)
OrderlyInv ==
    /\ LogInv
    /\ LockHeldInside
    /\ regions = IF module = "unloaded" THEN 0 ELSE 1

LEMMA OrderlyNext == ASSUME Orderly PROVE OrderlyInv /\ [Next]_vars => OrderlyInv'
  <1> SUFFICES ASSUME OrderlyInv, [Next]_vars PROVE OrderlyInv'
    OBVIOUS
  <1>1. LogInv' /\ LogInv /\ Inv
    BY NextLog DEF OrderlyInv, LogInv
  <1>2. CASE Loader
    <2>1. opened = {} /\ UNCHANGED pc /\ lock' \in {lock, NoProc}
      BY <1>1, <1>2 DEF Loader, InitModule, SetupCdev, CleanupModule, CleanupInterrupted, CleanupFree,
                        Inv, Sessions
    <2>2. lock = NoProc
      BY <1>1, <2>1, NobodyInside DEF OrderlyInv, LockHeldInside, Inv, MemoryTypeOK
    <2>3. LockHeldInside'
      BY <2>1, <2>2 DEF LockHeldInside
    <2>4. regions' = IF module' = "unloaded" THEN 0 ELSE 1
      BY <1>2, <2>2 DEF OrderlyInv, Loader, InitModule, SetupCdev, CleanupModule, CleanupInterrupted,
                        CleanupFree
    <2> QED
      BY <1>1, <2>3, <2>4 DEF OrderlyInv
  <1>3. ASSUME ~Loader
        PROVE  UNCHANGED <<module, regions>>
    <2>1. CASE UNCHANGED vars
      BY <2>1 DEF vars, loading
    <2>2. CASE \E f \in File : Open(f) \/ Release(f)
      BY <2>2 DEF Open, Release, loading
    <2>3. ASSUME NEW p \in Proc,
                 \/ Syscall(p) \/ Acquire(p) \/ Interrupted(p) \/ Return(p) \/ WriteOops(p)
                 \/ ReadFind(p) \/ ReadCopy(p) \/ LlseekSize(p) \/ LlseekMove(p)
                 \/ IoctlFind(p) \/ IoctlSet(p)
          PROVE  UNCHANGED <<module, regions>>
      BY <1>1, <2>3, InvisibleCall DEF loading
    <2>4. ASSUME NEW p \in Proc, WriteAlloc(p) \/ WriteJoin(p) \/ WriteStore(p)
          PROVE  UNCHANGED <<module, regions>>
      BY <2>4 DEF WriteAlloc, WriteJoin, WriteStore, loading
    <2> QED
      BY <1>3, <2>1, <2>2, <2>3, <2>4 DEF Next, Body
  <1>4. ASSUME ~Loader
        PROVE  LockHeldInside'
    <2>1. CASE UNCHANGED <<lock, pc>>
      BY <2>1 DEF OrderlyInv, LockHeldInside
    <2>2. ASSUME NEW p \in Proc, NEW m, Goto(p, m), lock' = lock, pc[p] \notin Inside
          PROVE  LockHeldInside'
      <3>1. \A q \in Proc : q # p => pc'[q] = pc[q]
        BY <1>1, <2>2, GotoValue
      <3> QED
        BY <1>1, <2>2, <3>1 DEF OrderlyInv, LockHeldInside, Inv, MemoryTypeOK
    <2>3. ASSUME NEW p \in Proc, NEW m \in Inside, Goto(p, m), lock' \in {lock, p}
          PROVE  LockHeldInside'
      <3>1. pc'[p] = m /\ \A q \in Proc : q # p => pc'[q] = pc[q]
        BY <1>1, <2>3, GotoValue
      <3> QED
        BY <1>1, <2>3, <3>1 DEF OrderlyInv, LockHeldInside, Inv, MemoryTypeOK
    <2>4. ASSUME lock' = NoProc
          PROVE  LockHeldInside'
      BY <2>4 DEF LockHeldInside
    <2>5. CASE \E f \in File : Open(f) \/ Release(f)
      BY <2>1, <2>5 DEF Open, Release
    <2>6. ASSUME NEW p \in Proc, Syscall(p) \/ Interrupted(p) \/ Return(p)
          PROVE  LockHeldInside'
      <3>1. pc[p] \in {"idle", "lock", "ret"} /\ lock' = lock /\ \E m : Goto(p, m)
        <4>1. CASE Syscall(p)
          BY <4>1 DEF Syscall, SysRead, SysWrite, SysLlseek, SysIoctl, Enter
        <4> QED
          BY <2>6, <4>1 DEF Interrupted, Return
      <3> QED
        BY <2>2, <3>1 DEF Inside
    <2>7. ASSUME NEW p \in Proc, Acquire(p)
          PROVE  LockHeldInside'
      BY <2>3, <2>7 DEF Acquire, Inside
    <2>8. ASSUME NEW p \in Proc, Body(p)
          PROVE  LockHeldInside'
      <3>1. ~WriteOops(p)
        BY <1>1 DEF Orderly, WriteOops, Inv, Sessions
      <3>2. ASSUME IoctlFind(p)
            PROVE  Goto(p, "set") /\ lock' = lock
        <4>1. call[p].arg \in IoctlArgs
          BY <1>1, <3>2 DEF IoctlFind, LogInv, CallOK, Inside, Pending
        <4>2. (call[p].arg.write_cmd \div 16) % 16 < N
          BY <4>1, DecodeUser DEF Orderly
        <4>3. (call[p].arg.write_cmd \div 16) % 16 \in 0..15
          BY <4>1, DecodeValue
        <4>4. ~((call[p].arg.write_cmd \div 16) % 16 >= N)
          BY <4>2, <4>3, NAssumption
        <4> QED
          BY <3>2, <4>4 DEF IoctlFind
      <3>3. \/ lock' = NoProc
            \/ lock' = lock /\ \E m \in Inside : Goto(p, m)
        BY <2>8, <3>1, <3>2, Zenon DEF Body, ReadFind, ReadCopy, WriteAlloc, WriteJoin, WriteStore,
               LlseekSize, LlseekMove, IoctlSet, UnlockAndReturn, Inside
      <3> QED
        BY <2>3, <2>4, <3>3
    <2> QED
      BY <1>4, <2>1, <2>5, <2>6, <2>7, <2>8 DEF Next, vars
  <1> QED
    BY <1>1, <1>2, <1>3, <1>4 DEF OrderlyInv

LEMMA OrderlyInvariant == ASSUME Orderly PROVE Spec => []OrderlyInv
  <1>1. Init => OrderlyInv
    BY InitLog DEF OrderlyInv, LockHeldInside, Init
  <1> QED
    BY <1>1, OrderlyNext, PTL DEF Spec

(* If no user writes an empty buffer and none seeks to a command the       *)
(* driver does not have, the lock is held only by a call inside: those two *)
(* are the only ways out of an operation that leave it locked.             *)
THEOREM LockReleased == ASSUME Orderly PROVE Spec => []LockHeldInside
  BY OrderlyInvariant, PTL DEF OrderlyInv

(* Under the same condition no load of the module leaves its device        *)
(* numbers behind, when aesd_setup_cdev fails and when it is unloaded.     *)
THEOREM RegionsReturned == ASSUME Orderly PROVE Spec => []UnloadUnregisters
  <1>1. OrderlyInv => UnloadUnregisters
    BY DEF OrderlyInv, UnloadUnregisters
  <1> QED
    BY <1>1, OrderlyInvariant, PTL
=============================================================================
