----------------------------- MODULE CharDriver -----------------------------
(***************************************************************************)
(* The aesdchar driver, aesd-char-driver/main.c: the file operations as    *)
(* processes of the system call them, concurrently and on open files they  *)
(* may share, and loading and unloading of the module.                     *)
(*                                                                         *)
(* A system call is a sequence of steps of its process:                    *)
(*   "idle" -> "lock" -> "in" -> ... -> "ret" -> "idle"                    *)
(* It waits for aesd_device.lock in "lock", and is inside the region that  *)
(* the lock protects from "in" until it reaches "ret".  The steps inside   *)
(* are cut where one part of the shared state has been read and the next   *)
(* has yet to be written, so that it is the lock, and not the model, that  *)
(* keeps two calls apart.                                                  *)
(*                                                                         *)
(* External parts, modelled by what the driver relies on: the VFS layer    *)
(* above the file operations, kmalloc/kfree, copy_from_user/copy_to_user,  *)
(* the mutex, fixed_size_llseek, and the module loader.                    *)
(***************************************************************************)
EXTENDS CircularBufferOps, FiniteSets, SequencesExt

CONSTANTS
    Proc,           \* threads that make system calls
    File,           \* open file descriptions (struct file)
    Ptr,            \* addresses kmalloc can return
    Payloads,       \* user buffers passed to write()
    Counts,         \* sizes passed to read()
    Seeks,          \* <<off, whence>> passed to lseek()
    SeekTos,        \* struct aesd_seekto passed to ioctl()
    Junk,           \* what may be in the stack bytes a copy leaves unset
    Byte,           \* the characters users write
    NL, Zero,       \* the newline character, the zero byte
    Garbage,        \* what is read from memory that is not allocated
    NoProc,         \* owner of the lock when nobody holds it
    UserFaults,     \* whether user buffers may be partly unmapped
    MaxLoads,       \* bound: how often the module is loaded
    MaxPos,         \* bound: no call starts at a file position above this
    MaxPartial      \* bound: no write starts that makes the line longer

ASSUME PtrAssumption  == NULL \notin Ptr
ASSUME BoundAssumption == MaxLoads \in Nat
ASSUME ProcAssumption == NoProc \notin Proc
ASSUME UserAssumption ==
    /\ NL \in Byte /\ NL # Zero
    /\ \A w \in Payloads : w \in Seq(Byte)
    /\ Counts \subseteq Nat
    /\ \A s \in Seeks : s[1] \in Int
    /\ \A s \in SeekTos : s.write_cmd \in Nat /\ s.write_cmd_offset \in Nat
    /\ Junk \subseteq Nat
    /\ UserFaults \in BOOLEAN

VARIABLES
    module,             \* "unloaded", "starting", "loaded" or "exiting"
    regions,            \* device number regions allocated
    loads,              \* how often aesd_init_module has run, for MaxLoads
    circular_buffer, buffer_entry, lock,    \* struct aesd_dev aesd_device
    heap,               \* kernel memory: contents by address
    opened, f_pos,      \* open files and their filp->f_pos
    pc, filp,           \* where each process is, and on which file
    k_buf, usr_count,   \* aesd_write's locals
    call                \* the other arguments, locals and results of the call

device  == <<circular_buffer, buffer_entry>>
loading == <<module, regions, loads>>
files   == <<opened, f_pos>>
locals  == <<filp, k_buf, usr_count, call>>
vars    == <<loading, device, lock, heap, files, pc, locals>>
-----------------------------------------------------------------------------
(* Kernel memory.  An address holds the bytes of the allocation that       *)
(* starts there.  Freeing an address that is not allocated corrupts it.    *)
Unallocated == [state |-> "free", bytes |-> <<>>]
kmalloc(h, ptr, bytes) == [h EXCEPT ![ptr] = [state |-> "allocated", bytes |-> bytes]]
kfree(h, ptr) ==
    IF ptr = NULL THEN h
    ELSE [h EXCEPT ![ptr] = [state |-> IF @.state = "allocated" THEN "free" ELSE "corrupt",
                             bytes |-> <<>>]]
FreePtrs == {ptr \in Ptr : heap[ptr].state = "free"}

(* The n bytes at ptr. *)
Load(ptr, n) ==
    [i \in 1..n |-> IF ptr \in Ptr /\ i \in DOMAIN heap[ptr].bytes
                    THEN heap[ptr].bytes[i]
                    ELSE Garbage]

(* copy_from_user of the first k bytes of w: the rest is zero-filled. *)
copy_from_user(w, k) == [i \in 1..Len(w) |-> IF i <= k THEN w[i] ELSE Zero]
Copied(n) == IF UserFaults THEN 0..n ELSE {n}

(* Fault: the new position is not checked against the size. *)
fixed_size_llseek_Unchecked(pos, off, whence, size) ==
    CASE whence = "SEEK_SET" -> off
      [] whence = "SEEK_CUR" -> pos + off
      [] whence = "SEEK_END" -> size + off
      [] OTHER               -> -1

(* fixed_size_llseek: the new file position, or -1 for -EINVAL. *)
fixed_size_llseek(pos, off, whence, size) ==
    LET target == CASE whence = "SEEK_SET" -> off
                    [] whence = "SEEK_CUR" -> pos + off
                    [] whence = "SEEK_END" -> size + off
                    [] OTHER               -> -1
    IN  IF \/ whence = "SEEK_CUR" /\ off = 0
           \/ target \in 0..size
        THEN target
        ELSE -1
-----------------------------------------------------------------------------
(* op and arg are what the user asks, pos the VFS layer's copy of f_pos;   *)
(* ok and data are what the user gets.  The rest are the operation's       *)
(* locals: from and off the address and offset a read copies from, num     *)
(* what it copies, or the size or position a seek has computed.            *)
NoCall == [op |-> "none", arg |-> NULL, pos |-> 0,
           from |-> NULL, off |-> 0, num |-> 0, newline |-> FALSE,
           ok |-> FALSE, data |-> <<>>]

Init ==
    /\ module = "unloaded"
    /\ regions = 0
    /\ loads = 0
    /\ circular_buffer = aesd_circular_buffer_init
    /\ buffer_entry = EmptyEntry
    /\ lock = NoProc
    /\ heap = [ptr \in Ptr |-> Unallocated]
    /\ opened = {}
    /\ f_pos = [f \in File |-> 0]
    /\ pc = [p \in Proc |-> "idle"]
    /\ filp = [p \in Proc |-> NULL]
    /\ k_buf = [p \in Proc |-> NULL]
    /\ usr_count = [p \in Proc |-> 0]
    /\ call = [p \in Proc |-> NoCall]

(* Process p goes on at step l. *)
Goto(p, l) == pc' = [pc EXCEPT ![p] = l]

(* Fault: the return leaves the mutex locked. *)
UnlockAndReturn_KeepsLock(p) == Goto(p, "ret") /\ UNCHANGED lock

(* mutex_unlock and return to the VFS layer. *)
UnlockAndReturn(p) ==
    /\ lock' = NoProc
    /\ Goto(p, "ret")
-----------------------------------------------------------------------------
(* The VFS layer.  read and write work on a copy of f_pos taken when the   *)
(* call starts; the copy is stored back when the call returns without      *)
(* error.  Files of character devices have no lock around this.            *)
Enter(p, f, op, arg) ==
    /\ pc[p] = "idle"
    /\ f \in opened
    /\ f_pos[f] <= MaxPos
    /\ filp' = [filp EXCEPT ![p] = f]
    /\ call' = [call EXCEPT ![p] = [NoCall EXCEPT !.op = op, !.arg = arg, !.pos = f_pos[f]]]
    /\ UNCHANGED <<loading, device, lock, heap, files, k_buf, usr_count>>

SysRead(p, f) ==
    /\ \E count \in Counts : Enter(p, f, "read", count)
    /\ Goto(p, "lock")

SysWrite(p, f) ==
    /\ \E w \in Payloads : /\ buffer_entry.size + Len(w) <= MaxPartial
                           /\ Enter(p, f, "write", w)
    /\ Goto(p, "lock")

SysLlseek(p, f) ==
    /\ \E s \in Seeks : Enter(p, f, "llseek", s)
    /\ Goto(p, "lock")

(* aesd_unlocked_ioctl with the command AESDCHAR_IOCSEEKTO.  The length it *)
(* passes to copy_from_user is the value of sizeof(seekto) != 0: one byte, *)
(* the low byte of write_cmd, is copied and the others stay as they were.  *)
(* Any other command is refused without effect.                            *)
SysIoctl(p, f) ==
    \E s \in SeekTos, junk \in Junk :
        /\ Enter(p, f, "ioctl",
                 [write_cmd |-> (s.write_cmd % 256) + 256 * junk,
                  write_cmd_offset |-> junk,
                  user |-> s])
        /\ \/ Goto(p, "lock")
           \/ UserFaults /\ Goto(p, "ret")

(* The call of p is over: its locals are gone. *)
Forgotten(p) ==
    /\ filp' = [filp EXCEPT ![p] = NULL]
    /\ k_buf' = [k_buf EXCEPT ![p] = NULL]
    /\ usr_count' = [usr_count EXCEPT ![p] = 0]
    /\ call' = [call EXCEPT ![p] = NoCall]

Return(p) ==
    /\ pc[p] = "ret"
    /\ f_pos' = IF call[p].op \in {"read", "write"} /\ call[p].ok
                THEN [f_pos EXCEPT ![filp[p]] = call[p].pos]
                ELSE f_pos
    /\ Forgotten(p)
    /\ Goto(p, "idle")
    /\ UNCHANGED <<loading, device, lock, heap, opened>>

(* aesd_open and aesd_release: the VFS layer opens while the module is     *)
(* loaded and releases when no call on the file is in progress.            *)
Open(f) ==
    /\ module = "loaded"
    /\ f \notin opened
    /\ opened' = opened \cup {f}
    /\ f_pos' = [f_pos EXCEPT ![f] = 0]
    /\ UNCHANGED <<loading, device, lock, heap, pc, locals>>

Release(f) ==
    /\ f \in opened
    /\ \A p \in Proc : filp[p] # f
    /\ opened' = opened \ {f}
    /\ UNCHANGED <<loading, device, lock, heap, f_pos, pc, locals>>
-----------------------------------------------------------------------------
(* Fault: the operation goes on although another call holds the lock. *)
Acquire_NoWait(p) ==
    /\ pc[p] = "lock"
    /\ lock' = p
    /\ Goto(p, "in")
    /\ UNCHANGED <<loading, device, heap, files, locals>>

(* mutex_lock_interruptible, first statement of every operation: it waits  *)
(* for the lock, and a signal can end the wait.                            *)
Acquire(p) ==
    /\ pc[p] = "lock"
    /\ lock = NoProc
    /\ lock' = p
    /\ Goto(p, "in")
    /\ UNCHANGED <<loading, device, heap, files, locals>>

Interrupted(p) ==
    /\ pc[p] = "lock"
    /\ lock # NoProc
    /\ Goto(p, "ret")
    /\ UNCHANGED <<loading, device, lock, heap, files, locals>>
-----------------------------------------------------------------------------
(* Fault: all of the rest of the entry, whatever count is. *)
bytes_to_copy_NoMin(bytes_available, count) == bytes_available

bytes_to_copy(bytes_available, count) ==
    IF bytes_available < count THEN bytes_available ELSE count

(* aesd_read: find the entry, then copy from that entry only. *)
ReadFind(p) ==
    LET c     == call[p]
        found == aesd_circular_buffer_find_entry_offset_for_fpos(circular_buffer, c.pos)
        entry == circular_buffer.entry[found.slot]
    IN  /\ pc[p] = "in" /\ c.op = "read"
        /\ IF found = NULL
           THEN /\ call' = [call EXCEPT ![p].ok = TRUE]
                /\ UnlockAndReturn(p)
           ELSE /\ call' = [call EXCEPT
                               ![p].from = entry.buffptr,
                               ![p].off  = found.offset,
                               ![p].num  = bytes_to_copy(entry.size - found.offset, c.arg)]
                /\ Goto(p, "copy")
                /\ UNCHANGED lock
        /\ UNCHANGED <<loading, device, heap, files, filp, k_buf, usr_count>>

ReadCopy(p) ==
    LET c == call[p]
    IN  /\ pc[p] = "copy"
        /\ \/ call' = [call EXCEPT
                          ![p].data = SubSeq(Load(c.from, c.off + c.num),
                                             c.off + 1, c.off + c.num),
                          ![p].pos  = c.pos + c.num,
                          ![p].ok   = TRUE]
           \/ UserFaults /\ c.num > 0 /\ UNCHANGED call
        /\ UnlockAndReturn(p)
        /\ UNCHANGED <<loading, device, heap, files, filp, k_buf, usr_count>>
-----------------------------------------------------------------------------
(* aesd_write, up to has_new_line: the user's bytes into k_buf.  For a     *)
(* count of 0 the byte before the zero-size allocation is read, which is   *)
(* an oops that kills the process inside the call.                         *)
WriteAlloc(p) ==
    LET w == call[p].arg
    IN  /\ pc[p] = "in" /\ call[p].op = "write" /\ w # <<>>
        /\ \/ /\ UnlockAndReturn(p)
              /\ UNCHANGED <<heap, k_buf, usr_count, call>>
           \/ \E ptr \in FreePtrs, n \in Copied(Len(w)) :
                 /\ heap' = kmalloc(heap, ptr, copy_from_user(w, n))
                 /\ k_buf' = [k_buf EXCEPT ![p] = ptr]
                 /\ usr_count' = [usr_count EXCEPT ![p] = n]
                 /\ call' = [call EXCEPT ![p].newline = copy_from_user(w, n)[Len(w)] = NL]
                 /\ Goto(p, "store")
                 /\ UNCHANGED lock
        /\ UNCHANGED <<loading, device, files, filp>>

WriteOops(p) ==
    /\ pc[p] = "in" /\ call[p].op = "write" /\ call[p].arg = <<>>
    /\ Goto(p, "dead")
    /\ Forgotten(p)
    /\ UNCHANGED <<loading, device, lock, heap, files>>

(* Fault: the new bytes are put before the unfinished line. *)
JoinedBytes_NewFirst(p) ==
    Load(k_buf[p], usr_count[p]) \o Load(buffer_entry.buffptr, buffer_entry.size)

(* What the two memcpy into temp_buf leave there. *)
JoinedBytes(p) ==
    Load(buffer_entry.buffptr, buffer_entry.size) \o Load(k_buf[p], usr_count[p])

(* With an unfinished line in buffer_entry, it and k_buf are copied into   *)
(* temp_buf, which takes the place of k_buf, and both are freed; without   *)
(* memory for temp_buf the write fails.                                    *)
WriteJoin(p) ==
    /\ pc[p] = "store" /\ buffer_entry.size # 0
    /\ \/ /\ UnlockAndReturn(p)
          /\ UNCHANGED <<heap, k_buf>>
       \/ \E temp_buf \in FreePtrs :
             /\ heap' = kfree(kfree(kmalloc(heap, temp_buf, JoinedBytes(p)),
                                    buffer_entry.buffptr),
                              k_buf[p])
             /\ k_buf' = [k_buf EXCEPT ![p] = temp_buf]
             /\ Goto(p, "populate")
             /\ UNCHANGED lock
    /\ UNCHANGED <<loading, device, files, filp, usr_count, call>>

(* Fault: buffer_entry is not cleared for the next call. *)
Commit_NoClear(entry) ==
    /\ circular_buffer' = aesd_circular_buffer_add_entry(circular_buffer, entry)
    /\ heap' = kfree(heap, ptr_return(circular_buffer))
    /\ buffer_entry' = entry

(* A finished line becomes the newest entry of the circular buffer; the    *)
(* memory of the entry it pushes out is freed.                             *)
Commit(entry) ==
    /\ circular_buffer' = aesd_circular_buffer_add_entry(circular_buffer, entry)
    /\ heap' = kfree(heap, ptr_return(circular_buffer))
    /\ buffer_entry' = EmptyEntry

(* buffer_entry takes the bytes, and is passed on if they end the line. *)
WriteStore(p) ==
    LET entry == [buffptr |-> k_buf[p], size |-> buffer_entry.size + usr_count[p]]
    IN  /\ \/ pc[p] = "store" /\ buffer_entry.size = 0
           \/ pc[p] = "populate"
        /\ IF call[p].newline
           THEN Commit(entry)
           ELSE buffer_entry' = entry /\ UNCHANGED <<circular_buffer, heap>>
        /\ call' = [call EXCEPT ![p].pos = @ + usr_count[p], ![p].ok = TRUE]
        /\ UnlockAndReturn(p)
        /\ UNCHANGED <<loading, files, filp, k_buf, usr_count>>
-----------------------------------------------------------------------------
(* aesd_llseek: the size of the device is the sum over all the slots. *)
LlseekSize(p) ==
    /\ pc[p] = "in" /\ call[p].op = "llseek"
    /\ call' = [call EXCEPT ![p].num = BytesBefore(circular_buffer)[N]]
    /\ Goto(p, "move")
    /\ UNCHANGED <<loading, device, lock, heap, files, filp, k_buf, usr_count>>

LlseekMove(p) ==
    LET c      == call[p]
        target == fixed_size_llseek(f_pos[filp[p]], c.arg[1], c.arg[2], c.num)
    IN  /\ pc[p] = "move"
        /\ IF target = -1
           THEN UNCHANGED <<f_pos, call>>
           ELSE /\ f_pos' = [f_pos EXCEPT ![filp[p]] = target]
                /\ call' = [call EXCEPT ![p].ok = TRUE]
        /\ UnlockAndReturn(p)
        /\ UNCHANGED <<loading, device, heap, opened, filp, k_buf, usr_count>>
-----------------------------------------------------------------------------
(* aesd_adjust_file_offset: the command and the offset are taken out of    *)
(* the low byte of write_cmd.  A command out of range returns at once,     *)
(* past the mutex_unlock.                                                  *)
IoctlFind(p) ==
    LET decode_write_cmd        == (call[p].arg.write_cmd \div 16) % 16
        decode_write_cmd_offset == call[p].arg.write_cmd % 16
    IN  /\ pc[p] = "in" /\ call[p].op = "ioctl"
        /\ IF decode_write_cmd >= N
           THEN /\ Goto(p, "ret")
                /\ UNCHANGED call
           ELSE /\ Goto(p, "set")
                /\ call' = [call EXCEPT ![p].num =
                               aesd_circular_buffer_get_fpos(circular_buffer,
                                   decode_write_cmd, decode_write_cmd_offset)]
        /\ UNCHANGED <<loading, device, lock, heap, files, filp, k_buf, usr_count>>

IoctlSet(p) ==
    /\ pc[p] = "set"
    /\ f_pos' = [f_pos EXCEPT ![filp[p]] = call[p].num]
    /\ call' = [call EXCEPT ![p].ok = TRUE]
    /\ UnlockAndReturn(p)
    /\ UNCHANGED <<loading, device, heap, opened, filp, k_buf, usr_count>>
-----------------------------------------------------------------------------
(* aesd_init_module.  When alloc_chrdev_region fails nothing has changed;  *)
(* aesd_setup_cdev can fail as well.                                       *)
InitModule ==
    /\ module = "unloaded"
    /\ loads < MaxLoads
    /\ loads' = loads + 1
    /\ module' = "starting"
    /\ regions' = regions + 1
    /\ circular_buffer' = aesd_circular_buffer_init
    /\ buffer_entry' = EmptyEntry
    /\ lock' = NoProc
    /\ UNCHANGED <<heap, files, pc, locals>>

(* Fault: the region stays allocated when cdev_add fails. *)
SetupCdev_KeepsRegion ==
    /\ module = "starting"
    /\ module' \in {"loaded", "unloaded"}
    /\ UNCHANGED <<regions, loads, device, lock, heap, files, pc, locals>>

SetupCdev ==
    /\ module = "starting"
    /\ \/ module' = "loaded" /\ UNCHANGED regions
       \/ module' = "unloaded" /\ regions' = regions - 1
    /\ UNCHANGED <<loads, device, lock, heap, files, pc, locals>>

(* aesd_cleanup_module: the module loader calls it when no file is open.   *)
(* A signal ends the wait for a lock that was never released, and the      *)
(* module goes away all the same.                                          *)
CleanupModule ==
    /\ module = "loaded"
    /\ opened = {}
    /\ module' = "exiting"
    /\ UNCHANGED <<regions, loads, device, lock, heap, files, pc, locals>>

CleanupInterrupted ==
    /\ module = "exiting"
    /\ lock # NoProc
    /\ module' = "unloaded"
    /\ UNCHANGED <<regions, loads, device, lock, heap, files, pc, locals>>

(* The loop over the entries frees buffer_entry.buffptr once for every     *)
(* entry that is in use, and what follows the loop frees it once more.     *)
CleanupFree ==
    LET ptr  == buffer_entry.buffptr
        used == {i \in Slots : circular_buffer.entry[i].buffptr # NULL}
    IN  /\ module = "exiting"
        /\ lock = NoProc
        /\ heap' = IF used = {} THEN kfree(heap, ptr) ELSE kfree(kfree(heap, ptr), ptr)
        /\ module' = "unloaded"
        /\ regions' = regions - 1
        /\ UNCHANGED <<loads, device, lock, files, pc, locals>>
-----------------------------------------------------------------------------
Body(p) ==
    \/ ReadFind(p) \/ ReadCopy(p)
    \/ WriteAlloc(p) \/ WriteOops(p) \/ WriteJoin(p) \/ WriteStore(p)
    \/ LlseekSize(p) \/ LlseekMove(p)
    \/ IoctlFind(p) \/ IoctlSet(p)

Syscall(p) ==
    \E f \in File : SysRead(p, f) \/ SysWrite(p, f) \/ SysLlseek(p, f) \/ SysIoctl(p, f)

Loader == InitModule \/ SetupCdev \/ CleanupModule \/ CleanupInterrupted \/ CleanupFree

Next ==
    \/ Loader
    \/ \E f \in File : Open(f) \/ Release(f)
    \/ \E p \in Proc : Syscall(p) \/ Acquire(p) \/ Interrupted(p) \/ Body(p) \/ Return(p)

Spec == Init /\ [][Next]_vars

(* A call inside the region goes on and returns; the mutex is handed to    *)
(* its waiters in turn, so that none of them is passed over for ever.      *)
Fairness == \A p \in Proc : WF_vars(Body(p)) /\ WF_vars(Return(p)) /\ SF_vars(Acquire(p))

FairSpec == Spec /\ Fairness
-----------------------------------------------------------------------------
Steps == {"idle", "lock", "in", "copy", "store", "populate", "move", "set", "ret", "dead"}

(* The steps at which a call is inside the region the lock protects. *)
Inside == {"in", "copy", "store", "populate", "move", "set"}

Entry  == [buffptr : Ptr \cup {NULL}, size : Nat]
Memory == [state : {"free", "allocated", "corrupt"}, bytes : Seq(Byte \cup {Zero, Garbage})]

MemoryTypeOK ==
    /\ module \in {"unloaded", "starting", "loaded", "exiting"}
    /\ circular_buffer \in [entry : [Slots -> Entry], in_offs : Slots,
                            out_offs : Slots, full : BOOLEAN]
    /\ buffer_entry \in Entry
    /\ lock \in Proc \cup {NoProc}
    /\ heap \in [Ptr -> Memory]
    /\ opened \subseteq File
    /\ pc \in [Proc -> Steps]
    /\ filp \in [Proc -> File \cup {NULL}]
    /\ k_buf \in [Proc -> Ptr \cup {NULL}]
    /\ usr_count \in [Proc -> Nat]
    /\ DOMAIN call = Proc

TypeOK ==
    /\ MemoryTypeOK
    /\ regions \in Nat
    /\ loads \in 0..MaxLoads
    /\ f_pos \in [File -> Nat]
    /\ \A p \in Proc : {call[p].pos, call[p].off, call[p].num} \subseteq Nat

(* The call, if any, that has joined the unfinished line with its bytes:   *)
(* it has freed what buffer_entry points to and is about to replace it.    *)
Joined == {p \in Proc : pc[p] = "populate"}

(* The calls that own the memory at their k_buf. *)
Storing == {p \in Proc : pc[p] \in {"store", "populate"}}

EntryPtrs  == {circular_buffer.entry[i].buffptr : i \in Slots} \ {NULL}
PartialPtr == IF Joined = {} THEN {buffer_entry.buffptr} \ {NULL} ELSE {}
CallPtrs   == {k_buf[p] : p \in Storing}

Holds(ptr, size) == heap[ptr].state = "allocated" /\ size <= Len(heap[ptr].bytes)

(* A call in progress is on an open file, and files are open only while    *)
(* the module is loaded: nobody is inside the driver when it goes away.    *)
Sessions ==
    /\ opened # {} => module = "loaded"
    /\ \A p \in Proc : pc[p] \notin {"idle", "dead"} => filp[p] \in opened
    /\ \A p \in Proc : pc[p] \in {"lock", "in"} /\ call[p].op = "write"
                          => call[p].arg \in Payloads

EntriesValid ==
    \A i \in Slots :
        LET e == circular_buffer.entry[i]
        IN  /\ e.buffptr = NULL => e.size = 0
            /\ e.buffptr # NULL => Holds(e.buffptr, e.size)

PartialValid ==
    /\ buffer_entry.buffptr = NULL => buffer_entry.size = 0
    /\ buffer_entry.buffptr # NULL /\ Joined = {} => Holds(buffer_entry.buffptr, buffer_entry.size)

CallsValid ==
    \A p \in Storing :
        /\ k_buf[p] # NULL
        /\ Holds(k_buf[p], IF p \in Joined THEN buffer_entry.size + usr_count[p]
                                           ELSE usr_count[p])

NotShared ==
    /\ \A i, j \in Slots :
           /\ i # j
           /\ circular_buffer.entry[i].buffptr = circular_buffer.entry[j].buffptr
           => circular_buffer.entry[i].buffptr = NULL
    /\ PartialPtr \cap EntryPtrs = {}
    /\ CallPtrs \cap (EntryPtrs \cup PartialPtr) = {}

(* While the module is loaded, whatever aesd_write frees, every pointer    *)
(* the driver will use again is to memory still allocated and as large as  *)
(* its size says, and no two of them are to the same memory.               *)
NoDanglingPointers ==
    module # "unloaded" => EntriesValid /\ PartialValid /\ CallsValid /\ NotShared

(* The lock is held only by a call that is inside: every way out of a file *)
(* operation releases it.                                                  *)
LockHeldInside == lock # NoProc => pc[lock] \in Inside

(* Two calls are never inside at the same time, not even after the lock    *)
(* was left held and the module loaded again.                              *)
MutualExclusion == \A p \in Proc : pc[p] \in Inside => lock = p

(* A file operation loses the last reference to memory in two situations   *)
(* only, and to that memory only: aesd_write that returns without memory   *)
(* for temp_buf loses its k_buf, and one that meets a buffer_entry that an *)
(* earlier write left with memory but no bytes, because nothing could be   *)
(* copied from the user, loses that memory.                                *)
Orphans == {ptr \in Ptr : heap[ptr].state = "allocated"} \ (EntryPtrs \cup PartialPtr \cup CallPtrs)
JoinFails(p) == pc[p] = "store" /\ buffer_entry.size # 0 /\ pc'[p] = "ret"
NothingCopied == buffer_entry.size = 0 /\ buffer_entry.buffptr # NULL
FileOpsOrphanNothing ==
    [][module = "loaded" =>
          \A ptr \in Orphans' \ Orphans :
              \/ \E p \in Proc : JoinFails(p) /\ ptr = k_buf[p]
              \/ NothingCopied /\ ptr = buffer_entry.buffptr]_vars

(* Unloading the module gives its device numbers back. *)
UnloadUnregisters == module = "unloaded" => regions = 0

(* Unloading the module frees all the memory the driver allocated, and     *)
(* frees none of it twice, which would leave it corrupt.                   *)
UnloadFreesAll == module = "unloaded" => \A ptr \in Ptr : heap[ptr].state = "free"
-----------------------------------------------------------------------------
(* What the driver holds, as the lines of LineLog. *)
lines ==
    IF module = "unloaded" THEN <<>>
    ELSE LET log == OldestFirst(circular_buffer)
         IN  [k \in DOMAIN log |-> Load(log[k].buffptr, log[k].size)]

partial ==
    IF module = "unloaded" THEN <<>>
    ELSE Load(IF Joined = {} THEN buffer_entry.buffptr
                             ELSE k_buf[CHOOSE p \in Joined : TRUE],
              buffer_entry.size)

(* Concurrent writers append to one log of lines: the device implements    *)
(* LineLog, each write taking effect in one step.                          *)
Lines == INSTANCE LineLog WITH Capacity <- N
LineSpec == Lines!LineSpec

(* The contents of the device: the lines kept, end to end. *)
Contents == FlattenSeq(lines)

(* A read that succeeds returns the bytes at its position in the contents  *)
(* of that moment, and no bytes only at the end of them or if it asked for *)
(* none.                                                                   *)
ReadReturnsContents ==
    [][\A p \in Proc :
          /\ pc[p] \in Inside /\ pc'[p] = "ret"
          /\ call[p].op = "read" /\ call'[p].ok
          => LET n == Len(call'[p].data)
             IN  /\ call'[p].data = SubSeq(Contents, call[p].pos + 1, call[p].pos + n)
                 /\ call'[p].pos = call[p].pos + n
                 /\ n <= call[p].arg
                 /\ n = 0 => call[p].arg = 0 \/ call[p].pos >= Len(Contents)]_vars

(* The position of byte o of line k, both counted from 0. *)
PositionOf(k, o) == Len(FlattenSeq(SubSeq(lines, 1, k))) + o

(* A seek that succeeds moves the file to what the user asked for by       *)
(* write_cmd and write_cmd_offset; k and o are the line and the byte in it *)
(* that the two stand for.                                                 *)
SeekMovesTo(p, k, o) ==
    /\ pc[p] \in Inside /\ pc'[p] = "ret"
    /\ call[p].op = "ioctl" /\ call'[p].ok
    /\ k < Len(lines)
    => f_pos'[filp[p]] = PositionOf(k, o)

(* The interface the driver and aesdsocket keep between them (the comments *)
(* on the workaround in both): the low byte of write_cmd has the command   *)
(* and the offset.  A seek to a line that exists moves to that byte of     *)
(* that line, whatever the bytes that were not copied hold.                *)
SeekLandsOnPackedTarget ==
    [][\A p \in Proc :
          LET packed == call[p].arg.user.write_cmd
          IN  SeekMovesTo(p, (packed \div 16) % 16, packed % 16)]_vars

(* The interface aesd_ioctl.h documents, which the driver does not have:   *)
(* write_cmd is the zero referenced write command to seek into, and        *)
(* write_cmd_offset the zero referenced offset within the write.           *)
SeekAsDocumented ==
    [][\A p \in Proc :
          LET user == call[p].arg.user
          IN  SeekMovesTo(p, user.write_cmd, user.write_cmd_offset)]_vars

(* A successful lseek ends inside the contents, or moved nothing. *)
LlseekStaysInside ==
    [][\A p \in Proc :
          /\ pc[p] \in Inside /\ pc'[p] = "ret"
          /\ call[p].op = "llseek" /\ call'[p].ok
          => \/ f_pos'[filp[p]] = f_pos[filp[p]]
             \/ f_pos'[filp[p]] <= Len(Contents)]_vars

(* Every call that reaches the driver returns, however many others compete *)
(* for the lock.                                                           *)
EveryCallReturns == \A p \in Proc : pc[p] = "lock" ~> pc[p] = "idle"
=============================================================================
