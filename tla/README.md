# Verification of aesdchar, aesdsocket and the exercises

TLA+ models of this repository's character driver, of its socket server in both
builds and of the process and thread exercises, checked with TLC on small
instances. Every safety property that holds in the runs and both refinements are also
proved with TLAPS for every instance, under the assumptions named below; liveness is
model-checked.

## The system

    clients --TCP--> aesdsocket --write/ioctl/read--> aesdchar driver --> circular buffer
                     (user process, one thread       (kernel module,     (array of the
                      per connection)                 file operations)    10 newest lines)

| Part | State | Operations | Hard because |
|---|---|---|---|
| Circular buffer, `aesd-char-driver/aesd-circular-buffer.c` | `entry[10]`, `in_offs`, `out_offs`, `full` | init, add an entry, find the entry of a position, position of an entry | full and empty look alike, wrap-around, ownership of overwritten memory |
| Driver, file operations, `aesd-char-driver/main.c` | `aesd_device`: the buffer, the unfinished line `buffer_entry`, `lock`; `f_pos` per open file; kernel memory | open, release, read, write, llseek, ioctl | any number of threads on shared files, allocation failure, faulting user memory, signals while waiting, early returns |
| Driver, loading, `main.c` | device numbers, kernel memory | init, setup_cdev, cleanup | partial initialisation, what is freed, reload |
| Server, `server/aesdsocket.c` | descriptor table, `thread_list`, `file_mutex`, locals of each thread | accept, receive, append, seek, read back, send, reap, signals | threads share descriptor numbers, TCP cuts packets, failures of every library call, restart with the device's contents kept |
| Server without the device (`#ifndef USE_AESD_CHAR_DEVICE`) | the data file, `global_file`, the timer thread | as the server, plus timestamps, `read_file`, removal of the file by the signal handlers | handlers remove the file while threads go on, the timer competes for the mutex, failures leave it locked |
| `examples/systemcalls` | processes, their exit status, standard output and open files | `do_system`, `do_exec`, `do_exec_redirect` | a child whose `execv` fails is still the caller's program; which outcome is reported as what; interrupted waits |
| `examples/threading` | mutexes, one `thread_data` per thread | `start_thread_obtaining_mutex`, `threadfunc`; the caller joins and frees | ownership of the thread data passes from call to thread to joiner |
| `finder-app`, scripts, tests | none of their own | file and text processing, build and start glue | |

What makes each part correct:

* *buffer*: it is a log of the 10 most recent entries; a lookup finds exactly
  the byte at that place of their concatenation; a seek and a lookup agree;
  memory is handed back exactly when its entry is dropped.
* *driver*: each write takes effect at one instant or not at all; a read
  returns what is stored; seeks land on the byte they encode; calls exclude each other;
  no memory is used after it is freed, shared, or lost; calls return.
* *loading*: device numbers and memory are given back, once.
* *server*: a packet is stored in order and once, and not mixed with others if it
  arrives and is written at once; the reply has it; descriptors are used by
  their owners, and kept longer than that only if no thread could be created;
  every client is answered.
* *server with a file*: timestamps do not cut packets; the file only grows until
  a signal removes it; the reply is the file with the client's packet; the timer
  goes on.
* *systemcalls*: the result tells whether the command succeeded; the output is
  in the file asked for and the caller's own output is left alone; no child is
  left behind; calls end.
* *threading*: the thread data has one owner and is not lost; the success flag
  is exact; threads return.

The hazards behind these, each with its line and the properties about it, are
listed in `PROJECT.json`.

## Modules

| Module | Models |
|---|---|
| `BoundedLog` | abstract: a log of the most recent entries that hands back what it drops |
| `CircularBufferOps` | the functions of `aesd-circular-buffer.c` as operators on the struct |
| `CircularBuffer` | the buffer as a state machine: `AddEntry`, `Reinit`; refines `BoundedLog` |
| `CircularBufferOpsProofs` | lemmas about those functions, for any buffer |
| `CircularBufferProofs` | theorems about `CircularBuffer` |
| `LineLog` | abstract: what the device promises its writers |
| `CharDriver` | `main.c`: file operations and loading, on top of `CircularBufferOps`; refines `LineLog` |
| `CharDriverProofs` | theorems about the driver's lock and memory, and about what it stores, returns and gives back |
| `TextOps` | operators on texts that the server's properties are stated with: `Only`, `IsSubsequence` |
| `TextProofs` | lemmas about texts and their parts, for the proofs about the buffer and the server |
| `AesdSocket` | `aesdsocket.c` in the device build, on top of `LineLog` |
| `AesdSocketProofs` | theorems about `AesdSocket` |
| `FileServer` | `aesdsocket.c` in the build with a data file, on top of the connections, threads and descriptors of `AesdSocket` |
| `FileServerProofs` | theorems about `FileServer` |
| `SystemCalls` | `examples/systemcalls` |
| `SystemCallsProofs` | theorems about `SystemCalls` |
| `Threading` | `examples/threading` |
| `ThreadingProofs` | theorems about `Threading` |
| `MCCircularBuffer`, `MCCharDriver`, `MCAesdSocket`, `MCFileServer`, `MCSystemCalls` | values of the constants for TLC |

The layers meet at the abstract specifications. `CharDriver` applies the
operators of the buffer to the buffer inside its device, and is shown to
implement `LineLog`; `AesdSocket` uses `LineLog!Accept` as the effect of its
`write` on the device, so what it assumes of the driver is what the driver is
shown to do. Operators whose name has a suffix and whose comment says *Fault*
(`Wrap_Never`, `Close_Forgotten`, ...) are deliberately wrong versions, used to
see that the properties notice.

### CharDriver

A system call is a sequence of steps of its process: `idle`, `lock` (waiting in
`mutex_lock_interruptible`), `in` and further steps inside the locked region,
`ret`, `idle`. The steps inside are cut between reading one piece of shared
state and writing the next, so it is the lock and not the model that keeps
calls apart.

| Code | Actions |
|---|---|
| `aesd_open`, `aesd_release` | `Open`, `Release` |
| `aesd_read` | `SysRead`, `Acquire`/`Interrupted`, `ReadFind`, `ReadCopy` |
| `aesd_write` | `SysWrite`, `Acquire`/`Interrupted`, `WriteAlloc` or `WriteOops`, `WriteJoin`, `WriteStore` (with `Commit`) |
| `aesd_llseek` | `SysLlseek`, `Acquire`/`Interrupted`, `LlseekSize`, `LlseekMove` |
| `aesd_unlocked_ioctl`, `aesd_adjust_file_offset` | `SysIoctl`, `Acquire`/`Interrupted`, `IoctlFind`, `IoctlSet` |
| `aesd_init_module`, `aesd_setup_cdev` | `InitModule`, `SetupCdev` |
| `aesd_cleanup_module` | `CleanupModule`, `CleanupFree` or `CleanupInterrupted` |

`heap` is kernel memory by address: free, allocated with its bytes, or corrupt
after a second free. `Enter` and `Return` are the VFS layer, which passes a copy
of `f_pos` to read and write and stores it back on success. A write of no bytes
reads the byte before a zero-size allocation; the model takes the outcome of the
kernel's allocator, an oops that kills the process with the lock held. Bytes
of `struct aesd_seekto` that the ioctl does not copy are any value of `Junk`.
An allocation may fail at any time, whether memory is left or not.
The bytes behind a kernel pointer that is not allocated read as `Garbage`.

### AesdSocket

Thread `c` serves the connection of client `c`. `fds` is the descriptor table;
`accept` and `fopen` take the lowest free number and every call acts on what its
number names at that moment, except a `recvfrom` under way, which keeps its
connection.

| Code | Actions |
|---|---|
| start of `main` up to `listen` | `Start` |
| loop of `main` | `MainAccept`/`MainAcceptFails`, `MainCreate`, `MainInsert` |
| `cleanup_threads` | `CleanupThreads` per element, with `Reap` |
| `handle_connection`, loop | `Recv`, `Received`/`EndOfStream`, `LockAppend`/`LockFails`, `Write`, `Unlock` |
| `read_char_device` | `LockRead`/`LockFails`, `Ioctl`, `Fread`/`FreadFails`, `CloseRead` |
| `handle_connection`, rest | `Send`/`BrokenPipe`, `Close`, `Flag` |
| `handle_sigterm`, `handle_sigint` | `Terminate` |

The locals of `handle_connection` that hold descriptors are the variables
`client_socket` and `file`; the other locals are the records `self`. `info` is
the `thread_info_t` that the thread and the list share. `answered` are the
clients that were sent a reply, by whichever thread.
`thread_list_mutex` is used by the main thread only and is not modelled.
`wedged` says that the driver's lock was left locked by a seek out of range.
`robbed` is a history variable: the connections one of whose descriptors was
closed by somebody else. `crossed` is another: the clients some of whose data a
thread of another connection got, by `recvfrom` or by `fread`. `PacketsStored`
and `ReplyHasOwnPacket` speak of the clients that are not in it: when main has
closed a number that is in use, its next owner's data may be received by two
threads at once, and with three clients TLC shows that they then may store it in
either order.

`fprintf` and `fclose` hand a text to `write()` as a whole when it fits the stream's
buffer, `BUFSIZ`, and otherwise in pieces (`Pieces`). `Write` is one such call: the
thread stays at it while `newString`, what is left of the text, is not empty, and
between two of them the device may fail, which drops the rest (`failed`), the
process may end, and `exit` may write one piece more (`Terminate`). Where the C
library cuts a long text is left open.

The name of the seek command is two characters, so that a cut inside it is
possible. The numbers after it are digits, read by `ScannedArgs` as `sscanf` does:
a number goes as far as there are digits in the piece that has the command, and a
variable whose number is missing keeps what it had (`args`), which is at first
any value of `Junk` (`Unset`, `Held`). `uncut` says that the piece with the
command went up to the newline. Of the 32 bits of `encoded_value` the model keeps
the low byte, the only one the driver copies.

### FileServer

`FileServer` extends `AesdSocket`: what the two builds have in common is the same
action, which leaves the file alone (`Common`). A stream of kind `dev` is then one
of the data file. `files` are the contents of all files there have been since the
process started, `path` is the one that has the name, and `inode` the one behind
the stream of each thread: a handler that removes the file does not take it away
from a thread that has it open, and the next `fopen` creates another.

| Code | Actions |
|---|---|
| start of `main` up to its loop | `FileStart`, `StartFails` |
| `handle_connection` | `FileLockAppend`/`FileLockFails`, `FileWrite`, `FileSend`/`FileBrokenPipe`, the rest as in `AesdSocket` |
| `read_file` | `FileLockRead`/`FileLockFails`, `FileFread`/`ReadFileFails`, `CloseRead` |
| `add_timestamp_to_file` and the timer thread | `TimerLock`/`TimerLockFails`, `TimerWrite`, `TimerUnlock`, `TimerWake` |
| `handle_sigterm`, `handle_sigint` | `Signal` or `SignalCrashes`, `RemoveAgain`, `Exit` |

A failed `fopen` is not looked at by the code, so the next use of the stream ends
the process (`FileCrash`). `read_file` returns with the mutex locked when it
fails; a size it left at -1 (`NoSize`) equals the -1 of a failed `sendto`.

### SystemCalls

Every process of the program has the locals of the call it makes. `Fork` copies
them, so a child whose `execv` fails can go on as the program where the code
returns instead of ending the process (`ExecvFailed`).

| Code | Actions |
|---|---|
| `do_system` | `do_system`, `Fork`/`ForkFails`, `Execv`/`ExecvFails`, `WaitPid` (what the C library's `system` does, external) |
| `do_exec`, `check_absolute_path` | `do_exec`, `Fork`/`ForkFails`, `Execv`/`ExecvFails`, `WaitPid`/`WaitFails` |
| `do_exec_redirect` | `do_exec_redirect`, `Open`, `Fork`/`ForkFails`, `Dup2`, `Execv`/`ExecvFails`, `WaitPid`/`WaitFails`, `CloseAndReturn` |
| the caller and the commands (external) | `Exit`, `CommandWrites`, `CommandEnds` |

A command is its list of arguments, of which the code looks only at the first
character, whether it can be executed and how it ends. After an interrupted
`waitpid` the status that `do_exec_redirect` looks at was never stored: the model
returns either value.

### Threading

| Code | Actions |
|---|---|
| `start_thread_obtaining_mutex` | `StartMalloc` or `StartCrashes`, `StartReturnsTrue` or `StartReturnsFalse` |
| `threadfunc` | `Wake`, `Lock`/`LockFails`, `Unlock`/`UnlockFails` |
| the caller, as `threading.h` describes it (external) | `JoinAndFree`, `CallerLocks`, `CallerUnlocks` |

Addresses and thread identifiers are used again after a free and a join, so that
a stale one would be noticed.

## Runs

Every bound is a constant of the `.cfg`. Deadlock is checked in the buffer run
only: an unloaded module, a server that has served its last client, or a program
that has ended, may rest.

| Run | Instance | Result |
|---|---|---|
| `circular_buffer` | the real 10 slots, entries of two sizes | lookups, seeks and the log refinement hold in all 22,527 states; every mixture of sizes and every wrap-around position occurs |
| `driver_calls` | 2 threads, 1 open file, 2 slots, lines of two lengths, 3 addresses, reads of 1 and 2 bytes, lseeks, packed ioctls to two places | 276,405 states: reads return the contents, also in the middle of a line, in the second one and after an eviction; seeks land on the byte they encode while writes move the contents; no lock is kept, unloading gives back the device numbers, and every call returns |
| `driver_faults` | 4 addresses, allocations that fail at any time, faulting copies, empty writes, seeks out of range, reload | 963,224 states: no dangling or shared pointer, exclusion, no file operation loses memory but on the two paths the property names, and still `LineLog` |
| `server_split` | 2 clients, arbitrary cuts, a stream buffer of one character, so that packets are written in pieces, a device of one line, so that lines are evicted, a client that dies while sending, signals, a restart | 116,321 states: bytes stored in order and once; replies have what is left of the client's packet; every client is answered, with the three exceptions the property names |
| `server_seek` | a seek to byte 10 of line 1, cut anywhere, also inside its numbers, against a client whose packet arrives whole; memory, threads and the device may fail; a restart | 2,024,096 states: the reply starts at the byte asked for; a whole packet stays whole; only the holder of `file_mutex` has the device open; descriptors and list are accounted for |
| `file_server` | 1 client with a packet longer than the stream's buffer, the timer, signals, failures of every library call, 2 starts | 518,297 states: timestamps stay outside packets, also between the pieces of one, the file only grows until it is removed, the reply is the file with all of the packet, the timer is not starved |
| `system_calls` | 3 processes, 2 calls, commands that succeed, exit with 1, are killed, cannot be executed or are refused; every failure | 241,298 states: output, children and results as above, also in the copies of the program that `do_exec` leaves behind; calls end |
| `threading` | 2 threads started up to 4 times, 3 addresses, 2 mutexes the caller uses as well; every failure | 113,876 states: ownership, mutex and success flag; threads return |

Two slots in the driver runs are enough: the third line evicts the first, and
the code depends on the number of slots only in the operators of
`CircularBufferOps`, which are checked with 10 and proved for every number. Two
threads are enough to have one inside and one waiting; the safety properties are
proved for any number. `driver_calls` stops at position 1 of `MaxPos` and still
reads the second line: the first may be the newline alone. `BUFSIZ` is 1, 2 or 3:
what matters is whether a packet is longer than it. A piece cut inside `1,10`
asks for byte 1 of line 1, or for a byte that `Junk` names, 15; `Junk` has one
value, since the property is about neither. Two clients are the fewest with which a descriptor freed
by one is taken by another while main walks the list; what the proofs say of
descriptors, lists, packets, replies and seeks holds for any number of clients.
`file_server` has
one client and the timer as the two that compete, since two clients and a timer
with all failures are more states than can be searched; the steps of threads
whose descriptor was closed by another (`NoSize`, the branches for sockets) are
modelled in `FileServer` but not reached by this run. Three processes are the
caller, its child, and the child of a child that goes on as the program. Two calls
let a failed call be followed by one that should not notice. Two threads on two
mutexes may share one or not.

### Disagreements between code and documentation

These runs end in a counterexample, on purpose.

| Run | What it shows |
|---|---|
| `driver_lock_leak` | a seek out of range returns with the lock locked (`main.c:324-327`) |
| `driver_unload_leak` | cleanup frees the unfinished line instead of the entries, whose memory is lost (`main.c:454-462`) |
| `driver_seek_interface` | a seek whose two numbers are in the two fields, as `aesd_ioctl.h:26-33` documents them, goes elsewhere: `sizeof(seekto) != 0` copies one byte (`main.c:351`), which the driver takes for both numbers |
| `server_unanswered` | `cleanup_threads` closes a number already given to the next client, who is not answered (`aesdsocket.c:329`) |

Driver and server work around the short copy, as both say in comments
(`main.c:313-316`, `aesdsocket.c:143-145`): four bits for the line, four for the offset,
one byte. `SeekLandsOnPackedTarget` and `SeekReadsFromTarget` are about
this interface; the latter speaks of offsets below 16.

Other places where the code does less than its comments or its clients might expect are
named as exceptions in the properties, and none has a run of its own:

* `do_system` and `do_exec` return true also for a command that exits with another
  value than 0, where their comments promise false (`systemcalls.c:28` and `106`;
  the comments at `13-15` and `55-56`). `ResultsNotWorse` asks of these two only that
  false means failure.
* When `pthread_create` fails (`aesdsocket.c:541`) the socket and the info of the
  connection stay until the process ends, and nobody serves the client
  (`Leaked` in `DescriptorsAccountedFor`).
* A packet that arrives in pieces, or is longer than the stream's buffer, may be left
  half written by a failing write or the end of the process, and the next line
  begins with that half; `WholePacketsStayWhole` is about the packets to which
  neither can happen.
* A seek command cut inside its numbers goes to another byte than the one asked for
  (`uncut` in `SeekReadsFromTarget`).
* A line whose `temp_buf` cannot be allocated loses the `k_buf` of that write
  (`main.c:166`), and memory of which nothing was copied is lost at the next write
  (`FileOpsOrphanNothing`).

### Fairness

*Driver*: a call inside the region goes on and returns (weak fairness of `Body`
and `Return`: the kernel schedules it), and the mutex is handed to its waiters
in turn (strong fairness of `Acquire`: the kernel's mutex queues them). No
system call has to be made and nothing has to be loaded. *Server*: weak
fairness of the main thread and of each handler: a thread that can run does, and
the network delivers. The mutex of the C library need not be fair, since each
thread locks it finitely often. Signals, failures, hang-ups and starts are
never required. *Server with a file*: the same, and weak fairness of the timer
thread, which sleeps between two timestamps, so that whoever waits for the mutex
finds it free. *systemcalls*: processes are scheduled, commands end, and the
program makes calls or ends; signals need not come. A call that waits for a
command that never ends never returns, which is its purpose. *threading*: threads
run, a call that has begun goes on, and the caller gives back the mutex it has
locked; `usleep` ends. Failures are never required, and a thread takes its mutex
once, so that the mutex need not be fair.

## Proofs

All theorems are of the form `Spec => []P`, `Spec => [][A]_vars` or `Spec =>
AbstractSpec`, and each rests on an inductive invariant that is stronger than
the property. `PROJECT.json` lists which theorem proves which property of the
runs. The assumptions are the named `ASSUME`s of the modules, which TLC evaluates
in the runs: what stands for "nothing" (`NULL`, `NoClient`, `NoProc`, `Nobody`)
is not one of the things, what users and clients send are sequences and numbers,
a client sends a newline, bounds are numbers. Where a theorem needs more than
these it says so in an `ASSUME` of its own, given below.

### Buffer: `CircularBufferOpsProofs`, `CircularBufferProofs`

For every number of slots `N` from 1 to 255 (the offsets are `uint8_t`) and every
set of entries with a pointer and a positive size.

* `BufferTyped`, `BufferInvariant`: `TypeOK` and `Occupancy`, which together are
  inductive. `Occupancy` says more than that full means equal offsets: as
  nothing is ever taken out, `out_offs` is 0 until the buffer is full, and
  until then exactly the slots below `in_offs` are in use.
* `BufferIsLog`: every step is a step of `BoundedLog` or changes nothing of
  it, under the mapping to the occupied slots, oldest first. The step that
  needs an argument is adding to a full buffer: the sequence loses its head and
  gains a tail, shown element by element with modular arithmetic.
* `FindIsRight`, `SeekIsRight`: both scans agree with the concatenation of the
  entries and with each other. The sum of sizes is a recursive function; that it
  is defined, monotone and the length of the concatenation is shown by induction
  over the number of slots scanned. The induction is over sets of numbers
  (lemma `SetInduction` of `TextProofs`, from well-foundedness of `<`): the induction rules of
  the library take an operator as a parameter, which the provers cannot use.

The lemmas about the operators speak of any well-formed buffer
(`WellFormed(b, Entries)`), so that the driver's proofs use them for the buffer
inside its device.

### Texts: `TextOps`, `TextProofs`

What the server does to a client's data is compared with what the client sent
after leaving out the characters of everybody else. `Only(s, S)`, the characters of
`s` that are in `S`, is a recursive function rather than the library's
`SelectSeq`, which is a recursive operator. By `SetInduction` over the length of a
text: it is defined and typed, distributes over `\o`, keeps a text of characters in
`S` as it is, and leaves nothing of one without them. The other lemmas say
the same kind of thing of `FlattenSeq`, `IsSubsequence` and of pieces of pieces.
A concatenation hides behind a name (`Cat`) where a leaf needs only that it is
associative: the provers lose themselves in its definition.

### Driver: `CharDriverProofs`

For any number of processes, files, slots and addresses, with memory that runs
out, faulting user buffers, signals, oopses and reloads.

* `CallsExclude`, `PointersValid`, `MemoryTyped`: `MutualExclusion`,
  `NoDanglingPointers` and the types of pointers, with the inductive invariant
  `Inv == MemoryTypeOK /\ Sessions /\ MutualExclusion /\ NoDanglingPointers`.
  Exclusion alone needs to know that no file is open while the module loads,
  since `mutex_init` frees the lock by force (`Sessions`); validity of pointers
  needs exclusion, since a call inside the region keeps pointers in its locals
  that another could free.
* `DriverTyped`: all of `TypeOK`. A file position is a number only because the
  scans return numbers, so this needs the buffer inside the device to be well
  formed and the locals of each call to be what its step says. The invariant is
  `LogInv == Inv /\ Numbers /\ WellFormed(circular_buffer, Line) /\ \A p :
  CallOK(p)`; `CallOK` says of a call under way where it is in the operation,
  what its locals hold and that this is still true of the device, which nobody
  else changes while the call is inside.
* `DeviceIsLineLog`: the driver implements `LineLog`, under the mapping to the
  bytes behind the pointers of the entries and of the unfinished line. Each step
  of `LogInv` maps to a step of `LineLog` or leaves it alone; `WriteStore` is
  where a write takes effect, and what it stores is the unfinished line followed
  by the user's bytes, which `CallOK` finds in the call's memory after
  `WriteAlloc` and `WriteJoin`. The memory of stored lines does not change, since
  no other pointer leads to it (`NoDanglingPointers`).
* `ReadsRight`, `LlseeksRight`: `ReadReturnsContents` and `LlseekStaysInside`.
* `SeeksRight`: `SeekLandsOnPackedTarget`, for any number of slots: a line number
  is what four bits of the copied byte say.
* `NothingOrphaned`: `FileOpsOrphanNothing`. Which memory a step may lose is said to
  the address: the `k_buf` of the write whose `temp_buf` is refused, or the memory
  of the unfinished line when it has size 0.
* `LockReleased`, `RegionsReturned`: `LockHeldInside` and `UnloadUnregisters`, if
  no user writes an empty buffer or seeks to a command out of range (`Orderly`).
  Those are the ways to leave the lock locked, as `driver_lock_leak` shows, and
  with the lock locked unloading may give up before it returns the numbers.

### Server: `AesdSocketProofs`

For any number of clients, descriptors, packets and starts, with signals,
crashes, failures and descriptors closed by the wrong thread.

* `StreamsApart`: `OneStreamAtATime`: the descriptors that name the device
  belong to the thread that has `file_mutex`. It is not inductive,
  since a thread closes and reads descriptors that main may have taken from it.
  The invariant `StreamInv` adds that a stream of the device is the one its
  owner's local `file` names while that thread is inside the region, and that
  main creates a thread only for a connection that has none.
* `DescriptorsKept`: `DescriptorsAccountedFor`: as long as no
  thread has closed a number it does not own, the open descriptors are those of
  the connections served, of those for which `pthread_create` failed (`Leaked`),
  and of the stream in use. `Accounts` adds to
  `StreamInv` that every thread at work has the `thread_info_t` main made for it,
  and that it names the thread's socket.
* `ServerTyped`: `TypeOK`, which says among others that the list holds exactly
  the `thread_info_t`s that exist, each once, and that no thread at work has its
  info freed. `ServerInv` adds to `Accounts` that what `cleanup_threads` has yet
  to visit is in the list (`ListKept`) and that no thread at work has set its
  flag (`NotComplete`). That `SLIST_REMOVE` leaves a list without that element
  and in the same order is lemma `RemoveOne`.
* `PacketsWhole`: `WholePacketsStayWhole`, if the clients whose data arrives at
  once send no more than `recvfrom` takes and the device holds nothing of theirs
  at first (`AtOnce`). The property itself asks that the packet fit the stream's
  buffer; other clients' packets need not, so that their pieces come in between. The invariant follows the text through the system: it is
  all under way or none of it (`sent`), all in the `newString` of one thread or
  none, never in the unfinished line, and at the end of a line or not in it
  (`WholeFor`). Whichever thread receives it may be that of another client.
* `SeeksAnswered`: `SeekReadsFromTarget`, if the device keeps at most 16 lines.
  What a thread of the client has received is a piece of the packet, and if it has
  the command and the newline, the numbers in it are those of the packet: where
  `sscanf` starts and stops reading digits depends only on what comes after the
  command (`ScannedShift`). They stay in the thread's locals until the ioctl
  (`Commanded`) and survive the packing into one byte (`Encoded`), and
  from the ioctl to the `fread` nobody writes or seeks, since both need
  `file_mutex` (`Aimed`, `AimStep`).

* `StoredInOrder`: `PacketsStored`, if no line the device starts with has a
  character that only one of the clients sends (`StoredByOthers`). Neither "a
  part of the packet is stored" nor "in its order" is inductive, as most of the
  packet is somewhere else. `Progress(c, p)` says that the server has taken the
  first `p` bytes of what `c` sends, that the rest is under way or was cut by a
  hang-up, that the device followed by what the thread is about to write
  (`OnItsWay`) is a subsequence of what of the packet is in those bytes (`Passed`),
  and that it ends with all of it, without a gap, as long as nothing was dropped
  (`Intact`). Evicted lines take away at the front, dropped packets in the
  middle. A thread stops receiving once it has the newline, so `p` passes the
  packet's end at most once (`PieceReceived`).
* `RepliesHaveOwnPacket`: `ReplyHasOwnPacket`, without a hypothesis. The thread's
  `newString` ends with a newline when it leaves the loop, so nothing of the
  client is in the unfinished line between its write and its read, and nobody
  else writes anything of the client: the part of the device that is its client's
  only loses from the front after `read_char_device` took it from position 0
  (`Answering`). A reply that fills the buffer is the exception the property names.

The actions are sorted by what they do (to descriptors: none, open a stream,
close their own, enter or leave the region; to texts: receive, store, cut short;
from the side of one client: its thread takes some data, puts it on the device,
drops it, or has no part in the step), with one lemma for each sort.

### Server with a file: `FileServerProofs`

For any number of clients, descriptors and timestamps.

* `FileTyped`: `FileTypeOK`: in particular an open stream has a file behind it
  although a handler may have removed its name;
* `WritersApart`: `OneWriterAtATime`, for the timer thread and all clients;
* `FileGrows`: `FileOnlyGrows`;
* `StampsOutside`: `TimestampsStayOutside`, if the clients whose data arrives at
  once send no more than one `recvfrom` takes (`FitsAtOnce`);
* `RepliesWithPacket`: `ReplyIsFileWithPacket`, without a hypothesis.

The invariant is `FileInv == Control /\ Data /\ TimerInProcess`: who has which descriptor
and the mutex, what the files and the threads' locals hold, and the timer. The
steps this build shares with the other are proved once more for it, since the
timer is one more owner of descriptors.

For the last two theorems the actions are first shown to be of four sorts
(`FileStep`): nothing is written, though the file may be created or removed; the
timer or a thread appends a piece of what it carries to the file behind its stream and keeps
the rest; the process ends, and `exit` still writes a piece of what one stream has
buffered, or nothing; or a thread receives. `StampsOutside` then follows the data of
one client `w` through four stages (`Staged`): nobody has anything of it, and no
file and no thread has a character only `w` sends (`NotYet`); one thread has a
beginning of the packet in its `newString`, and it is all the server has of `w`
(`OneHasIt`); a thread has written a part of that to the end of its file and has the
rest to write (`InPart`), where nobody else can write, since that thread has the
mutex; or the file has it, or as much as was written before a failure, in one piece,
and no thread has any of it (`IsWritten`). Whichever thread received it may be another client's.

`RepliesWithPacket` needs three facts about each client. As long as nobody closed a descriptor it does not own,
every thread has its own socket and stream and carries its own client's text
(`Holds`). What the file has of `c`, followed by what its thread has yet to write, is
the beginning of its packet, as far as the thread has received it, all of it once it has
the newline, and what is under way goes on from there (`Delivered`); before the
thread starts that is nothing, since a client connects once. And between the append
and the reply the file grows by texts of others only, so what `read_file`
returned stays its beginning and has all of the client's characters the file has
(`Replied`).

### Exercises: `SystemCallsProofs`, `ThreadingProofs`

`SystemCallsProofs`, for any number of processes, commands and output files, with
failing `fork`, `open`, `dup2`, `execv` and interrupted `waitpid`: `OutputKept`,
`NoChildLeft`, `ResultsRight` and `OutputComplete` prove `CallerKeepsItsOutput`,
`ChildrenReaped`, `ResultsNotWorse` and `OutputIsInFile`. As long as no `waitpid`
has failed the processes form a chain: each waits for the next one, and only the
last acts (`Single`). So nobody else writes to the output file while a command
does, and what a process will be told when its child ends is what the child has
done so far (`Waits`, `Outcome`).

`ThreadingProofs`, for any number of threads, addresses and mutexes:
`ThreadingTyped`, `ThreadDataOwned`, `MutexHeld` and `SuccessFlagExact` prove
`TypeOK`, `DataHasOneOwner`, `HolderOwnsMutex` and `SuccessMeansReleased`. They
rest on one inductive invariant: types, the three properties, and that only
threads that have returned count as having released their mutex. The mutex a thread
releases is the one it took because nobody else writes to its `thread_data`, which
is what ownership says.

### Only model-checked

* Liveness under fairness, which is out of the provers' reach:
  `EveryCallReturns`, `EveryPacketAnswered`, `TimestampsGoOn`, `EveryCallEnds`,
  `EveryThreadReturns`.
Recursion over data (`Contents`, `Only`, the sums of sizes) is proved by
`SetInduction`, where a property needs it. In the proofs as in the runs, `OwnPart`
and `PartOf` are the characters only one client sends: of a character that
several send, such as the newline, nobody can tell whose it was.

## Not modelled

* `finder-app`, start scripts, build and test glue: sequential text and file
  processing with no state to explore.
* Debug output (`PDEBUG`, `printf`, `syslog`), including its reads of
  unterminated strings.
* The C library's state inside signal handlers, and a second signal that arrives
  while a handler runs and closes `global_file` twice (`aesdsocket.c:351`): only the steps of the handlers
  themselves are interleaved with the other threads.
* The layout of the two buffers of `BUFFER_SIZE` bytes, past whose end a null is
  written when they are full (`aesdsocket.c:171` and `250`).
* Null characters in what clients send, at which `strstr`, `sscanf` and
  `fprintf("%s")` stop although more was received (`aesdsocket.c:256-267`), and spaces
  and signs, which `sscanf` accepts before a number: the constant `Stream` has none.
* Timestamps longer than a stream's buffer (`StampAssumption`): the format of line 58
  makes one of some 40 characters.
* Time: how long a timer or `usleep` sleeps. `threading.c:21` passes a number of
  milliseconds where microseconds are expected; the model lets a sleep last any
  time.

## What could follow

The models cover every part of the repository that keeps a state. What is left
open: the liveness properties on larger instances than the runs search, and the
disagreements above, each of which is a change in the code after which the
property of its run should hold, and the exceptions listed there, which should
then go.
