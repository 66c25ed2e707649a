-------------------------- MODULE FileServerProofs --------------------------
(***************************************************************************)
(* Proofs about the server that keeps its packets in a file, for any       *)
(* number of clients and descriptors and any number of timestamps, with    *)
(* signals, crashes, restarts and threads that close each other's          *)
(* descriptors: the variables have their types (FileTyped), the mutex      *)
(* keeps the users of the file apart (WritersApart), the file only grows   *)
(* until a signal removes it (FileGrows), no timestamp is inside a packet  *)
(* (StampsOutside), and a reply is what the file held and has the client's *)
(* packet (RepliesWithPacket).                                             *)
(*                                                                         *)
(* Control says who has which descriptor and the mutex, Data what is in    *)
(* the files behind them, FileStep what a step does to the texts.  Staged  *)
(* and Delivered follow the packet of one client from the network to the   *)
(* file, the one to any thread, the other to its own.                      *)
(***************************************************************************)
EXTENDS FileServer, AesdSocketProofs, SequenceTheorems

USE ClientAssumption, SizeAssumption, TimerAssumption

(* Where descriptors, the mutex and the threads are. *)
Kinds == [kind : {"sock", "dev"}, owner : Owner] \cup {Free}

ControlTyped ==
    /\ fds \in [Fd -> Kinds]
    /\ file_mutex \in Owner \cup {NoClient}
    /\ pc \in [Client -> Steps]
    /\ file \in [Client -> {0} \cup Fd]
    /\ client_socket \in [Client -> {0} \cup Fd]
    /\ client \in [Client -> {"new", "waiting", "open", "gone"}]
    /\ DOMAIN info = Client
    /\ timer \in {"none", "lock", "write", "unlock", "sleep"}
    /\ timer_fd \in {0} \cup Fd
    /\ timer_fd # 0 <=> TimerLocking

(* A stream is the one that a local variable of its owner names, and a     *)
(* thread that reads or writes has a descriptor for it, although another   *)
(* one may have closed it.                                                 *)
StreamsHeld ==
    /\ \A f \in Fd :
          /\ fds[f].kind = "sock" => fds[f].owner \in Client
          /\ fds[f].kind = "dev" /\ fds[f].owner = Timer => timer_fd = f
          /\ \A c \in Client : fds[f].kind = "dev" /\ fds[f].owner = c => Streaming(c) /\ file[c] = f
    /\ \A c \in Client : pc[c] \in {"write", "ioctl", "fread", "closeread"} => file[c] # 0

(* main creates one thread for a connection, and passes it a descriptor. *)
ThreadsOnce ==
    /\ \A c \in Client : client[c] \in {"new", "waiting"} => pc[c] = "none"
    /\ \A c \in Client : Working(c) => client_socket[c] # 0
    /\ main = "create" => /\ accepted \in Client
                          /\ pc[accepted] = "none"
                          /\ client[accepted] \in {"open", "gone"}
                          /\ info[accepted] \in ThreadInfo

Control == ControlTyped /\ StreamsHeld /\ ThreadsOnce /\ OneWriterAtATime
-----------------------------------------------------------------------------
(* What is in the files, under way, and in the locals of a thread. *)
Byte == ToSet(Stamp) \cup UNION {ToSet(Stream[c]) : c \in Client}
Text == Seq(Byte)

Locals(args) ==
    [conn : Client \cup {NoClient}, newString : Text, newline : BOOLEAN,
     found_ioctl_cmd : BOOLEAN, args : {args}, uncut : BOOLEAN, failed : BOOLEAN,
     pos : {0}, contents : Text \cup {NULL, NoSize}]

LocalsTyped(c) ==
    /\ Working(c) => self[c] \in Locals(self[c].args)
    /\ pc[c] = "receiving" => self[c].conn \in Client

Data ==
    /\ files \in Seq(Text)
    /\ path \in 0..Len(files)
    /\ inode \in [Owner -> 0..Len(files)]
    /\ sent \in [Client -> Text]
    /\ DOMAIN self = Client /\ \A c \in Client : LocalsTyped(c)
    /\ \A f \in Fd : fds[f].kind = "dev" => inode[fds[f].owner] # 0

(* There is a timer thread only in a process. *)
TimerInProcess ==
    /\ global_file \in BOOLEAN /\ stamps \in 0..MaxStamps
    /\ server = "down" => timer = "none"

FileInv == Control /\ Data /\ TimerInProcess
-----------------------------------------------------------------------------
(* Some descriptors are closed, and no other changes. *)
Closes == fds' \in [Fd -> Kinds] /\ \A f \in Fd : fds'[f] \in {fds[f], Free}

LEMMA CloseCloses ==
    ASSUME Control, NEW f, NEW o, close(f, o)
    PROVE  Closes /\ (f \in Fd => fds'[f] = Free)
  <1>1. fds' = [fds EXCEPT ![f] = Free] /\ Free \in Kinds
    BY DEF close, Kinds
  <1> QED
    BY <1>1 DEF Control, ControlTyped, Closes

LEMMA OpenOpens ==
    ASSUME Control, FreeFds # {}, NEW o \in Owner, NEW k \in {"sock", "dev"}, fds' = Opened(k, o)
    PROVE  /\ fds' \in [Fd -> Kinds]
           /\ Min(FreeFds) \in Fd /\ Min(FreeFds) # 0
           /\ fds'[Min(FreeFds)] = [kind |-> k, owner |-> o]
           /\ \A f \in Fd : f # Min(FreeFds) => fds'[f] = fds[f]
  <1>1. Min(FreeFds) \in Fd /\ Min(FreeFds) # 0
    BY MinFree DEF FreeFds, Fd
  <1>2. [kind |-> k, owner |-> o] \in Kinds
    BY DEF Kinds
  <1> QED
    BY <1>1, <1>2 DEF Control, ControlTyped, Opened

(* Who takes the mutex finds nobody inside, and no stream open. *)
LEMMA MutexFree ==
    ASSUME Control, file_mutex = NoClient
    PROVE  /\ \A c \in Client : ~Locking(c)
           /\ ~TimerLocking /\ timer_fd = 0
           /\ \A f \in Fd : fds[f].kind # "dev"
  <1>1. ASSUME NEW f \in Fd, fds[f].kind = "dev"
        PROVE  FALSE
    <2>1. fds[f].owner \in Owner /\ file_mutex = fds[f].owner
      BY <1>1 DEF Control, ControlTyped, Kinds, Free, OneWriterAtATime
    <2> QED
      BY <2>1 DEF Owner
  <1> QED
    BY <1>1 DEF Control, ControlTyped, OneWriterAtATime

(* A thread takes a step of its own. *)
Advances(c, s) ==
    /\ Working(c) /\ s \in Steps \ {"none"}
    /\ Goto(c, s)
    /\ UNCHANGED <<main, accepted, client, timer, timer_fd>>
    /\ DOMAIN info' = DOMAIN info /\ \A d \in Client : d # c => info'[d] = info[d]
    /\ \/ UNCHANGED client_socket
       \/ s = "exit" /\ client_socket' = [client_socket EXCEPT ![c] = 0]

LEMMA AdvanceKeeps ==
    ASSUME Control, NEW c \in Client, NEW s, Advances(c, s)
    PROVE  /\ ThreadsOnce' /\ (TimerLocking' <=> TimerLocking)
           /\ pc' \in [Client -> Steps] /\ client_socket' \in [Client -> {0} \cup Fd]
           /\ client' \in [Client -> {"new", "waiting", "open", "gone"}]
           /\ pc'[c] = s /\ \A d \in Client : d # c => pc'[d] = pc[d]
  <1>1. /\ pc' \in [Client -> Steps] /\ client_socket' \in [Client -> {0} \cup Fd]
        /\ pc'[c] = s /\ \A d \in Client : d # c => pc'[d] = pc[d]
    BY DEF Control, ControlTyped, Advances, Goto
  <1>2. \A d \in Client : client'[d] \in {"new", "waiting"} => pc'[d] = "none"
    BY <1>1 DEF Control, ThreadsOnce, Advances, Working
  <1>3. \A d \in Client : Working(d)' => client_socket'[d] # 0
    BY <1>1 DEF Control, ControlTyped, ThreadsOnce, Advances, Working
  <1>4. main' = "create" => /\ accepted' \in Client
                            /\ pc'[accepted'] = "none"
                            /\ client'[accepted'] \in {"open", "gone"}
                            /\ info'[accepted'] \in ThreadInfo
    BY <1>1 DEF Control, ThreadsOnce, Advances, Working
  <1> QED
    BY <1>1, <1>2, <1>3, <1>4 DEF ThreadsOnce, Control, ControlTyped, Advances, TimerLocking

Within == {"write", "ioctl", "fread", "closeread", "unlock"}

(* Outside of the mutex. *)
LEMMA ControlOutside ==
    ASSUME Control, NEW c \in Client, NEW s, Advances(c, s),
           pc[c] \notin Within, s \notin Within, Closes, UNCHANGED <<file_mutex, file>>
    PROVE  Control'
  <1>1. ControlTyped' /\ ThreadsOnce'
    BY AdvanceKeeps DEF Control, ControlTyped, Closes, Advances
  <1>2. \A d \in Client : (Streaming(d)' <=> Streaming(d)) /\ (Locking(d)' <=> Locking(d))
    BY AdvanceKeeps DEF Streaming, Locking, Within
  <1>3. \A f \in Fd : fds'[f].kind \in {"sock", "dev"} => fds'[f] = fds[f]
    BY DEF Closes, Free
  <1>4. \A f \in Fd : fds[f].kind = "dev" => fds[f].owner \in Owner
    BY DEF Control, ControlTyped, Kinds, Free
  <1>5. StreamsHeld'
    <2>1. ASSUME NEW f \in Fd
          PROVE  /\ fds'[f].kind = "sock" => fds'[f].owner \in Client
                 /\ fds'[f].kind = "dev" /\ fds'[f].owner = Timer => timer_fd' = f
                 /\ \A d \in Client : fds'[f].kind = "dev" /\ fds'[f].owner = d =>
                       Streaming(d)' /\ file'[d] = f
      BY <1>2, <1>3, <1>4 DEF Control, StreamsHeld, Advances, Owner
    <2>2. \A d \in Client : pc'[d] \in {"write", "ioctl", "fread", "closeread"} => file'[d] # 0
      BY AdvanceKeeps DEF Control, StreamsHeld, Within
    <2> QED
      BY <2>1, <2>2 DEF StreamsHeld
  <1>6. OneWriterAtATime'
    BY <1>2, <1>3, AdvanceKeeps DEF Control, OneWriterAtATime
  <1> QED
    BY <1>1, <1>5, <1>6 DEF Control

(* Under the mutex, with the stream open. *)
LEMMA ControlWithin ==
    ASSUME Control, NEW c \in Client, NEW s, Advances(c, s),
           pc[c] \in Within \ {"unlock"}, s \in Within, UNCHANGED <<fds, file_mutex, file>>
    PROVE  Control'
  <1>1. ControlTyped' /\ ThreadsOnce'
    BY AdvanceKeeps DEF Control, ControlTyped, Advances
  <1>2. file[c] # 0
    BY DEF Control, StreamsHeld, Within
  <1>3. \A d \in Client : (Streaming(d)' <=> Streaming(d)) /\ (Locking(d)' <=> Locking(d))
    BY <1>2, AdvanceKeeps DEF Streaming, Locking, Within
  <1>4. \A f \in Fd : fds[f].kind = "dev" => fds[f].owner \in Owner
    BY DEF Control, ControlTyped, Kinds, Free
  <1>5. StreamsHeld'
    <2>1. ASSUME NEW f \in Fd
          PROVE  /\ fds'[f].kind = "sock" => fds'[f].owner \in Client
                 /\ fds'[f].kind = "dev" /\ fds'[f].owner = Timer => timer_fd' = f
                 /\ \A d \in Client : fds'[f].kind = "dev" /\ fds'[f].owner = d =>
                       Streaming(d)' /\ file'[d] = f
      BY <1>3, <1>4 DEF Control, StreamsHeld, Advances, Owner
    <2>2. \A d \in Client : pc'[d] \in {"write", "ioctl", "fread", "closeread"} => file'[d] # 0
      BY <1>2, AdvanceKeeps DEF Control, StreamsHeld
    <2> QED
      BY <2>1, <2>2 DEF StreamsHeld
  <1>6. OneWriterAtATime'
    BY <1>3, AdvanceKeeps DEF Control, OneWriterAtATime
  <1> QED
    BY <1>1, <1>5, <1>6 DEF Control

(* The mutex is locked, and the file opened or not. *)
LEMMA ControlEnters ==
    ASSUME Control, NEW c \in Client, NEW s \in Within, NEW n, Advances(c, s), Acquire(c),
           file' = [file EXCEPT ![c] = n],
           \/ n = 0 /\ s = "unlock" /\ UNCHANGED fds
           \/ n = Min(FreeFds) /\ FreeFds # {} /\ fds' = Opened("dev", c)
    PROVE  Control' /\ \A f \in Fd : fds'[f].kind = "dev" => fds'[f].owner = c
  <1>0. c \in Owner /\ c # Timer
    BY DEF Owner
  <1>1. file_mutex = NoClient /\ file_mutex' = c
    BY DEF Acquire
  <1>2. \A f \in Fd : fds[f].kind # "dev"
    BY <1>1, MutexFree
  <1>3. /\ n \in {0} \cup Fd /\ fds' \in [Fd -> Kinds]
        /\ \A f \in Fd : fds'[f] = fds[f] \/ (f = n /\ n # 0 /\ fds'[f] = [kind |-> "dev", owner |-> c])
        /\ n = 0 => s = "unlock"
    <2>1. CASE n = 0 /\ s = "unlock" /\ UNCHANGED fds
      BY <2>1 DEF Control, ControlTyped
    <2>2. CASE n = Min(FreeFds) /\ FreeFds # {} /\ fds' = Opened("dev", c)
      BY <1>0, <2>2, OpenOpens
    <2> QED
      BY <2>1, <2>2
  <1>4. ControlTyped' /\ ThreadsOnce'
    BY <1>0, <1>1, <1>3, AdvanceKeeps DEF Control, ControlTyped, Advances
  <1>5. \A f \in Fd : fds'[f].kind = "dev" => f = n /\ n # 0 /\ fds'[f].owner = c
    BY <1>2, <1>3
  <1>6. file'[c] = n /\ \A d \in Client : d # c => file'[d] = file[d]
    BY DEF Control, ControlTyped
  <1>7. n # 0 => Streaming(c)'
    BY <1>6, AdvanceKeeps DEF Streaming, Within
  <1>8. \A d \in Client : d # c => ~Locking(d)'
    BY <1>1, <1>6, MutexFree, AdvanceKeeps DEF Locking, Streaming
  <1>9. StreamsHeld'
    <2>1. ASSUME NEW f \in Fd
          PROVE  /\ fds'[f].kind = "sock" => fds'[f].owner \in Client
                 /\ fds'[f].kind = "dev" /\ fds'[f].owner = Timer => timer_fd' = f
                 /\ \A d \in Client : fds'[f].kind = "dev" /\ fds'[f].owner = d =>
                       Streaming(d)' /\ file'[d] = f
      BY <1>0, <1>3, <1>5, <1>6, <1>7 DEF Control, StreamsHeld
    <2>2. \A d \in Client : pc'[d] \in {"write", "ioctl", "fread", "closeread"} => file'[d] # 0
      BY <1>3, <1>6, AdvanceKeeps DEF Control, StreamsHeld
    <2> QED
      BY <2>1, <2>2 DEF StreamsHeld
  <1>10. OneWriterAtATime'
    BY <1>1, <1>5, <1>8, MutexFree, AdvanceKeeps DEF OneWriterAtATime
  <1> QED
    BY <1>4, <1>5, <1>9, <1>10 DEF Control

(* The stream is closed, and the mutex unlocked or not. *)
LEMMA ControlLeaves ==
    ASSUME Control, NEW c \in Client, NEW s, Advances(c, s),
           pc[c] \in Within, s \notin Within,
           Closes, file[c] \in Fd => fds'[file[c]] = Free,
           file' = [file EXCEPT ![c] = 0], file_mutex' \in {file_mutex, NoClient}
    PROVE  Control' /\ \A f \in Fd : fds'[f].kind # "dev"
  <1>1. file_mutex = c /\ c # Timer /\ c # NoClient
    BY DEF Control, OneWriterAtATime, Within, Locking, Streaming
  <1>2. file' \in [Client -> {0} \cup Fd] /\ \A d \in Client : d # c => file'[d] = file[d]
    BY DEF Control, ControlTyped
  <1>3. ControlTyped' /\ ThreadsOnce'
    BY <1>2, AdvanceKeeps DEF Control, ControlTyped, Closes, Advances
  <1>4. ~TimerLocking
    BY <1>1 DEF Control, OneWriterAtATime
  <1>5. \A d \in Client : ~Locking(d)'
    BY <1>1, <1>2, AdvanceKeeps DEF Control, OneWriterAtATime, Locking, Streaming, Within
  <1>6. ASSUME NEW f \in Fd, fds'[f].kind = "dev"
        PROVE  FALSE
    <2>1. fds'[f] = fds[f] /\ fds'[f] # Free
      BY <1>6 DEF Closes, Free
    <2>2. fds[f].owner = c
      BY <1>1, <1>6, <2>1 DEF Control, OneWriterAtATime
    <2>3. file[c] = f
      BY <1>1, <1>6, <2>1, <2>2 DEF Control, StreamsHeld
    <2> QED
      BY <2>1, <2>3
  <1>7. \A f \in Fd : fds'[f].kind = "sock" => fds'[f] = fds[f]
    BY DEF Closes, Free
  <1>8. \A d \in Client : pc'[d] \notin {"write", "ioctl", "fread", "closeread"}
    BY <1>5 DEF Locking, Streaming
  <1>9. StreamsHeld'
    BY <1>6, <1>7, <1>8 DEF Control, StreamsHeld
  <1>10. OneWriterAtATime'
    BY <1>4, <1>5, <1>6, AdvanceKeeps DEF OneWriterAtATime
  <1> QED
    BY <1>3, <1>6, <1>9, <1>10 DEF Control

(* The steps that the two builds have in common. *)
LEMMA ControlCommon ==
    ASSUME Control, NEW c \in Client, UNCHANGED <<timer, timer_fd>>,
           \/ Recv(c) \/ Received(c) \/ EndOfStream(c) \/ Unlock(c)
           \/ CloseRead(c) \/ Close(c) \/ Flag(c)
    PROVE  Control'
  <1> USE DEF Advances, Within, Steps, Working
  <1>0. fds' = fds => Closes
    BY DEF Closes, Control, ControlTyped
  <1>1. CASE Recv(c)
    <2>1. PICK s \in {"receiving", "lockread"} : Goto(c, s)
      BY <1>1, Zenon DEF Recv
    <2>2. /\ pc[c] = "recv"
          /\ UNCHANGED <<fds, file_mutex, file, client_socket, info, main, accepted, client>>
      BY <1>1, Zenon DEF Recv, mainVars, network
    <2> QED
      BY <1>0, <2>1, <2>2, ControlOutside
  <1>2. CASE Received(c) \/ EndOfStream(c)
    <2>1. PICK s \in {"lock", "lockread"} : Goto(c, s)
      BY <1>2, Zenon DEF Received, EndOfStream
    <2>2. /\ pc[c] = "receiving"
          /\ UNCHANGED <<fds, file_mutex, file, client_socket, info, main, accepted, client>>
      BY <1>2, Zenon DEF Received, EndOfStream, mainVars, network, locals
    <2> QED
      BY <1>0, <2>1, <2>2, ControlOutside
  <1>3. CASE Unlock(c)
    <2>1. /\ pc[c] = "unlock" /\ Goto(c, AfterPacket(c)) /\ Release
          /\ file' = [file EXCEPT ![c] = 0]
          /\ UNCHANGED <<client_socket, info, main, accepted, client>>
      BY <1>3, Zenon DEF Unlock, mainVars, network
    <2>2. IF file[c] # 0 THEN close(file[c], c) ELSE UNCHANGED <<fds, robbed>>
      BY <1>3, Zenon DEF Unlock
    <2>3. AfterPacket(c) \in {"recv", "lockread"}
      BY DEF AfterPacket
    <2>4. Closes /\ (file[c] \in Fd => fds'[file[c]] = Free)
      <3>1. 0 \notin Fd
        BY DEF Fd
      <3> QED
        BY <1>0, <2>2, <3>1, CloseCloses
    <2> QED
      BY <2>1, <2>3, <2>4, ControlLeaves DEF Release
  <1>4. CASE CloseRead(c)
    <2>1. /\ pc[c] = "closeread" /\ Goto(c, "send") /\ close(file[c], c) /\ Release
          /\ file' = [file EXCEPT ![c] = 0]
          /\ UNCHANGED <<client_socket, info, main, accepted, client>>
      BY <1>4, Zenon DEF CloseRead, mainVars, network
    <2>2. Closes /\ (file[c] \in Fd => fds'[file[c]] = Free)
      BY <2>1, CloseCloses
    <2> QED
      BY <2>1, <2>2, ControlLeaves DEF Release
  <1>5. CASE Close(c)
    <2>1. /\ pc[c] = "close" /\ Goto(c, "flag") /\ close(client_socket[c], c)
          /\ UNCHANGED <<file_mutex, file, client_socket, info, main, accepted, client>>
      BY <1>5, Zenon DEF Close, mainVars, network
    <2>2. Closes
      BY <2>1, CloseCloses
    <2> QED
      BY <2>1, <2>2, ControlOutside
  <1>6. CASE Flag(c)
    <2>1. /\ pc[c] = "flag" /\ Goto(c, "exit")
          /\ client_socket' = [client_socket EXCEPT ![c] = 0]
          /\ info' = [info EXCEPT ![c] = [client_socket |-> @.client_socket, complete |-> TRUE]]
          /\ UNCHANGED <<fds, file_mutex, file, main, accepted, client>>
      BY <1>6, Zenon DEF Flag, mainVars, network
    <2>2. DOMAIN info' = DOMAIN info /\ \A d \in Client : d # c => info'[d] = info[d]
      BY <2>1
    <2> QED
      BY <1>0, <2>1, <2>2, ControlOutside
  <1> QED
    BY <1>1, <1>2, <1>3, <1>4, <1>5, <1>6

LEMMA FileWriteGoto ==
    ASSUME NEW c \in Client, FileWrite(c)
    PROVE  \E s \in {"write", "unlock"} : Goto(c, s)
  <1>1. \A t \in {"write", "unlock"} : Goto(c, t) => \E s \in {"write", "unlock"} : Goto(c, s)
    BY Zenon
  <1> QED
    BY <1>1 DEF FileWrite

LEMMA ControlFile ==
    ASSUME Control, NEW c \in Client,
           \/ FileLockAppend(c) \/ FileWrite(c) \/ FileLockRead(c) \/ FileFread(c)
           \/ ReadFileFails(c) \/ FileSend(c)
    PROVE  Control'
  <1> USE DEF Advances, Within, Steps, Working
  <1>0. fds' = fds => Closes
    BY DEF Closes, Control, ControlTyped
  <1>1. CASE FileLockAppend(c)
    <2>1. /\ pc[c] = "lock" /\ Acquire(c)
          /\ UNCHANGED <<client_socket, info, main, accepted, client, timer, timer_fd>>
      BY <1>1, Zenon DEF FileLockAppend, LockAppend, mainVars, network
    <2>2. CASE CommandFound(c)
      <3>1. file' = [file EXCEPT ![c] = 0] /\ fds' = fds /\ Goto(c, "unlock")
        BY <1>1, <2>2, Zenon DEF FileLockAppend, LockAppend
      <3> QED
        BY <2>1, <3>1, ControlEnters
    <2>3. CASE ~CommandFound(c)
      <3>1. file' = [file EXCEPT ![c] = Min(FreeFds)] /\ FreeFds # {}
        BY <1>1, <2>3, Zenon DEF FileLockAppend, LockAppend
      <3>2. fds' = Opened("dev", c) /\ Goto(c, "write")
        BY <1>1, <2>3, Zenon DEF FileLockAppend, LockAppend
      <3> QED
        BY <2>1, <3>1, <3>2, ControlEnters
    <2> QED
      BY <2>2, <2>3
  <1>2. CASE FileWrite(c)
    <2>1. /\ pc[c] = "write"
          /\ UNCHANGED <<fds, file_mutex, file, client_socket, info, main, accepted, client, timer, timer_fd>>
      BY <1>2, Zenon DEF FileWrite, mainVars
    <2>2. PICK s \in {"write", "unlock"} : Goto(c, s)
      BY <1>2, FileWriteGoto
    <2> QED
      BY <2>1, <2>2, ControlWithin
  <1>3. CASE FileLockRead(c)
    <2>1. /\ pc[c] = "lockread" /\ Acquire(c) /\ FreeFds # {}
          /\ fds' = Opened("dev", c) /\ Goto(c, "fread")
          /\ file' = [file EXCEPT ![c] = Min(FreeFds)]
          /\ UNCHANGED <<client_socket, info, main, accepted, client, timer, timer_fd>>
      BY <1>3, Zenon DEF FileLockRead, mainVars, network
    <2> QED
      BY <2>1, ControlEnters
  <1>4. CASE FileFread(c)
    <2>1. /\ pc[c] = "fread" /\ Goto(c, "closeread")
          /\ UNCHANGED <<fds, file_mutex, file, client_socket, info, main, accepted, client, timer, timer_fd>>
      BY <1>4, Zenon DEF FileFread, mainVars, network, fileVars
    <2> QED
      BY <2>1, ControlWithin
  <1>5. CASE ReadFileFails(c)
    <2>1. /\ pc[c] = "fread" /\ Goto(c, "send") /\ close(file[c], c)
          /\ file' = [file EXCEPT ![c] = 0]
          /\ UNCHANGED <<file_mutex, client_socket, info, main, accepted, client, timer, timer_fd>>
      BY <1>5, Zenon DEF ReadFileFails, mainVars, fileVars
    <2>2. Closes /\ (file[c] \in Fd => fds'[file[c]] = Free)
      BY <2>1, CloseCloses
    <2> QED
      BY <2>1, <2>2, ControlLeaves
  <1>6. CASE FileSend(c)
    <2>1. /\ pc[c] = "send" /\ Goto(c, "close")
          /\ UNCHANGED <<file_mutex, file, client_socket, info, main, accepted, client, timer, timer_fd>>
      BY <1>6, Zenon DEF FileSend, mainVars, locals, fileVars
    <2>2. close(client_socket[c], c) \/ UNCHANGED fds
      BY <1>6, Zenon DEF FileSend
    <2>3. Closes
      BY <1>0, <2>2, CloseCloses
    <2> QED
      BY <2>1, <2>3, ControlOutside
  <1> QED
    BY <1>1, <1>2, <1>3, <1>4, <1>5, <1>6
-----------------------------------------------------------------------------
(* The timer thread. *)
LEMMA ControlTimer ==
    ASSUME Control, TimerThread
    PROVE  Control'
  <1>0. Timer \in Owner /\ Timer \notin Client
    BY DEF Owner
  <1>1. CASE TimerLock
    <2> DEFINE n == Min(FreeFds)
    <2>1. /\ timer = "lock" /\ timer' = "write" /\ FreeFds # {} /\ timer_fd' = n
          /\ file_mutex = NoClient /\ file_mutex' = Timer
          /\ fds' = Opened("dev", Timer)
          /\ UNCHANGED <<pc, file, client_socket, info, main, accepted, client>>
      BY <1>1, Zenon DEF TimerLock, Acquire, mainVars, threads, locals, network
    <2>2. /\ fds' \in [Fd -> Kinds] /\ n \in Fd /\ n # 0
          /\ fds'[n] = [kind |-> "dev", owner |-> Timer]
          /\ \A f \in Fd : f # n => fds'[f] = fds[f]
      BY <1>0, <2>1, OpenOpens
    <2>3. /\ \A c \in Client : ~Locking(c)
          /\ \A f \in Fd : fds[f].kind # "dev"
      BY <2>1, MutexFree
    <2> HIDE DEF n
    <2>4. ControlTyped' /\ ThreadsOnce'
      BY <1>0, <2>1, <2>2 DEF Control, ControlTyped, ThreadsOnce, Working, TimerLocking
    <2>5. StreamsHeld'
      BY <1>0, <2>1, <2>2, <2>3 DEF Control, StreamsHeld
    <2>6. OneWriterAtATime'
      <3>1. \A c \in Client : ~Locking(c)'
        BY <2>1, <2>3 DEF Locking, Streaming
      <3> QED
        BY <2>1, <2>2, <2>3, <3>1 DEF OneWriterAtATime
    <2> QED
      BY <2>4, <2>5, <2>6 DEF Control
  <1>2. CASE TimerWrite \/ TimerWake
    <2>1. /\ UNCHANGED <<fds, file_mutex, timer_fd>>
          /\ \/ timer = "write" /\ timer' = "unlock"
             \/ timer = "sleep" /\ timer' = "lock"
          /\ UNCHANGED <<pc, file, client_socket, info, main, accepted, client>>
      BY <1>2, Zenon DEF TimerWrite, TimerWake, vars, mainVars, threads, locals, network
    <2>2. TimerLocking' <=> TimerLocking
      BY <2>1 DEF TimerLocking
    <2>3. \A c \in Client : (Streaming(c)' <=> Streaming(c)) /\ (Locking(c)' <=> Locking(c))
      BY <2>1 DEF Locking, Streaming
    <2>4. ControlTyped' /\ ThreadsOnce'
      BY <2>1, <2>2 DEF Control, ControlTyped, ThreadsOnce, Working
    <2>5. StreamsHeld' /\ OneWriterAtATime'
      BY <2>1, <2>2, <2>3 DEF Control, StreamsHeld, OneWriterAtATime
    <2> QED
      BY <2>4, <2>5 DEF Control
  <1>3. CASE TimerUnlock
    <2>1. /\ timer = "unlock" /\ timer' = "sleep" /\ timer_fd' = 0
          /\ close(timer_fd, Timer) /\ file_mutex' = NoClient
          /\ UNCHANGED <<pc, file, client_socket, info, main, accepted, client>>
      BY <1>3, Zenon DEF TimerUnlock, Release, mainVars, threads, locals, network
    <2>2. timer_fd \in Fd /\ file_mutex = Timer
      BY <2>1 DEF Control, ControlTyped, OneWriterAtATime, TimerLocking
    <2>3. Closes /\ fds'[timer_fd] = Free
      BY <2>1, <2>2, CloseCloses
    <2>4. ASSUME NEW f \in Fd, fds'[f].kind = "dev"
          PROVE  FALSE
      <3>1. fds'[f] = fds[f] /\ fds'[f] # Free
        BY <2>3, <2>4 DEF Closes, Free
      <3>2. fds[f].owner = Timer
        BY <2>2, <2>4, <3>1 DEF Control, OneWriterAtATime
      <3>3. f = timer_fd
        BY <2>4, <3>1, <3>2 DEF Control, StreamsHeld
      <3> QED
        BY <2>3, <3>1, <3>3
    <2>5. \A f \in Fd : fds'[f].kind = "sock" => fds'[f] = fds[f]
      BY <2>3 DEF Closes, Free
    <2>6. \A c \in Client : ~Locking(c)'
      BY <1>0, <2>1, <2>2 DEF Control, OneWriterAtATime, Locking, Streaming
    <2>7. ControlTyped' /\ ThreadsOnce'
      BY <2>1, <2>3 DEF Control, ControlTyped, ThreadsOnce, Working, TimerLocking, Closes
    <2>8. StreamsHeld' /\ OneWriterAtATime'
      BY <2>1, <2>4, <2>5, <2>6 DEF Control, StreamsHeld, OneWriterAtATime, TimerLocking
    <2> QED
      BY <2>7, <2>8 DEF Control
  <1> QED
    BY <1>1, <1>2, <1>3 DEF TimerThread
-----------------------------------------------------------------------------
(* The main thread. *)

(* Nothing happens to the file, the mutex or the threads at work. *)
LEMMA ControlElsewhere ==
    ASSUME Control, UNCHANGED <<file_mutex, timer, timer_fd>>,
           fds' \in [Fd -> Kinds],
           \A f \in Fd : fds'[f].kind = "dev" => fds'[f] = fds[f],
           \A f \in Fd : fds'[f].kind = "sock" => fds'[f].owner \in Client,
           pc' \in [Client -> Steps], file' \in [Client -> {0} \cup Fd],
           client_socket' \in [Client -> {0} \cup Fd], DOMAIN info' = Client,
           client' \in [Client -> {"new", "waiting", "open", "gone"}],
           \A c \in Client : \/ pc'[c] = pc[c] /\ file'[c] = file[c]
                             \/ pc[c] = "none" /\ pc'[c] = "recv",
           ThreadsOnce'
    PROVE  Control'
  <1>1. TimerLocking' <=> TimerLocking
    BY DEF TimerLocking
  <1>2. \A c \in Client : /\ Streaming(c)' <=> Streaming(c)
                          /\ Locking(c)' <=> Locking(c)
                          /\ Streaming(c) => file'[c] = file[c]
    BY DEF Streaming, Locking
  <1>3. ControlTyped'
    BY <1>1 DEF Control, ControlTyped
  <1>4. StreamsHeld'
    <2>1. ASSUME NEW f \in Fd
          PROVE  /\ fds'[f].kind = "dev" /\ fds'[f].owner = Timer => timer_fd' = f
                 /\ \A d \in Client : fds'[f].kind = "dev" /\ fds'[f].owner = d =>
                       Streaming(d)' /\ file'[d] = f
      BY <1>2 DEF Control, StreamsHeld
    <2>2. \A d \in Client : pc'[d] \in {"write", "ioctl", "fread", "closeread"} => file'[d] # 0
      BY DEF Control, StreamsHeld
    <2> QED
      BY <2>1, <2>2 DEF StreamsHeld
  <1>5. OneWriterAtATime'
    BY <1>1, <1>2 DEF Control, OneWriterAtATime
  <1> QED
    BY <1>3, <1>4, <1>5 DEF Control

LEMMA ControlMain ==
    ASSUME Control, Main, UNCHANGED <<timer, timer_fd>>
    PROVE  Control'
  <1>0. ControlTyped /\ ThreadsOnce /\ \A f \in Fd : fds[f].kind = "sock" => fds[f].owner \in Client
    BY DEF Control, StreamsHeld
  <1>1. CASE MainCreate
    <2>1. UNCHANGED <<fds, file_mutex, info, accepted, client>> /\ main = "create" /\ main' = "insert"
      BY <1>1, Zenon DEF MainCreate, network
    <2>2. /\ accepted \in Client /\ pc[accepted] = "none"
          /\ client[accepted] \in {"open", "gone"}
          /\ info[accepted].client_socket \in Fd
      BY <1>0, <2>1 DEF ThreadsOnce, ThreadInfo
    <2>3. \/ /\ Goto(accepted, "recv")
             /\ client_socket' = [client_socket EXCEPT ![accepted] = info[accepted].client_socket]
             /\ file' = [file EXCEPT ![accepted] = 0]
          \/ UNCHANGED <<pc, file, client_socket>>
      BY <1>1, Zenon DEF MainCreate, threads, locals
    <2>4. /\ pc' \in [Client -> Steps] /\ file' \in [Client -> {0} \cup Fd]
          /\ client_socket' \in [Client -> {0} \cup Fd]
          /\ \A c \in Client : \/ pc'[c] = pc[c] /\ file'[c] = file[c] /\ client_socket'[c] = client_socket[c]
                               \/ /\ c = accepted /\ pc[c] = "none" /\ pc'[c] = "recv"
                                  /\ client_socket'[c] \in Fd
      BY <1>0, <2>2, <2>3 DEF ControlTyped, Goto, Steps
    <2>5. ThreadsOnce'
      <3>1. 0 \notin Fd
        BY DEF Fd
      <3> QED
        BY <1>0, <2>1, <2>2, <2>4, <3>1 DEF ThreadsOnce, Working
    <2> QED
      BY <1>0, <2>1, <2>4, <2>5, ControlElsewhere DEF ControlTyped
  <1>2. CASE MainInsert
    <2>1. UNCHANGED <<fds, file_mutex, pc, file, client_socket, info, client>> /\ main' = "cleanup"
      BY <1>2, Zenon DEF MainInsert, threads, locals, network
    <2>2. ThreadsOnce'
      BY <1>0, <2>1 DEF ThreadsOnce, Working
    <2> QED
      BY <1>0, <2>1, <2>2, ControlElsewhere DEF ControlTyped
  <1>3. CASE CleanupThreads
    <2>1. UNCHANGED <<file_mutex, pc, file, client_socket, client>> /\ main' # "create"
      BY <1>3, Zenon DEF CleanupThreads, Reap, threads, locals, network
    <2>2. UNCHANGED fds \/ \E f, c : close(f, c)
      BY <1>3, Zenon DEF CleanupThreads, Reap
    <2>3. Closes
      BY <1>0, <2>2, CloseCloses DEF Closes, ControlTyped
    <2>4. \A f \in Fd : fds'[f].kind \in {"sock", "dev"} => fds'[f] = fds[f]
      BY <2>3 DEF Closes, Free
    <2>5. ThreadsOnce'
      BY <1>0, <2>1 DEF ThreadsOnce, Working
    <2>6. DOMAIN info' = DOMAIN info
      <3>1. info' = info \/ info' = [info EXCEPT ![Head(cursor)] = NULL]
        BY <1>3, Zenon DEF CleanupThreads, Reap
      <3> QED
        BY <3>1
    <2> QED
      BY <1>0, <2>1, <2>3, <2>4, <2>5, <2>6, ControlElsewhere DEF ControlTyped, Closes
  <1>4. CASE \E c \in Client : MainAccept(c)
    <2> DEFINE n == Min(FreeFds)
    <2>1. PICK c \in Client : MainAccept(c)
      BY <1>4
    <2>2. /\ UNCHANGED <<file_mutex, pc, file, client_socket>> /\ main' = "create" /\ accepted' = c
          /\ client[c] = "waiting" /\ client' = [client EXCEPT ![c] = "open"]
          /\ FreeFds # {} /\ fds' = Opened("sock", c)
          /\ info' = [info EXCEPT ![c] = [client_socket |-> n, complete |-> FALSE]]
      BY <2>1, Zenon DEF MainAccept, threads, locals
    <2>3. /\ fds' \in [Fd -> Kinds] /\ n \in Fd
          /\ fds'[n] = [kind |-> "sock", owner |-> c]
          /\ \A f \in Fd : f # n => fds'[f] = fds[f]
      BY <2>2, OpenOpens DEF Owner
    <2> HIDE DEF n
    <2>4. info'[c] \in ThreadInfo
      <3>1. [client_socket |-> n, complete |-> FALSE] \in ThreadInfo
        BY <2>3 DEF ThreadInfo
      <3>2. c \in DOMAIN info
        BY <1>0 DEF ControlTyped
      <3> QED
        BY <2>2, <3>1, <3>2
    <2>5. ThreadsOnce'
      BY <1>0, <2>2, <2>4 DEF ControlTyped, ThreadsOnce, Working
    <2>6. \A f \in Fd : /\ fds'[f].kind = "dev" => fds'[f] = fds[f]
                        /\ fds'[f].kind = "sock" => fds'[f].owner \in Client
      BY <1>0, <2>3
    <2> QED
      BY <1>0, <2>2, <2>3, <2>5, <2>6, ControlElsewhere DEF ControlTyped
  <1> QED
    BY <1>1, <1>2, <1>3, <1>4 DEF Main

(* The process ends: no thread, stream or mutex is left. *)
LEMMA ControlEnded ==
    ASSUME Control, Ended, timer' = "none", timer_fd' = 0
    PROVE  Control'
  <1>1. ControlTyped'
    BY DEF Control, ControlTyped, Ended, Kinds, Steps, TimerLocking
  <1>2. StreamsHeld' /\ ThreadsOnce'
    BY DEF Ended, StreamsHeld, ThreadsOnce, Working, Free
  <1>3. OneWriterAtATime'
    BY DEF Ended, OneWriterAtATime, TimerLocking, Locking, Streaming, Free
  <1> QED
    BY <1>1, <1>2, <1>3 DEF Control

(* The process starts, a signal arrives, or something happens in the       *)
(* network.                                                                *)
LEMMA ControlEvent ==
    ASSUME Control,
           UNCHANGED <<fds, file_mutex, pc, file, client_socket, info, timer_fd>>,
           \/ UNCHANGED timer
           \/ timer = "none" /\ timer' = "lock",
           \/ UNCHANGED <<main, accepted>> \/ main' \in {"remove", "exit"},
           \A c \in Client : \/ client'[c] = client[c]
                             \/ client[c] = "new" /\ client'[c] = "waiting"
                             \/ client'[c] = "gone",
           DOMAIN client' = Client /\ client' = [c \in Client |-> client'[c]]
    PROVE  Control'
  <1>1. client' \in [Client -> {"new", "waiting", "open", "gone"}]
    BY DEF Control, ControlTyped
  <1>2. TimerLocking' <=> TimerLocking
    BY DEF TimerLocking
  <1>3. ControlTyped'
    BY <1>1, <1>2 DEF Control, ControlTyped
  <1>4. ThreadsOnce'
    BY DEF Control, ThreadsOnce, Working
  <1>5. \A c \in Client : (Streaming(c)' <=> Streaming(c)) /\ (Locking(c)' <=> Locking(c))
    BY DEF Streaming, Locking
  <1>6. StreamsHeld' /\ OneWriterAtATime'
    BY <1>2, <1>5 DEF Control, StreamsHeld, OneWriterAtATime
  <1> QED
    BY <1>3, <1>4, <1>6 DEF Control
-----------------------------------------------------------------------------
(* Texts. *)
LEMMA StreamText == Stamp \in Text /\ Stream \in [Client -> Text]
  <1>1. ToSet(Stamp) \subseteq Byte /\ UNION {ToSet(Stream[c]) : c \in Client} \subseteq Byte
    BY DEF Byte
  <1> DEFINE B == UNION {ToSet(Stream[c]) : c \in Client}
  <1>2. Stream \in [Client -> Seq(B)]
    BY StreamAssumption
  <1> HIDE DEF B
  <1>3. Seq(B) \subseteq Text /\ Seq(ToSet(Stamp)) \subseteq Text
    BY <1>1 DEF B, Text
  <1> QED
    BY <1>2, <1>3, StampAssumption

LEMMA PieceText ==
    ASSUME NEW s \in Text, NEW m \in Nat \ {0}, NEW n \in 0..Len(s)
    PROVE  SubSeq(s, m, n) \in Text
  <1>1. \A i \in m..n : s[i] \in Byte
    BY DEF Text
  <1> QED
    BY <1>1, SubSeqProperties DEF Text

LEMMA DividedText ==
    ASSUME NEW s \in Text, NEW k \in Pieces(s)
    PROVE  /\ k \in 0..Len(s) /\ (s # <<>> => k # 0)
           /\ Len(s) <= BUFSIZ => k = Len(s)
           /\ Piece(s, k) \in Text /\ Rest(s, k) \in Text
           /\ k = Len(s) => Piece(s, k) = s /\ Rest(s, k) = <<>>
           /\ s = Piece(s, k) \o Rest(s, k)
  <1>1. s \in Seq(Byte) /\ Len(s) \in Nat
    BY DEF Text
  <1>2. k \in 0..Len(s) /\ (s # <<>> => k # 0) /\ (Len(s) <= BUFSIZ => k = Len(s))
    BY <1>1 DEF Pieces
  <1>3. Piece(s, k) \in Text /\ Rest(s, k) \in Text
    <2>1. SubSeq(s, 1, k) \in Text
      BY <1>2, PieceText
    <2>2. SubSeq(s, k + 1, Len(s)) \in Text
      BY <1>1, <1>2, PieceText
    <2> QED
      BY <2>1, <2>2 DEF Piece, Rest
  <1>4. k = Len(s) => Piece(s, k) = s /\ Rest(s, k) = <<>>
    BY <1>1 DEF Piece, Rest
  <1>5. s = Piece(s, k) \o Rest(s, k)
    <2> DEFINE n == Len(s)
    <2>1. n \in 0..Len(s) /\ k \in 0..n /\ s = SubSeq(s, 1, n)
      BY <1>1, <1>2
    <2> HIDE DEF n
    <2>2. SubSeq(s, 1, n) = SubSeq(s, 1, k) \o SubSeq(s, k + 1, n)
      BY <1>1, <2>1, PiecesJoin
    <2> QED
      BY <2>1, <2>2, Zenon DEF Piece, Rest, n
  <1> QED
    BY <1>2, <1>3, <1>4, <1>5

LEMMA ExtractText ==
    ASSUME NEW buf \in Text
    PROVE  extract_data_up_to_newline(buf) \in Text /\ new_line_found(buf) \in BOOLEAN
  <1>1. CASE new_line_found(buf)
    <2>1. NewlineAt(buf) \in SUBSET Nat /\ NewlineAt(buf) # {}
      BY <1>1 DEF new_line_found, NewlineAt, Text
    <2>2. Min(NewlineAt(buf)) \in 0..Len(buf)
      <3>1. Min(NewlineAt(buf)) \in NewlineAt(buf)
        BY <2>1, MinValue
      <3> QED
        BY <3>1 DEF NewlineAt, Text
    <2> QED
      BY <1>1, <2>2, PieceText DEF extract_data_up_to_newline, new_line_found
  <1>2. CASE ~new_line_found(buf)
    BY <1>2 DEF extract_data_up_to_newline, new_line_found
  <1> QED
    BY <1>1, <1>2

LEMMA PrefixText ==
    ASSUME NEW s \in Text, NEW t \in Text
    PROVE  IsPrefix(s, s) /\ IsPrefix(s, s \o t) /\ s \o t \in Text
  <1>1. /\ s \o t \in Text /\ Len(s \o t) = Len(s) + Len(t)
        /\ \A i \in 1..Len(s) : (s \o t)[i] = s[i]
    BY ConcatProperties DEF Text
  <1>2. Len(s) \in Nat /\ Len(t) \in Nat
    BY DEF Text
  <1>3. \A i \in 1..Len(s) : s[i] \in Byte
    BY DEF Text
  <1>4. /\ SubSeq(s, 1, Len(s)) \in Text /\ Len(SubSeq(s, 1, Len(s))) = Len(s)
        /\ \A i \in 1..Len(s) : SubSeq(s, 1, Len(s))[i] = s[i]
    BY <1>2, <1>3, SubSeqProperties DEF Text
  <1> DEFINE u == s \o t
  <1>5. \A i \in 1..Len(s) : u[i] \in Byte
    BY <1>1, <1>3
  <1> HIDE DEF u
  <1>6. /\ SubSeq(u, 1, Len(s)) \in Text /\ Len(SubSeq(u, 1, Len(s))) = Len(s)
        /\ \A i \in 1..Len(s) : SubSeq(u, 1, Len(s))[i] = u[i]
    BY <1>2, <1>5, SubSeqProperties DEF Text
  <1>7. SubSeq(s, 1, Len(s)) = SubSeq(u, 1, Len(s))
    BY <1>1, <1>2, <1>4, <1>6, SeqEqual DEF Text, u
  <1> QED
    BY <1>1, <1>2, <1>7 DEF IsPrefix, u

(* No file loses what it held. *)
Grown(fs) ==
    /\ fs \in Seq(Text) /\ Len(files) <= Len(fs)
    /\ \A k \in 1..Len(files) : IsPrefix(files[k], fs[k])

LEMMA GrownSame ==
    ASSUME files \in Seq(Text)
    PROVE  Grown(files)
  <1>1. \A k \in 1..Len(files) : files[k] \in Text
    OBVIOUS
  <1> QED
    BY <1>1, PrefixText DEF Grown

LEMMA GrownOpen ==
    ASSUME files \in Seq(Text), path \in 0..Len(files), OpenAppend
    PROVE  Grown(files') /\ path' \in 1..Len(files') /\ (path # 0 => path' = path)
  <1>1. CASE path = 0
    <2>1. <<>> \in Text
      BY DEF Text
    <2>0. files' = Append(files, <<>>)
      BY <1>1 DEF OpenAppend
    <2>2. /\ files' \in Seq(Text) /\ Len(files') = Len(files) + 1
          /\ \A k \in 1..Len(files) : files'[k] = files[k]
      <3> HIDE DEF Text
      <3> QED
        BY <2>0, <2>1, AppendProperties
    <2>3. \A k \in 1..Len(files) : IsPrefix(files[k], files'[k])
      BY <2>2, PrefixText, SMTT(30)
    <2>4. path' = Len(files) + 1
      BY <1>1 DEF OpenAppend
    <2> QED
      BY <1>1, <2>2, <2>3, <2>4 DEF Grown
  <1>2. CASE path # 0
    BY <1>2, GrownSame DEF OpenAppend
  <1> QED
    BY <1>1, <1>2

LEMMA GrownAppended ==
    ASSUME files \in Seq(Text), NEW i \in 1..Len(files), NEW s \in Text
    PROVE  Grown(Appended(i, s)) /\ Len(Appended(i, s)) = Len(files)
  <1> DEFINE fs == Appended(i, s)
  <1>1. files[i] \o s \in Text
    BY PrefixText
  <1>2. /\ fs \in Seq(Text) /\ Len(fs) = Len(files) /\ fs[i] = files[i] \o s
        /\ \A k \in 1..Len(files) : k # i => fs[k] = files[k]
    BY <1>1 DEF Appended
  <1> HIDE DEF fs
  <1>3. ASSUME NEW k \in 1..Len(files)
        PROVE  IsPrefix(files[k], fs[k])
    <2>1. files[k] \in Text
      OBVIOUS
    <2>2. CASE k = i
      BY <1>2, <2>1, <2>2, PrefixText
    <2>3. CASE k # i
      BY <1>2, <2>1, <2>3, PrefixText
    <2> QED
      BY <2>2, <2>3
  <1>4. Grown(fs) /\ Len(fs) = Len(files)
    BY <1>2, <1>3 DEF Grown
  <1> QED
    BY <1>4 DEF fs

(* What a step does to the file under its name, when it does not remove it. *)
Keeps == path # 0 => path' # 0 /\ IsPrefix(files[path], files'[path'])

LEMMA GrownKeeps ==
    ASSUME Data, Grown(files'), path # 0 => path' = path
    PROVE  Keeps
  BY DEF Data, Grown, Keeps
-----------------------------------------------------------------------------
(* A step of the thread of c, or of no thread when c's locals stay. *)
LEMMA DataThread ==
    ASSUME Data, NEW c \in Client,
           \A d \in Client : d # c => pc'[d] = pc[d] /\ self'[d] = self[d],
           DOMAIN self' = Client, LocalsTyped(c)', sent' \in [Client -> Text],
           Grown(files'), path' \in 0..Len(files'), path # 0 => path' = path,
           inode' \in [Owner -> 0..Len(files')],
           \A f \in Fd : fds'[f].kind = "dev" => inode'[fds'[f].owner] # 0
    PROVE  Data' /\ Keeps
  <1>1. \A d \in Client : LocalsTyped(d)'
    <2>1. ASSUME NEW d \in Client, d # c
          PROVE  LocalsTyped(d)'
      BY <2>1 DEF Data, LocalsTyped, Working
    <2> QED
      BY <2>1
  <1> QED
    BY <1>1, GrownKeeps DEF Data, Grown

(* ... that does not touch the files. *)
LEMMA DataLocal ==
    ASSUME Data, NEW c \in Client,
           \A d \in Client : d # c => pc'[d] = pc[d] /\ self'[d] = self[d],
           DOMAIN self' = Client, LocalsTyped(c)', sent' \in [Client -> Text],
           UNCHANGED <<files, path, inode>>,
           \A f \in Fd : fds'[f].kind = "dev" => fds'[f] = fds[f]
    PROVE  Data' /\ Keeps
  <1>1. Grown(files')
    BY GrownSame DEF Data
  <1> QED
    BY <1>1, DataThread DEF Data

LEMMA ClosesKeeps ==
    ASSUME Closes
    PROVE  \A f \in Fd : fds'[f].kind = "dev" => fds'[f] = fds[f]
  BY DEF Closes, Free

LEMMA DataCommon ==
    ASSUME Control, Data, NEW c \in Client, UNCHANGED fileVars,
           \/ Recv(c) \/ Received(c) \/ EndOfStream(c) \/ Unlock(c)
           \/ CloseRead(c) \/ Close(c) \/ Flag(c)
    PROVE  Data' /\ Keeps
  <1> DEFINE r == self[c]
  <1>0. /\ UNCHANGED <<files, path, inode>>
        /\ pc \in [Client -> Steps] /\ DOMAIN self = Client /\ sent \in [Client -> Text]
        /\ fds' = fds => Closes
    BY DEF fileVars, Control, ControlTyped, Data, Closes
  <1>types. /\ Working(c) => r \in Locals(r.args)
        /\ <<>> \in Text
    BY DEF Data, LocalsTyped, Text
  <1>1. CASE Recv(c)
    <2>1. pc[c] = "recv" /\ UNCHANGED <<fds, sent>>
      BY <1>1, Zenon DEF Recv, network
    <2>2. CASE Socket(c).kind = "sock"
      <3>1. pc' = [pc EXCEPT ![c] = "receiving"] /\ self' = [self EXCEPT ![c].conn = Socket(c).owner]
        BY <1>1, <2>2, Zenon DEF Recv, Goto
      <3>2. Socket(c).owner \in Client
        BY <2>1, <2>2 DEF Control, ControlTyped, ThreadsOnce, StreamsHeld, Socket, Working
      <3>3. r \in Locals(r.args)
        BY <1>types, <2>1 DEF Working
      <3>4. self'[c] \in Locals(self'[c].args) /\ self'[c].conn \in Client
        BY <1>0, <3>1, <3>2, <3>3 DEF Locals
      <3>5. LocalsTyped(c)'
        BY <3>4 DEF LocalsTyped
      <3> QED
        BY <1>0, <2>1, <3>1, <3>5, DataLocal
    <2>3. CASE Socket(c).kind # "sock"
      <3>1. pc' = [pc EXCEPT ![c] = "lockread"] /\ self' = self
        BY <1>1, <2>3, Zenon DEF Recv, Goto
      <3>2. LocalsTyped(c)'
        BY <1>0, <1>types, <2>1, <3>1 DEF LocalsTyped, Working
      <3> QED
        BY <1>0, <2>1, <3>1, <3>2, DataLocal
    <2> QED
      BY <2>2, <2>3
  <1>2. CASE Received(c)
    <2> DEFINE o == self[c].conn
    <2>1. /\ pc[c] = "receiving" /\ pc' = [pc EXCEPT ![c] = "lock"] /\ sent[o] # <<>>
          /\ UNCHANGED fds
      BY <1>2, Zenon DEF Received, Goto
    <2>2. PICK k \in IF o \in Split THEN 1..Available(o) ELSE {Available(o)} :
              /\ sent' = [sent EXCEPT ![o] = SubSeq(@, k + 1, Len(@))]
              /\ self' = [self EXCEPT ![c].newString = extract_data_up_to_newline(SubSeq(sent[o], 1, k)),
                                      ![c].newline = new_line_found(SubSeq(sent[o], 1, k))]
      BY <1>2, Zenon DEF Received
    <2>3. o \in Client /\ r \in Locals(r.args)
      BY <1>types, <2>1 DEF Data, LocalsTyped, Working
    <2> HIDE DEF o
    <2>4. sent[o] \in Text /\ Len(sent[o]) \in Nat \ {0}
      BY <1>0, <2>1, <2>3 DEF Text
    <2>5. Available(o) \in 1..Len(sent[o])
      <3>1. {Len(sent[o]), BUFFER_SIZE} \in SUBSET Nat
        BY <2>4
      <3>2. Min({Len(sent[o]), BUFFER_SIZE}) \in {Len(sent[o]), BUFFER_SIZE}
            /\ Min({Len(sent[o]), BUFFER_SIZE}) <= Len(sent[o])
        BY <3>1, MinValue
      <3> QED
        BY <2>4, <3>2 DEF Available
    <2>6. k \in 1..Len(sent[o])
      BY <2>2, <2>4, <2>5
    <2> DEFINE buf == SubSeq(sent[o], 1, k)
               x == extract_data_up_to_newline(buf)
               n == new_line_found(buf)
    <2>7. x \in Text /\ n \in BOOLEAN
      <3>1. buf \in Text
        BY <2>4, <2>6, PieceText
      <3> QED
        BY <3>1, ExtractText
    <2>8. sent' \in [Client -> Text]
      <3>1. SubSeq(sent[o], k + 1, Len(sent[o])) \in Text
        BY <2>4, <2>6, PieceText
      <3> QED
        BY <1>0, <2>2, <2>3, <3>1
    <2>9. /\ self' = [self EXCEPT ![c].newString = x, ![c].newline = n]
      BY <2>2
    <2> HIDE DEF x, n
    <2>10. self'[c] = [r EXCEPT !.newString = x, !.newline = n]
      BY <1>0, <2>9
    <2> HIDE DEF r
    <2>11. self'[c] \in Locals(self'[c].args)
      BY <2>3, <2>7, <2>10 DEF Locals
    <2>12. LocalsTyped(c)'
      BY <1>0, <2>1, <2>11 DEF LocalsTyped
    <2>13. DOMAIN self' = Client /\ \A d \in Client : d # c => pc'[d] = pc[d] /\ self'[d] = self[d]
      BY <1>0, <2>1, <2>9
    <2> QED
      BY <1>0, <2>1, <2>8, <2>12, <2>13, DataLocal
  <1>3. CASE EndOfStream(c)
    <2>1. pc[c] = "receiving" /\ pc' = [pc EXCEPT ![c] = "lockread"] /\ UNCHANGED <<fds, sent, self>>
      BY <1>3, Zenon DEF EndOfStream, Goto, locals, network
    <2>2. LocalsTyped(c)'
      BY <1>0, <1>types, <2>1 DEF LocalsTyped, Working
    <2> QED
      BY <1>0, <2>1, <2>2, DataLocal
  <1>4. CASE Unlock(c)
    <2>1. /\ pc[c] = "unlock" /\ pc' = [pc EXCEPT ![c] = AfterPacket(c)] /\ UNCHANGED sent
          /\ self' = [self EXCEPT ![c].newString = <<>>]
          /\ IF file[c] # 0 THEN close(file[c], c) ELSE UNCHANGED <<fds, robbed>>
      BY <1>4, Zenon DEF Unlock, Goto, network
    <2>2. AfterPacket(c) # "receiving"
      BY DEF AfterPacket
    <2>3. self'[c] \in Locals(self'[c].args)
      BY <1>0, <1>types, <2>1 DEF Locals, Working
    <2>4. LocalsTyped(c)'
      BY <1>0, <2>1, <2>2, <2>3 DEF LocalsTyped
    <2>5. Closes
      BY <1>0, <2>1, CloseCloses
    <2> QED
      BY <1>0, <2>1, <2>4, <2>5, ClosesKeeps, DataLocal
  <1>5. CASE CloseRead(c)
    <2>1. /\ pc[c] = "closeread" /\ pc' = [pc EXCEPT ![c] = "send"]
          /\ UNCHANGED <<sent, self>> /\ close(file[c], c)
      BY <1>5, Zenon DEF CloseRead, Goto, network
    <2>2. LocalsTyped(c)'
      BY <1>0, <1>types, <2>1 DEF LocalsTyped, Working
    <2>3. Closes
      BY <2>1, CloseCloses
    <2> QED
      BY <1>0, <2>1, <2>2, <2>3, ClosesKeeps, DataLocal
  <1>6. CASE Close(c)
    <2>1. /\ pc[c] = "close" /\ pc' = [pc EXCEPT ![c] = "flag"] /\ UNCHANGED sent
          /\ self' = [self EXCEPT ![c].contents = <<>>] /\ close(client_socket[c], c)
      BY <1>6, Zenon DEF Close, Goto, network
    <2>2. self'[c] \in Locals(self'[c].args)
      BY <1>0, <1>types, <2>1 DEF Locals, Working
    <2>3. LocalsTyped(c)'
      BY <1>0, <2>1, <2>2 DEF LocalsTyped
    <2>4. Closes
      BY <2>1, CloseCloses
    <2> QED
      BY <1>0, <2>1, <2>3, <2>4, ClosesKeeps, DataLocal
  <1>7. CASE Flag(c)
    <2>1. /\ pc' = [pc EXCEPT ![c] = "exit"] /\ self' = [self EXCEPT ![c] = NULL]
          /\ UNCHANGED <<fds, sent>>
      BY <1>7, Zenon DEF Flag, Goto, network
    <2>2. LocalsTyped(c)'
      BY <1>0, <2>1 DEF LocalsTyped, Working
    <2> QED
      BY <1>0, <2>1, <2>2, DataLocal
  <1> QED
    BY <1>1, <1>2, <1>3, <1>4, <1>5, <1>6, <1>7

(* The file behind a descriptor is one of the files. *)
LEMMA FileBehind ==
    ASSUME Control, Data, NEW f \in Fd, fds[f].kind = "dev"
    PROVE  inode[fds[f].owner] \in 1..Len(files) /\ files[inode[fds[f].owner]] \in Text
  <1>1. fds[f].owner \in Owner
    BY DEF Control, ControlTyped, Kinds, Free
  <1>2. inode[fds[f].owner] \in 0..Len(files) /\ inode[fds[f].owner] # 0
    BY <1>1 DEF Data
  <1>3. Len(files) \in Nat /\ files \in Seq(Text)
    BY DEF Data
  <1>4. inode[fds[f].owner] \in 1..Len(files)
    BY <1>2, <1>3
  <1> QED
    BY <1>3, <1>4

LEMMA DataFile ==
    ASSUME Control, Control', Data, NEW c \in Client,
           \/ FileLockAppend(c) \/ FileWrite(c) \/ FileLockRead(c) \/ FileFread(c)
           \/ ReadFileFails(c) \/ FileSend(c)
    PROVE  Data' /\ Keeps
  <1> DEFINE r == self[c]
  <1>0. /\ pc \in [Client -> Steps] /\ DOMAIN self = Client /\ sent \in [Client -> Text]
        /\ files \in Seq(Text) /\ Len(files) \in Nat /\ path \in 0..Len(files)
        /\ inode \in [Owner -> 0..Len(files)]
        /\ c \in Owner /\ c # Timer
    BY DEF Control, ControlTyped, Data, Owner
  <1>types. /\ Working(c) => r \in Locals(r.args)
            /\ <<>> \in Text
            /\ \A f \in Fd : fds[f].kind = "dev" => inode[fds[f].owner] # 0
    BY DEF Data, LocalsTyped, Text
  <1>1. CASE FileLockAppend(c)
    <2> DEFINE found == CommandFound(c)
               a == AppendArgs(c)
               u == AppendUncut(c)
    <2>1. /\ pc[c] = "lock" /\ pc' = [pc EXCEPT ![c] = IF found THEN "unlock" ELSE "write"]
          /\ self' = [self EXCEPT ![c].found_ioctl_cmd = found, ![c].args = a, ![c].uncut = u]
          /\ UNCHANGED sent
      <3>1. LockAppend(c)
        BY <1>1, Zenon DEF FileLockAppend
      <3>2. self' = [self EXCEPT ![c].found_ioctl_cmd = found, ![c].args = a, ![c].uncut = u]
        BY <3>1, AppendLocals, Zenon
      <3> QED
        BY <3>1, <3>2, Zenon DEF LockAppend, Goto, network
    <2>2. r \in Locals(r.args)
      BY <1>types, <2>1 DEF Working
    <2>3. found \in BOOLEAN /\ u \in BOOLEAN
      BY <2>2 DEF Locals, CommandFound, AppendUncut
    <2>4. /\ DOMAIN self' = Client
          /\ self'[c] = [r EXCEPT !.found_ioctl_cmd = found, !.args = a, !.uncut = u]
          /\ \A d \in Client : d # c => pc'[d] = pc[d] /\ self'[d] = self[d]
          /\ pc'[c] \in {"unlock", "write"}
      <3> HIDE DEF found, a, u
      <3> QED
        BY <1>0, <2>1
    <2>5. self'[c] \in Locals(self'[c].args)
      <3> HIDE DEF found, a, u, r
      <3> QED
        BY <2>2, <2>3, <2>4 DEF Locals
    <2>6. LocalsTyped(c)'
      BY <2>4, <2>5 DEF LocalsTyped
    <2>7. file_mutex = NoClient /\ file_mutex' = c
      BY <1>1, Zenon DEF FileLockAppend, LockAppend, Acquire
    <2>8. \A f \in Fd : fds'[f].kind = "dev" => fds'[f].owner = c
      BY <2>7 DEF Control, OneWriterAtATime
    <2>9. CASE found
      <3>1. UNCHANGED <<fds, files, path, inode>>
        BY <1>1, <2>9, Zenon DEF FileLockAppend, LockAppend
      <3> HIDE DEF found, a, u
      <3> QED
        BY <2>1, <2>4, <2>6, <3>1, <1>0, DataLocal
    <2>10. CASE ~found
      <3>1. OpenAppend /\ inode' = [inode EXCEPT ![c] = path']
        BY <1>1, <2>10, Zenon DEF FileLockAppend
      <3>2. Grown(files') /\ path' \in 1..Len(files') /\ (path # 0 => path' = path)
        BY <1>0, <3>1, GrownOpen
      <3>3. Len(files) <= Len(files') /\ Len(files') \in Nat
        BY <3>2 DEF Grown
      <3>4. inode' \in [Owner -> 0..Len(files')] /\ inode'[c] # 0
        BY <1>0, <3>1, <3>2, <3>3
      <3>5. path' \in 0..Len(files')
        BY <3>2, <3>3
      <3> HIDE DEF found, a, u
      <3> QED
        BY <1>0, <2>1, <2>4, <2>6, <2>8, <3>2, <3>4, <3>5, DataThread
    <2> QED
      BY <2>9, <2>10
  <1>2. CASE FileWrite(c)
    <2> DEFINE d == fds[file[c]]
               s == r.newString
    <2>1. pc[c] = "write" /\ UNCHANGED <<fds, sent, path, inode>>
      BY <1>2, Zenon DEF FileWrite
    <2>2. PICK x \in {"write", "unlock"} : Goto(c, x)
      BY <1>2, FileWriteGoto
    <2>3. file[c] \in Fd
      BY <2>1 DEF Control, ControlTyped, StreamsHeld
    <2>4. r \in Locals(r.args) /\ s \in Text
      BY <1>types, <2>1 DEF Working, Locals
    <2>5. \/ /\ d.kind = "dev"
             /\ \E k \in Pieces(s) : /\ files' = Appended(inode[d.owner], Piece(s, k))
                                     /\ self' = [self EXCEPT ![c].newString = Rest(s, k)]
          \/ /\ files' = files
             /\ self' = [self EXCEPT ![c].newString = <<>>, ![c].failed = TRUE]
      BY <1>2, Zenon DEF FileWrite
    <2> HIDE DEF r, s, d
    <2>6. Grown(files') /\ Len(files') = Len(files)
      <3>1. ASSUME d.kind = "dev", NEW k \in Pieces(s), files' = Appended(inode[d.owner], Piece(s, k))
            PROVE  Grown(files') /\ Len(files') = Len(files)
        BY <1>0, <2>3, <2>4, <3>1, DividedText, FileBehind, GrownAppended DEF d
      <3> QED
        BY <1>0, <2>5, <3>1, GrownSame
    <2>7. self'[c] \in Locals(self'[c].args) /\ \A e \in Client : e # c => self'[e] = self[e]
      <3>1. ASSUME NEW k \in Pieces(s), self' = [self EXCEPT ![c].newString = Rest(s, k)]
            PROVE  self'[c] \in Locals(self'[c].args)
        <4>1. Rest(s, k) \in Text
          BY <2>4, DividedText
        <4> QED
          BY <1>0, <2>4, <3>1, <4>1 DEF Locals, r
      <3>2. ASSUME self' = [self EXCEPT ![c].newString = <<>>, ![c].failed = TRUE]
            PROVE  self'[c] \in Locals(self'[c].args)
        BY <1>0, <1>types, <2>4, <3>2 DEF Locals, r
      <3> QED
        BY <1>0, <2>5, <3>1, <3>2
    <2>8. /\ DOMAIN self' = Client /\ pc'[c] = x
          /\ \A e \in Client : e # c => pc'[e] = pc[e]
      BY <1>0, <2>2, <2>5 DEF Goto
    <2>9. LocalsTyped(c)'
      BY <2>7, <2>8 DEF LocalsTyped
    <2> QED
      BY <1>0, <1>types, <2>1, <2>6, <2>7, <2>8, <2>9, DataThread
  <1>3. CASE FileLockRead(c)
    <2>1. /\ pc[c] = "lockread" /\ pc' = [pc EXCEPT ![c] = "fread"]
          /\ UNCHANGED <<self, sent, files, path>> /\ path # 0
          /\ inode' = [inode EXCEPT ![c] = path]
          /\ file_mutex' = c
      BY <1>3, Zenon DEF FileLockRead, Goto, Acquire, network
    <2>2. \A f \in Fd : fds'[f].kind = "dev" => fds'[f].owner = c
      BY <2>1 DEF Control, OneWriterAtATime
    <2>3. inode' \in [Owner -> 0..Len(files')] /\ inode'[c] # 0
      BY <1>0, <2>1
    <2>4. LocalsTyped(c)'
      BY <1>0, <1>types, <2>1 DEF LocalsTyped, Working
    <2>5. Grown(files')
      BY <1>0, <2>1, GrownSame
    <2> QED
      BY <1>0, <2>1, <2>2, <2>3, <2>4, <2>5, DataThread
  <1>4. CASE FileFread(c)
    <2> DEFINE t == files[inode[fds[file[c]].owner]]
    <2>1. /\ pc[c] = "fread" /\ pc' = [pc EXCEPT ![c] = "closeread"]
          /\ UNCHANGED <<fds, sent, files, path, inode>> /\ fds[file[c]].kind = "dev"
          /\ self' = [self EXCEPT ![c].contents = t]
      BY <1>4, Zenon DEF FileFread, Goto, ReadWhole, network, fileVars
    <2>2. file[c] \in Fd
      BY <2>1 DEF Control, ControlTyped, StreamsHeld
    <2>3. t \in Text
      BY <2>1, <2>2, FileBehind
    <2> HIDE DEF t
    <2>4. self'[c] \in Locals(self'[c].args)
      BY <1>0, <1>types, <2>1, <2>3 DEF Locals, Working
    <2>5. LocalsTyped(c)'
      BY <1>0, <2>1, <2>4 DEF LocalsTyped
    <2> QED
      BY <1>0, <2>1, <2>5, DataLocal
  <1>5. CASE ReadFileFails(c)
    <2> DEFINE d == fds[file[c]]
    <2>1. /\ pc[c] = "fread" /\ pc' = [pc EXCEPT ![c] = "send"]
          /\ UNCHANGED <<files, path, inode>> /\ close(file[c], c)
      BY <1>5, Zenon DEF ReadFileFails, Goto, fileVars
    <2>2. sent' = sent \/ sent' = [sent EXCEPT ![d.owner] = <<>>]
      BY <1>5, Zenon DEF ReadFileFails
    <2>3. PICK t \in {<<>>, NULL, NoSize} : self' = [self EXCEPT ![c].contents = t]
      <3> DEFINE t == IF d.kind = "dev" /\ files[inode[d.owner]] = <<>> THEN <<>>
                      ELSE IF d.kind = "dev" THEN NULL ELSE NoSize
      <3>1. self' = [self EXCEPT ![c].contents = t]
        BY <1>5, Zenon DEF ReadFileFails
      <3>2. t \in {<<>>, NULL, NoSize}
        OBVIOUS
      <3> HIDE DEF t
      <3> QED
        BY <3>1, <3>2
    <2>4. sent' \in [Client -> Text]
      BY <1>0, <1>types, <2>2
    <2>5. self'[c] \in Locals(self'[c].args)
      BY <1>0, <1>types, <2>1, <2>3 DEF Locals, Working
    <2>6. LocalsTyped(c)'
      BY <1>0, <2>1, <2>5 DEF LocalsTyped
    <2>7. Closes
      BY <2>1, CloseCloses
    <2> QED
      BY <1>0, <2>1, <2>3, <2>4, <2>6, <2>7, ClosesKeeps, DataLocal
  <1>6. CASE FileSend(c)
    <2>1. /\ pc[c] = "send" /\ pc' = [pc EXCEPT ![c] = "close"]
          /\ UNCHANGED <<self, sent, files, path, inode>>
      BY <1>6, Zenon DEF FileSend, Goto, locals, fileVars
    <2>2. close(client_socket[c], c) \/ UNCHANGED fds
      BY <1>6, Zenon DEF FileSend
    <2>3. \A f \in Fd : fds'[f].kind = "dev" => fds'[f] = fds[f]
      BY <2>2, CloseCloses, ClosesKeeps
    <2>4. LocalsTyped(c)'
      BY <1>0, <1>types, <2>1 DEF LocalsTyped, Working
    <2> QED
      BY <1>0, <2>1, <2>3, <2>4, DataLocal
  <1> QED
    BY <1>1, <1>2, <1>3, <1>4, <1>5, <1>6

(* A step of the timer thread, of the main thread or of the environment    *)
(* that leaves the threads of the clients where they are.                  *)
LEMMA DataQuiet ==
    ASSUME Data, UNCHANGED <<pc, self>>, sent' \in [Client -> Text],
           Grown(files'), path' \in 0..Len(files'), path # 0 => path' = path,
           inode' \in [Owner -> 0..Len(files')],
           \A f \in Fd : fds'[f].kind = "dev" => inode'[fds'[f].owner] # 0
    PROVE  Data' /\ Keeps
  <1>1. \A d \in Client : LocalsTyped(d)'
    BY DEF Data, LocalsTyped, Working
  <1> QED
    BY <1>1, GrownKeeps DEF Data, Grown

LEMMA DataTimer ==
    ASSUME Control, Control', Data, TimerThread
    PROVE  Data' /\ Keeps
  <1>0. /\ sent \in [Client -> Text] /\ files \in Seq(Text) /\ Len(files) \in Nat
        /\ path \in 0..Len(files) /\ inode \in [Owner -> 0..Len(files)]
        /\ Timer \in Owner
        /\ \A f \in Fd : fds[f].kind = "dev" => inode[fds[f].owner] # 0
    BY DEF Data, Owner
  <1>1. CASE TimerLock
    <2>1. /\ UNCHANGED <<pc, self, sent>> /\ OpenAppend /\ inode' = [inode EXCEPT ![Timer] = path']
          /\ file_mutex' = Timer
      BY <1>1, Zenon DEF TimerLock, Acquire, threads, locals, network
    <2>2. \A f \in Fd : fds'[f].kind = "dev" => fds'[f].owner = Timer
      BY <2>1 DEF Control, OneWriterAtATime
    <2>3. Grown(files') /\ path' \in 1..Len(files') /\ (path # 0 => path' = path)
      BY <1>0, <2>1, GrownOpen
    <2>4. Len(files) <= Len(files') /\ Len(files') \in Nat
      BY <2>3 DEF Grown
    <2>5. inode' \in [Owner -> 0..Len(files')] /\ inode'[Timer] # 0 /\ path' \in 0..Len(files')
      BY <1>0, <2>1, <2>3, <2>4
    <2> QED
      BY <1>0, <2>1, <2>2, <2>3, <2>5, DataQuiet
  <1>2. CASE TimerWrite
    <2> DEFINE d == fds[timer_fd]
    <2>1. UNCHANGED <<pc, self, sent, fds, path, inode>> /\ timer = "write"
      BY <1>2, Zenon DEF TimerWrite, threads, locals
    <2>2. \/ files' = files
          \/ d.kind = "dev" /\ files' = Appended(inode[d.owner], Stamp)
      BY <1>2, Zenon DEF TimerWrite
    <2>3. timer_fd \in Fd
      BY <2>1 DEF Control, ControlTyped, TimerLocking
    <2>4. Grown(files') /\ Len(files') = Len(files)
      BY <1>0, <2>2, <2>3, StreamText, FileBehind, GrownSame, GrownAppended
    <2> QED
      BY <1>0, <2>1, <2>4, DataQuiet
  <1>3. CASE TimerUnlock \/ TimerWake
    <2>1. UNCHANGED <<pc, self, sent, files, path, inode>>
      BY <1>3, Zenon DEF TimerUnlock, TimerWake, vars, threads, locals, network
    <2>2. UNCHANGED fds \/ close(timer_fd, Timer)
      BY <1>3, Zenon DEF TimerUnlock, TimerWake, vars
    <2>3. \A f \in Fd : fds'[f].kind = "dev" => fds'[f] = fds[f]
      BY <2>2, CloseCloses, ClosesKeeps
    <2>4. Grown(files')
      BY <1>0, <2>1, GrownSame
    <2> QED
      BY <1>0, <2>1, <2>3, <2>4, DataQuiet
  <1> QED
    BY <1>1, <1>2, <1>3 DEF TimerThread

LEMMA DataMain ==
    ASSUME Control, Data, Main, UNCHANGED fileVars
    PROVE  Data' /\ Keeps
  <1>0. /\ UNCHANGED <<files, path, inode>>
        /\ pc \in [Client -> Steps] /\ DOMAIN self = Client /\ sent \in [Client -> Text]
        /\ files \in Seq(Text) /\ path \in 0..Len(files) /\ inode \in [Owner -> 0..Len(files)]
        /\ \A f \in Fd : fds[f].kind = "dev" => inode[fds[f].owner] # 0
    BY DEF fileVars, Control, ControlTyped, Data
  <1>1. CASE MainCreate
    <2>1. main = "create" /\ UNCHANGED <<fds, sent>>
      BY <1>1, Zenon DEF MainCreate, network
    <2>2. PICK c \in Client : c = accepted
      BY <2>1 DEF Control, ThreadsOnce
    <2>3. CASE pc' = [pc EXCEPT ![accepted] = "recv"] /\ self' = [self EXCEPT ![accepted] = NoLocals]
      <3>1. NoLocals \in Locals(Unset) /\ NoLocals.args = Unset
        BY DEF NoLocals, Locals, Text
      <3>4. self'[c] = NoLocals /\ pc'[c] = "recv"
        BY <1>0, <2>2, <2>3
      <3>2. self'[c] \in Locals(self'[c].args)
        BY <3>1, <3>4
      <3>3. LocalsTyped(c)'
        BY <3>2, <3>4 DEF LocalsTyped
      <3> QED
        BY <1>0, <2>1, <2>2, <2>3, <3>3, DataLocal
    <2>4. CASE UNCHANGED <<pc, self>>
      BY <1>0, <2>1, <2>4, GrownSame, DataQuiet
    <2> QED
      BY <1>1, <2>3, <2>4, Zenon DEF MainCreate, Goto, threads, locals
  <1>2. CASE MainInsert \/ CleanupThreads
    <2>1. UNCHANGED <<pc, self, sent>>
      BY <1>2, Zenon DEF MainInsert, CleanupThreads, Reap, threads, locals, network
    <2>2. UNCHANGED fds \/ \E f, c : close(f, c)
      BY <1>2, Zenon DEF MainInsert, CleanupThreads, Reap
    <2>3. \A f \in Fd : fds'[f].kind = "dev" => fds'[f] = fds[f]
      BY <2>2, CloseCloses, ClosesKeeps
    <2> QED
      BY <1>0, <2>1, <2>3, GrownSame, DataQuiet
  <1>3. CASE \E c \in Client : MainAccept(c)
    <2>1. PICK c \in Client : MainAccept(c)
      BY <1>3
    <2>2. UNCHANGED <<pc, self, sent>> /\ FreeFds # {} /\ fds' = Opened("sock", c)
      BY <2>1, Zenon DEF MainAccept, threads, locals
    <2>3. \A f \in Fd : fds'[f].kind = "dev" => fds'[f] = fds[f]
      <3>1. \A f \in Fd : fds'[f] = fds[f] \/ fds'[f] = [kind |-> "sock", owner |-> c]
        BY <2>2, OpenOpens DEF Owner
      <3> QED
        BY <3>1
    <2> QED
      BY <1>0, <2>2, <2>3, GrownSame, DataQuiet
  <1> QED
    BY <1>1, <1>2, <1>3 DEF Main

(* The process ends: one file is left, or none. *)
LEMMA DataEnded ==
    ASSUME Control, Data, Ended, NEW fs, FilesKept(fs), Grown(fs)
    PROVE  Data' /\ Keeps
  <1>1. /\ files \in Seq(Text) /\ Len(files) \in Nat /\ path \in 0..Len(files)
        /\ sent \in [Client -> Text]
    BY DEF Data
  <1>2. /\ files' \in Seq(Text) /\ path' \in 0..Len(files')
        /\ path # 0 => path' = 1 /\ files'[1] = fs[path]
    <2>1. CASE path = 0
      BY <1>1, <2>1 DEF FilesKept
    <2>2. CASE path # 0
      <3>1. path \in 1..Len(fs) /\ fs \in Seq(Text)
        BY <1>1, <2>2 DEF Grown
      <3>2. fs[path] \in Text
        BY <3>1
      <3>3. files' = <<fs[path]>> /\ path' = 1
        BY <2>2 DEF FilesKept
      <3> QED
        BY <3>2, <3>3
    <2> QED
      BY <2>1, <2>2
  <1>3. inode' \in [Owner -> 0..Len(files')]
    BY <1>2 DEF FilesKept
  <1>4. /\ \A c \in Client : LocalsTyped(c)'
        /\ DOMAIN self' = Client /\ sent' \in [Client -> Text]
        /\ \A f \in Fd : fds'[f].kind # "dev"
    BY <1>1 DEF Ended, LocalsTyped, Working, Free
  <1>5. Data'
    BY <1>2, <1>3, <1>4 DEF Data
  <1>6. Keeps
    BY <1>1, <1>2 DEF Keeps, Grown
  <1> QED
    BY <1>5, <1>6
-----------------------------------------------------------------------------
LEMMA FileInitInv == FileInit => FileInv
  <1> SUFFICES ASSUME FileInit PROVE FileInv
    OBVIOUS
  <1>1. ControlTyped
    BY DEF FileInit, Init, ControlTyped, Kinds, Steps, TimerLocking
  <1>2. StreamsHeld /\ ThreadsOnce
    BY DEF FileInit, Init, StreamsHeld, ThreadsOnce, Working, Free
  <1>3. OneWriterAtATime
    BY DEF FileInit, Init, OneWriterAtATime, TimerLocking, Locking, Streaming, Free
  <1>4. Data
    <2>1. sent \in [Client -> Text]
      BY StreamText DEF FileInit, Init
    <2>2. files = <<>> /\ path = 0 /\ inode = [o \in Owner |-> 0]
      BY DEF FileInit
    <2>3. \A c \in Client : LocalsTyped(c)
      BY DEF FileInit, Init, LocalsTyped, Working
    <2>4. DOMAIN self = Client /\ \A f \in Fd : fds[f].kind # "dev"
      BY DEF FileInit, Init, Free
    <2> QED
      BY <2>1, <2>2, <2>3, <2>4 DEF Data
  <1>5. TimerInProcess
    <2>1. global_file = FALSE /\ stamps = 0 /\ timer = "none"
      BY DEF FileInit
    <2>2. global_file \in BOOLEAN
      BY <2>1, Zenon
    <2>3. stamps \in 0..MaxStamps
      BY <2>1, StampsAssumption
    <2> QED
      BY <2>1, <2>2, <2>3 DEF TimerInProcess
  <1> QED
    BY <1>1, <1>2, <1>3, <1>4, <1>5 DEF FileInv, Control

(* The process ends, or the step is one of the environment that leaves     *)
(* descriptors and threads alone.                                          *)
LEMMA EndedStep ==
    ASSUME FileInv, Ended, NEW fs, FilesKept(fs), Grown(fs)
    PROVE  FileInv' /\ Keeps
  <1>1. Control'
    BY ControlEnded DEF FileInv, FilesKept
  <1>2. Data' /\ Keeps
    BY DataEnded DEF FileInv
  <1>3. TimerInProcess'
    BY DEF FileInv, TimerInProcess, Ended, FilesKept
  <1> QED
    BY <1>1, <1>2, <1>3 DEF FileInv

LEMMA CrashStep ==
    ASSUME FileInv, Crash, FilesKept(files)
    PROVE  FileInv' /\ Keeps
  BY EndedStep, GrownSame DEF FileInv, Data, Crash

(* What exit may find unwritten, and where it goes. *)
LEMMA UnwrittenText ==
    ASSUME Control, Data, NEW o \in Owner, Unwritten(o)
    PROVE  /\ TextOf(o) \in Text /\ inode[o] \in 1..Len(files) /\ file_mutex = o
           /\ o \in Client => pc[o] = "write"
  <1>1. CASE o = Timer
    <2>1. /\ timer_fd \in Fd /\ fds[timer_fd].kind = "dev" /\ file_mutex = Timer
      BY <1>1 DEF Unwritten, Control, ControlTyped, OneWriterAtATime, TimerLocking
    <2>2. fds[timer_fd].owner = Timer
      BY <2>1 DEF Control, OneWriterAtATime
    <2>3. o \notin Client
      BY <1>1, TimerAssumption
    <2> QED
      BY <1>1, <2>1, <2>2, <2>3, FileBehind, StreamText DEF TextOf
  <1>2. CASE o # Timer
    <2>1. o \in Client /\ pc[o] = "write" /\ fds[file[o]].kind = "dev"
      BY <1>2 DEF Unwritten, Owner
    <2>2. file[o] \in Fd /\ file_mutex = o
      BY <2>1 DEF Control, ControlTyped, StreamsHeld, OneWriterAtATime, Locking, Streaming
    <2>3. fds[file[o]].owner = o
      BY <2>1, <2>2 DEF Control, OneWriterAtATime
    <2>4. self[o].newString \in Text
      BY <2>1 DEF Data, LocalsTyped, Working, Locals
    <2> QED
      BY <1>2, <2>1, <2>2, <2>3, <2>4, FileBehind DEF TextOf
  <1> QED
    BY <1>1, <1>2

LEMMA FileNextInv ==
    ASSUME FileInv, FileNext
    PROVE  FileInv' /\ (~Removing => Keeps)
  <1>0. Control /\ Data /\ TimerInProcess
    BY DEF FileInv
  <1>types. /\ files \in Seq(Text) /\ Len(files) \in Nat /\ path \in 0..Len(files)
            /\ inode \in [Owner -> 0..Len(files)] /\ sent \in [Client -> Text]
            /\ client \in [Client -> {"new", "waiting", "open", "gone"}]
            /\ Grown(files)
            /\ \A f \in Fd : fds[f].kind = "dev" => inode[fds[f].owner] # 0
    BY <1>0, GrownSame DEF Data, Control, ControlTyped
  <1>1. ASSUME NEW c \in Client, FileHandler(c)
        PROVE  FileInv' /\ Keeps
    <2>1. TimerInProcess'
      <3>1. UNCHANGED <<server, global_file, stamps, timer>>
        BY <1>1, Zenon
        DEF FileHandler, Common, Recv, Received, EndOfStream, FileLockAppend, LockAppend, FileWrite,
            Unlock, FileLockRead, FileFread, ReadFileFails, CloseRead, FileSend, Close, Flag,
            process, fileVars
      <3> QED
        BY <1>0, <3>1 DEF TimerInProcess
    <2>2. CASE \/ Common(Recv(c)) \/ Common(Received(c)) \/ Common(EndOfStream(c))
               \/ Common(Unlock(c)) \/ Common(CloseRead(c)) \/ Common(Close(c)) \/ Common(Flag(c))
      <3>1. /\ UNCHANGED fileVars
            /\ \/ Recv(c) \/ Received(c) \/ EndOfStream(c) \/ Unlock(c)
               \/ CloseRead(c) \/ Close(c) \/ Flag(c)
        BY <2>2, Zenon DEF Common
      <3>2. Control'
        BY <1>0, <3>1, ControlCommon DEF fileVars
      <3> QED
        BY <1>0, <2>1, <3>1, <3>2, DataCommon DEF FileInv
    <2>3. CASE \/ FileLockAppend(c) \/ FileWrite(c) \/ FileLockRead(c) \/ FileFread(c)
               \/ ReadFileFails(c) \/ FileSend(c)
      BY <1>0, <2>1, <2>3, ControlFile, DataFile DEF FileInv
    <2> QED
      BY <1>1, <2>2, <2>3, Zenon DEF FileHandler
  <1>2. CASE TimerThread
    <2>1. Control' /\ Data' /\ Keeps
      BY <1>0, <1>2, ControlTimer, DataTimer
    <2>2. TimerInProcess'
      <3>1. /\ UNCHANGED <<server, global_file>> /\ timer # "none"
            /\ stamps' = stamps \/ (stamps < MaxStamps /\ stamps' = stamps + 1)
        BY <1>2 DEF TimerThread, TimerLock, TimerWrite, TimerUnlock, TimerWake, process, vars
      <3> QED
        BY <1>0, <3>1, StampsAssumption DEF TimerInProcess
    <2> QED
      BY <2>1, <2>2 DEF FileInv
  <1>3. CASE Common(Main)
    <2>1. Main /\ UNCHANGED fileVars
      BY <1>3, Zenon DEF Common
    <2>2. Control' /\ Data' /\ Keeps
      BY <1>0, <2>1, ControlMain, DataMain DEF fileVars
    <2>3. UNCHANGED <<server, global_file, stamps, timer>>
      BY <2>1, Zenon DEF Main, MainCreate, MainInsert, CleanupThreads, Reap, MainAccept, process, fileVars
    <2>4. TimerInProcess'
      BY <1>0, <2>3 DEF TimerInProcess
    <2> QED
      BY <2>2, <2>4 DEF FileInv
  <1>4. CASE RemoveAgain \/ Signal
    <2>1. /\ UNCHANGED <<fds, file_mutex, pc, file, client_socket, info, self, timer_fd, timer, sent,
                         files, inode, server, global_file, stamps>>
          /\ path' = 0 /\ main' # main /\ main' \in {"remove", "exit"}
      BY <1>4, Zenon DEF RemoveAgain, Signal, Terminating, process, threads, locals, network, vars
    <2>2. \/ client' = client
          \/ client' = [c \in Client |-> IF client[c] = "waiting" THEN "gone" ELSE client[c]]
      BY <1>4, Zenon DEF RemoveAgain, Signal, network
    <2>3. Control'
      BY <1>0, <1>types, <2>1, <2>2, ControlEvent
    <2>4. \A c \in Client : LocalsTyped(c)'
      BY <1>0, <2>1 DEF Data, LocalsTyped, Working
    <2>5. Data'
      BY <1>0, <2>1, <2>4 DEF Data
    <2>6. TimerInProcess'
      BY <1>0, <2>1 DEF TimerInProcess
    <2>7. Removing
      BY <2>1 DEF Removing
    <2> QED
      BY <2>3, <2>5, <2>6, <2>7 DEF FileInv
  <1>5. CASE Exit
    <2>1. Ended
      BY <1>5 DEF Exit
    <2>2. CASE FilesKept(files)
      BY <1>types, <2>1, <2>2, EndedStep
    <2>3. ASSUME NEW o \in Owner, Unwritten(o), NEW k \in Pieces(TextOf(o)),
                 FilesKept(Appended(inode[o], Piece(TextOf(o), k)))
          PROVE  FileInv' /\ Keeps
      <3>1. TextOf(o) \in Text /\ inode[o] \in 1..Len(files)
        BY <1>0, <2>3, UnwrittenText
      <3>2. Piece(TextOf(o), k) \in Text
        BY <3>1, DividedText
      <3>3. Grown(Appended(inode[o], Piece(TextOf(o), k)))
        BY <1>types, <3>1, <3>2, GrownAppended
      <3> QED
        BY <2>1, <2>3, <3>3, EndedStep
    <2> QED
      BY <1>5, <2>2, <2>3 DEF Exit
  <1>6. CASE SignalCrashes \/ TimerLockFails
    BY <1>6, CrashStep DEF SignalCrashes, TimerLockFails, FileCrash
  <1>7. ASSUME NEW c \in Client, FileLockFails(c) \/ FileBrokenPipe(c)
        PROVE  FileInv' /\ Keeps
    BY <1>7, CrashStep DEF FileLockFails, FileBrokenPipe, BrokenPipe, FileCrash
  <1>8. CASE FileStart \/ StartFails
    <2>1. /\ UNCHANGED <<fds, file_mutex, pc, file, client_socket, info, self, timer_fd, sent, client,
                         inode, stamps, main, accepted>>
          /\ server = "down"
          /\ \/ server' = server /\ timer' = timer /\ global_file' = global_file
             \/ server' = "up" /\ timer' = "lock" /\ global_file' \in BOOLEAN
      BY <1>8 DEF FileStart, Start, StartFails, mainVars, threads, locals, network
    <2>2. OpenAppend \/ UNCHANGED <<files, path>>
      BY <1>8 DEF FileStart, StartFails
    <2>3. Control'
      BY <1>0, <1>types, <2>1, ControlEvent DEF TimerInProcess
    <2>4. Grown(files') /\ path' \in 0..Len(files') /\ (path # 0 => path' = path)
      BY <1>types, <2>2, GrownOpen
    <2>5. Len(files) <= Len(files') /\ Len(files') \in Nat
      BY <2>4 DEF Grown
    <2>6. inode' \in [Owner -> 0..Len(files')]
      BY <1>types, <2>1, <2>5
    <2>7. Data' /\ Keeps
      BY <1>0, <1>types, <2>1, <2>4, <2>6, DataQuiet
    <2>8. TimerInProcess'
      BY <1>0, <2>1 DEF TimerInProcess
    <2> QED
      BY <2>3, <2>7, <2>8 DEF FileInv
  <1>9. ASSUME NEW c \in Client,
               \/ Common(Connect(c) /\ ~Terminating) \/ Common(HangUp(c)) \/ Common(MainAcceptFails(c))
        PROVE  FileInv' /\ Keeps
    <2>1. UNCHANGED <<fds, file_mutex, pc, file, client_socket, info, self, main, accepted, server,
                      timer, timer_fd, files, path, inode, global_file, stamps>>
      BY <1>9, Zenon DEF Common, Connect, HangUp, MainAcceptFails, process, mainVars, threads, locals, fileVars
    <2>2. \/ client[c] = "new" /\ client' = [client EXCEPT ![c] = "waiting"]
          \/ client' = [client EXCEPT ![c] = "gone"]
      BY <1>9, Zenon DEF Common, Connect, HangUp, MainAcceptFails
    <2>3. sent' \in [Client -> Text]
      <3>1. \/ sent' = sent
            \/ \E k \in 0..Len(sent[c]) : sent' = [sent EXCEPT ![c] = SubSeq(@, 1, k)]
        BY <1>9, Zenon DEF Common, Connect, HangUp, MainAcceptFails
      <3>2. \A k \in 0..Len(sent[c]) : SubSeq(sent[c], 1, k) \in Text
        BY <1>types, PieceText
      <3> QED
        BY <1>types, <3>1, <3>2
    <2>4. Control'
      BY <1>0, <1>types, <2>1, <2>2, ControlEvent
    <2>5. Data' /\ Keeps
      BY <1>0, <1>types, <2>1, <2>3, DataQuiet
    <2>6. TimerInProcess'
      BY <1>0, <2>1 DEF TimerInProcess
    <2> QED
      BY <2>4, <2>5, <2>6 DEF FileInv
  <1> QED
    BY <1>1, <1>2, <1>3, <1>4, <1>5, <1>6, <1>7, <1>8, <1>9, Zenon
    DEF FileNext, FileMain, FileEnvironment

LEMMA FileStutters ==
    ASSUME FileInv, UNCHANGED allVars
    PROVE  FileInv'
  <1>1. UNCHANGED <<fds, file_mutex, pc, file, client_socket, info, self, main, accepted, client, sent,
                    server, timer, timer_fd, files, path, inode, global_file, stamps>>
    BY Zenon DEF allVars, vars, process, mainVars, threads, locals, network, fileVars
  <1>2. Control'
    BY <1>1, ControlEvent DEF FileInv, Control, ControlTyped
  <1>3. Data'
    BY <1>1, DataQuiet, GrownSame DEF FileInv, Data
  <1>4. TimerInProcess'
    BY <1>1 DEF FileInv, TimerInProcess
  <1> QED
    BY <1>2, <1>3, <1>4 DEF FileInv

LEMMA FileInvariant == FileSpec => []FileInv
  BY FileInitInv, FileNextInv, FileStutters, PTL DEF FileSpec

(* The variables of this build have their types: in particular, a stream   *)
(* that is open has a file behind it, although the signal handlers remove  *)
(* the file while other threads use it.                                    *)
THEOREM FileTyped == FileSpec => []FileTypeOK
  <1>1. FileInv => FileTypeOK
    BY DEF FileInv, Control, ControlTyped, Data, TimerInProcess, FileTypeOK, Kinds, TimerLocking
  <1> QED
    BY <1>1, FileInvariant, PTL

(* file_mutex keeps handle_connection, read_file and add_timestamp_to_file *)
(* apart, for any number of clients, and although a thread may close the   *)
(* descriptor of another one and another stream may then have its number.  *)
THEOREM WritersApart == FileSpec => []OneWriterAtATime
  <1>1. FileInv => OneWriterAtATime
    BY DEF FileInv, Control
  <1> QED
    BY <1>1, FileInvariant, PTL

(* What the file holds stays at its beginning, through appends, timestamps, *)
(* crashes and restarts, until a signal handler removes the file.           *)
THEOREM FileGrows == FileSpec => FileOnlyGrows
  <1>1. FileInv /\ [FileNext]_allVars =>
          [path # 0 /\ ~Removing => path' # 0 /\ IsPrefix(files[path], files'[path'])]_allVars
    BY FileNextInv DEF Keeps
  <1> QED
    BY <1>1, FileInvariant, PTL DEF FileSpec, FileOnlyGrows
-----------------------------------------------------------------------------
(* What a step does to the texts: those that threads have received and not *)
(* yet written, those under way, and the files.                            *)
Carrying(d) == pc[d] \in {"lock", "write"}

(* What d has to write, and where to, stays as it is until d has done it. *)
Carried(d) ==
    Carrying(d)' => /\ Carrying(d) /\ self'[d].newString = self[d].newString
                    /\ pc[d] = "write" => pc'[d] = "write" /\ inode'[d] = inode[d]

CarriersKept == \A d \in Client : Carried(d)
SentKeptOf(w) == \E n \in 0..Len(sent[w]) : sent'[w] = SubSeq(sent[w], 1, n)
SentKept == \A w \in Client : SentKeptOf(w)

(* Nothing is written; the file may be created or removed. *)
Quiet ==
    /\ CarriersKept /\ SentKept
    /\ \/ UNCHANGED <<files, path>>
       \/ OpenAppend
       \/ UNCHANGED files /\ path' = 0 /\ Terminating'

(* The first k characters of the text of o are at the end of its file, and *)
(* o has only the rest still to write, if anything.                        *)
Written(o, k) ==
    /\ SentKept /\ \A d \in Client \ {o} : Carried(d)
    /\ file_mutex = o /\ (o \in Client => pc[o] = "write")
    /\ inode[o] \in 1..Len(files) /\ inode' = inode /\ path' = path
    /\ files' = Appended(inode[o], Piece(TextOf(o), k))
    /\ o \in Client /\ Carrying(o)' =>
          pc'[o] = "write" /\ self'[o].newString = Rest(TextOf(o), k)

(* The process ends, and exit has written so much of the text of o. *)
Left(o, k) ==
    /\ Ended
    /\ file_mutex = o /\ (o \in Client => pc[o] = "write")
    /\ inode[o] \in 1..Len(files)
    /\ FilesKept(Appended(inode[o], Piece(TextOf(o), k)))
LeftAsIs == Ended /\ FilesKept(files)

FileStep ==
    \/ Quiet
    \/ \E o \in Owner : \E k \in Pieces(TextOf(o)) : Written(o, k) \/ Left(o, k)
    \/ LeftAsIs
    \/ \E c \in Client : Received(c) /\ UNCHANGED <<files, path, inode>>

LEMMA SentSame ==
    ASSUME FileInv, UNCHANGED sent
    PROVE  SentKept
  <1>1. ASSUME NEW w \in Client
        PROVE  \E n \in 0..Len(sent[w]) : sent'[w] = SubSeq(sent[w], 1, n)
    <2>1. sent[w] \in Text
      BY DEF FileInv, Data
    <2>2. sent[w] \in Seq(Byte) /\ Len(sent[w]) \in 0..Len(sent[w])
      BY <2>1 DEF Text
    <2> QED
      BY <2>2
  <1> QED
    BY <1>1 DEF SentKept, SentKeptOf

LEMMA SentOne ==
    ASSUME FileInv, NEW o \in Client, NEW n \in 0..Len(sent[o]),
           sent' = [sent EXCEPT ![o] = SubSeq(@, 1, n)]
    PROVE  SentKept
  <1>1. ASSUME NEW w \in Client
        PROVE  \E k \in 0..Len(sent[w]) : sent'[w] = SubSeq(sent[w], 1, k)
    <2>1. sent[w] \in Text /\ sent \in [Client -> Text]
      BY DEF FileInv, Data
    <2>2. sent[w] \in Seq(Byte) /\ Len(sent[w]) \in 0..Len(sent[w])
      BY <2>1 DEF Text
    <2>3. CASE w = o
      BY <2>1, <2>3
    <2>4. CASE w # o
      BY <2>1, <2>2, <2>4
    <2> QED
      BY <2>3, <2>4
  <1> QED
    BY <1>1 DEF SentKept, SentKeptOf

(* A thread goes on: what it has to write stays until it is written. *)
LEMMA CarriersGoOn ==
    ASSUME FileInv, NEW c \in Client, NEW s, Goto(c, s),
           \A d \in Client : d # c => self'[d] = self[d] /\ inode'[d] = inode[d],
           s \notin {"lock", "write"} \/ (pc[c] = "lock" /\ self'[c].newString = self[c].newString)
    PROVE  CarriersKept
  <1>1. pc \in [Client -> Steps]
    BY DEF FileInv, Control, ControlTyped
  <1> QED
    BY <1>1 DEF CarriersKept, Carried, Carrying, Goto

LEMMA CarriersStay ==
    ASSUME UNCHANGED <<pc, self>>, \A d \in Client : inode'[d] = inode[d]
    PROVE  CarriersKept
  BY DEF CarriersKept, Carried, Carrying

LEMMA HandlerFiles ==
    ASSUME FileInv, NEW c \in Client, FileHandler(c)
    PROVE  FileStep
  <1>0. /\ DOMAIN self = Client /\ sent \in [Client -> Text]
        /\ files \in Seq(Text) /\ path \in 0..Len(files)
        /\ c \in Owner /\ \A d \in Client : d \in Owner
        /\ inode \in [Owner -> 0..Len(files)]
    BY DEF FileInv, Data, Owner
  <1>1. CASE Common(Received(c))
    BY <1>1 DEF Common, FileStep, fileVars
  <1>2. CASE \/ Common(Recv(c)) \/ Common(EndOfStream(c)) \/ Common(Unlock(c)) \/ Common(CloseRead(c))
             \/ Common(Close(c)) \/ Common(Flag(c)) \/ FileFread(c) \/ FileLockRead(c) \/ FileSend(c)
    <2>1. UNCHANGED <<files, path, sent>>
      BY <1>2, Zenon DEF Common, Recv, EndOfStream, Unlock, CloseRead, Close, Flag, FileFread,
         FileLockRead, FileSend, network, fileVars
    <2>2. \E s : Goto(c, s) /\ s \notin {"lock", "write"}
      BY <1>2 DEF Common, Recv, EndOfStream, Unlock, AfterPacket, CloseRead, Close, Flag, FileFread,
         FileLockRead, FileSend
    <2>3. \A d \in Client : d # c => self'[d] = self[d]
      BY <1>0, <1>2 DEF Common, Recv, EndOfStream, Unlock, CloseRead, Close, Flag, FileFread,
         FileLockRead, FileSend, locals
    <2>4. UNCHANGED inode \/ inode' = [inode EXCEPT ![c] = path]
      BY <1>2, Zenon DEF Common, FileFread, FileLockRead, FileSend, fileVars
    <2>5. \A d \in Client : d # c => inode'[d] = inode[d]
      BY <1>0, <2>4
    <2> QED
      BY <2>1, <2>2, <2>3, <2>5, SentSame, CarriersGoOn DEF FileStep, Quiet
  <1>3. CASE FileLockAppend(c)
    <2>0. LockAppend(c)
      BY <1>3, Zenon DEF FileLockAppend
    <2>1. /\ UNCHANGED sent /\ pc[c] = "lock"
          /\ UNCHANGED <<files, path>> \/ OpenAppend
      BY <1>3, Zenon DEF FileLockAppend, LockAppend, network
    <2>2. PICK s \in {"write", "unlock"} : Goto(c, s)
      BY <2>0, AppendGoto
    <2>3. PICK f, a, u : self' = [self EXCEPT ![c].found_ioctl_cmd = f, ![c].args = a, ![c].uncut = u]
      BY <2>0, AppendLocals, Zenon
    <2>4. self[c] \in Locals(self[c].args)
      BY <2>1 DEF FileInv, Data, LocalsTyped, Working
    <2>5. /\ \A d \in Client : d # c => self'[d] = self[d]
          /\ self'[c].newString = self[c].newString
      BY <1>0, <2>3, <2>4 DEF Locals
    <2>6. UNCHANGED inode \/ inode' = [inode EXCEPT ![c] = path']
      BY <1>3, Zenon DEF FileLockAppend
    <2>7. \A d \in Client : d # c => inode'[d] = inode[d]
      BY <1>0, <2>6
    <2> QED
      BY <2>1, <2>2, <2>5, <2>7, SentSame, CarriersGoOn DEF FileStep, Quiet
  <1>4. CASE FileWrite(c)
    <2> DEFINE d == fds[file[c]]
               s == self[c].newString
    <2>1. UNCHANGED <<sent, path, inode>> /\ pc[c] = "write"
      BY <1>4, Zenon DEF FileWrite
    <2>2. SentKept
      BY <2>1, SentSame
    <2>3. \/ /\ d.kind = "dev"
             /\ \E k \in Pieces(s) : /\ files' = Appended(inode[d.owner], Piece(s, k))
                                     /\ self' = [self EXCEPT ![c].newString = Rest(s, k)]
                                     /\ Goto(c, IF k = Len(s) THEN "unlock" ELSE "write")
          \/ /\ files' = files
             /\ self' = [self EXCEPT ![c].newString = <<>>, ![c].failed = TRUE]
             /\ Goto(c, "unlock")
      BY <1>4, Zenon DEF FileWrite
    <2>4. /\ pc \in [Client -> Steps] /\ DOMAIN self[c] = DOMAIN NoLocals
      <3>1. self[c] \in Locals(self[c].args)
        BY <2>1 DEF FileInv, Data, LocalsTyped, Working
      <3> QED
        BY <3>1 DEF Locals, NoLocals, FileInv, Control, ControlTyped
    <2>5. CASE /\ files' = files /\ Goto(c, "unlock")
               /\ self' = [self EXCEPT ![c].newString = <<>>, ![c].failed = TRUE]
      BY <1>0, <2>1, <2>2, <2>5, CarriersGoOn DEF FileStep, Quiet
    <2>6. ASSUME d.kind = "dev", NEW k \in Pieces(s), files' = Appended(inode[d.owner], Piece(s, k)),
                 self' = [self EXCEPT ![c].newString = Rest(s, k)],
                 Goto(c, IF k = Len(s) THEN "unlock" ELSE "write")
          PROVE  FileStep
      <3>1. file[c] \in Fd /\ file_mutex = c
        BY <2>1 DEF FileInv, Control, ControlTyped, StreamsHeld, OneWriterAtATime, Locking, Streaming
      <3>2. d.owner = c
        BY <2>6, <3>1 DEF FileInv, Control, OneWriterAtATime
      <3>3. inode[c] \in 1..Len(files)
        BY <2>6, <3>1, <3>2, FileBehind DEF FileInv
      <3>4. TextOf(c) = s
        BY DEF TextOf
      <3>5. \A e \in Client \ {c} : Carried(e)
        <4>1. \A e \in Client \ {c} : pc'[e] = pc[e] /\ self'[e] = self[e] /\ inode'[e] = inode[e]
          BY <1>0, <2>1, <2>4, <2>6 DEF Goto
        <4> QED
          BY <4>1 DEF Carried, Carrying
      <3>6. Carrying(c)' => pc'[c] = "write" /\ self'[c].newString = Rest(s, k)
        <4>1. pc'[c] \in {"unlock", "write"}
          BY <2>4, <2>6 DEF Goto
        <4>2. self'[c].newString = Rest(s, k)
          <5> DEFINE x == Rest(s, k)
          <5>1. self' = [self EXCEPT ![c].newString = x]
            BY <2>6
          <5>2. "newString" \in DOMAIN self[c]
            BY <2>4 DEF NoLocals
          <5> HIDE DEF x
          <5>3. self'[c].newString = x
            BY <1>0, <5>1, <5>2
          <5> QED
            BY <5>3 DEF x
        <4> QED
          BY <4>1, <4>2 DEF Carrying
      <3> HIDE DEF d, s
      <3>7. /\ files' = Appended(inode[c], Piece(TextOf(c), k)) /\ k \in Pieces(TextOf(c))
            /\ Carrying(c)' => pc'[c] = "write" /\ self'[c].newString = Rest(TextOf(c), k)
        BY <2>6, <3>2, <3>4, <3>6
      <3>8. Written(c, k)
        BY <2>1, <2>2, <3>1, <3>3, <3>5, <3>7, Zenon DEF Written
      <3> QED
        BY <1>0, <3>7, <3>8 DEF FileStep
    <2> HIDE DEF d, s
    <2> QED
      BY <2>3, <2>5, <2>6, Zenon
  <1>5. CASE ReadFileFails(c)
    <2> DEFINE d == fds[file[c]]
    <2>1. /\ UNCHANGED <<files, path, inode>> /\ pc[c] = "fread" /\ Goto(c, "send")
          /\ sent' = IF d.kind = "sock" THEN [sent EXCEPT ![d.owner] = <<>>] ELSE sent
          /\ \E t : self' = [self EXCEPT ![c].contents = t]
      BY <1>5, Zenon DEF ReadFileFails, fileVars
    <2>2. \A e \in Client : e # c => self'[e] = self[e]
      BY <1>0, <2>1
    <2>3. SentKept
      <3>1. CASE d.kind = "sock"
        <4>1. file[c] \in Fd
          BY <2>1 DEF FileInv, Control, ControlTyped, StreamsHeld
        <4>2. d.owner \in Client
          BY <3>1, <4>1 DEF FileInv, Control, StreamsHeld
        <4>3. sent[d.owner] \in Text
          BY <1>0, <4>2
        <4>4. 0 \in 0..Len(sent[d.owner]) /\ SubSeq(sent[d.owner], 1, 0) = <<>>
          BY <4>3 DEF Text
        <4> HIDE DEF d
        <4>5. sent' = [sent EXCEPT ![d.owner] = SubSeq(@, 1, 0)]
          BY <1>0, <2>1, <3>1, <4>2, <4>4
        <4> QED
          BY <4>2, <4>4, <4>5, SentOne
      <3>2. CASE d.kind # "sock"
        BY <2>1, <3>2, SentSame
      <3> QED
        BY <3>1, <3>2
    <2> QED
      BY <2>1, <2>2, <2>3, CarriersGoOn DEF FileStep, Quiet
  <1> QED
    BY <1>1, <1>2, <1>3, <1>4, <1>5, Zenon DEF FileHandler


LEMMA FilesTouched ==
    ASSUME FileInv, FileNext
    PROVE  FileStep
  <1>0. /\ DOMAIN self = Client /\ sent \in [Client -> Text]
        /\ files \in Seq(Text) /\ path \in 0..Len(files)
        /\ Timer \in Owner /\ inode \in [Owner -> 0..Len(files)]
        /\ \A d \in Client : d \in Owner /\ d # Timer
    BY DEF FileInv, Data, Owner
  <1>1. CASE \E c \in Client : FileHandler(c)
    BY <1>1, HandlerFiles
  <1>2. ASSUME UNCHANGED <<pc, self, sent>>, \A d \in Client : inode'[d] = inode[d],
               \/ UNCHANGED <<files, path>>
               \/ OpenAppend
               \/ UNCHANGED files /\ path' = 0 /\ Terminating'
        PROVE  FileStep
    BY <1>2, SentSame, CarriersStay DEF FileStep, Quiet
  <1>3. CASE TimerThread
    <2>1. UNCHANGED <<pc, self, sent>>
      BY <1>3, Zenon DEF TimerThread, TimerLock, TimerWrite, TimerUnlock, TimerWake, threads, locals,
         network, vars
    <2>2. CASE TimerLock \/ TimerUnlock \/ TimerWake
      <3>1. UNCHANGED <<files, path>> \/ OpenAppend
        BY <2>2, Zenon DEF TimerLock, TimerUnlock, TimerWake
      <3>2. UNCHANGED inode \/ inode' = [inode EXCEPT ![Timer] = path']
        BY <2>2, Zenon DEF TimerLock, TimerUnlock, TimerWake
      <3>3. \A d \in Client : inode'[d] = inode[d]
        BY <1>0, <3>2
      <3> QED
        BY <1>2, <2>1, <3>1, <3>3
    <2>3. CASE TimerWrite
      <3> DEFINE d == fds[timer_fd]
      <3>1. UNCHANGED <<path, inode>> /\ timer = "write"
        BY <2>3, Zenon DEF TimerWrite
      <3>2. \/ files' = files
            \/ d.kind = "dev" /\ files' = Appended(inode[d.owner], Stamp)
        BY <2>3, Zenon DEF TimerWrite
      <3>3. CASE files' = files
        BY <1>2, <2>1, <3>1, <3>3
      <3>4. CASE d.kind = "dev" /\ files' = Appended(inode[d.owner], Stamp)
        <4>1. timer_fd \in Fd /\ file_mutex = Timer
          BY <3>1 DEF FileInv, Control, ControlTyped, OneWriterAtATime, TimerLocking
        <4>2. d.owner = Timer
          BY <3>4, <4>1 DEF FileInv, Control, OneWriterAtATime
        <4>3. inode[Timer] \in 1..Len(files)
          BY <3>4, <4>1, <4>2, FileBehind DEF FileInv
        <4>4. /\ TextOf(Timer) = Stamp /\ Len(Stamp) \in Pieces(Stamp)
              /\ Piece(Stamp, Len(Stamp)) = Stamp
          <5>1. Stamp \in Text /\ Len(Stamp) <= BUFSIZ
            BY StreamText, StampAssumption
          <5> QED
            BY <5>1 DEF TextOf, Pieces, Piece, Text
        <4>5. SentKept /\ CarriersKept
          BY <2>1, <3>1, SentSame, CarriersStay
        <4> HIDE DEF d
        <4>6. Written(Timer, Len(Stamp))
          BY <1>0, <3>1, <3>4, <4>1, <4>2, <4>3, <4>4, <4>5 DEF Written, CarriersKept
        <4> QED
          BY <1>0, <4>4, <4>6 DEF FileStep
      <3> QED
        BY <3>2, <3>3, <3>4
    <2> QED
      BY <1>3, <2>2, <2>3, Zenon DEF TimerThread
  <1>4. CASE Common(Main)
    <2>1. UNCHANGED <<files, path, inode>>
      BY <1>4, Zenon DEF Common, fileVars
    <2>2. UNCHANGED sent
      BY <1>4, Zenon DEF Common, Main, MainCreate, MainInsert, CleanupThreads, Reap, MainAccept, network
    <2>3. CASE UNCHANGED <<pc, self>>
      BY <1>2, <2>1, <2>2, <2>3
    <2>4. CASE MainCreate /\ ~UNCHANGED <<pc, self>>
      <3>1. /\ main = "create" /\ Goto(accepted, "recv")
            /\ self' = [self EXCEPT ![accepted] = NoLocals]
        BY <2>4, Zenon DEF MainCreate, threads, locals
      <3>2. PICK c \in Client : c = accepted
        BY <3>1 DEF FileInv, Control, ThreadsOnce
      <3>3. Goto(c, "recv") /\ \A d \in Client : d # c => self'[d] = self[d]
        BY <1>0, <3>1, <3>2
      <3> QED
        BY <2>1, <2>2, <3>3, SentSame, CarriersGoOn DEF FileStep, Quiet
    <2>5. CASE ~MainCreate
      <3>1. UNCHANGED <<pc, self>>
        BY <1>4, <2>5, Zenon DEF Common, Main, MainInsert, CleanupThreads, Reap, MainAccept, threads, locals
      <3> QED
        BY <2>3, <3>1
    <2> QED
      BY <2>3, <2>4, <2>5
  <1>5. CASE RemoveAgain \/ Signal
    <2>1. UNCHANGED <<pc, self, sent, files, inode>> /\ path' = 0 /\ Terminating'
      BY <1>5, Zenon DEF RemoveAgain, Signal, Terminating, threads, locals, network
    <2> QED
      BY <1>2, <2>1
  <1>6. CASE Exit
    <2>1. CASE FilesKept(files)
      BY <1>6, <2>1 DEF Exit, FileStep, LeftAsIs
    <2>2. ASSUME NEW o \in Owner, Unwritten(o), NEW k \in Pieces(TextOf(o)),
                 FilesKept(Appended(inode[o], Piece(TextOf(o), k)))
          PROVE  FileStep
      <3>1. inode[o] \in 1..Len(files) /\ file_mutex = o /\ (o \in Client => pc[o] = "write")
        BY <2>2, UnwrittenText DEF FileInv
      <3>2. Left(o, k)
        BY <1>6, <2>2, <3>1 DEF Exit, Left
      <3> QED
        BY <2>2, <3>2 DEF FileStep
    <2> QED
      BY <1>6, <2>1, <2>2 DEF Exit
  <1>7. CASE \/ SignalCrashes \/ TimerLockFails
             \/ \E c \in Client : FileLockFails(c) \/ FileBrokenPipe(c)
    <2>1. LeftAsIs
      BY <1>7, Zenon DEF SignalCrashes, TimerLockFails, FileLockFails, FileBrokenPipe, BrokenPipe,
         FileCrash, Crash, LeftAsIs
    <2> QED
      BY <2>1 DEF FileStep
  <1>8. CASE FileStart \/ StartFails
    <2>1. UNCHANGED <<pc, self, sent, inode>> /\ (OpenAppend \/ UNCHANGED <<files, path>>)
      BY <1>8, Zenon DEF FileStart, Start, StartFails, threads, locals, network
    <2> QED
      BY <1>2, <2>1
  <1>9. ASSUME NEW c \in Client, Common(Connect(c) /\ ~Terminating) \/ Common(MainAcceptFails(c))
        PROVE  FileStep
    <2>1. UNCHANGED <<pc, self, sent, files, path, inode>>
      BY <1>9, Zenon DEF Common, Connect, MainAcceptFails, threads, locals, fileVars
    <2> QED
      BY <1>2, <2>1
  <1>10. ASSUME NEW c \in Client, Common(HangUp(c))
         PROVE  FileStep
    <2>1. /\ UNCHANGED <<pc, self, files, path, inode>>
          /\ \E k \in 0..Len(sent[c]) : sent' = [sent EXCEPT ![c] = SubSeq(@, 1, k)]
      BY <1>10, Zenon DEF Common, HangUp, threads, locals, fileVars
    <2> QED
      BY <2>1, SentOne, CarriersStay DEF FileStep, Quiet
  <1> QED
    BY <1>1, <1>3, <1>4, <1>5, <1>6, <1>7, <1>8, <1>9, <1>10, Zenon
    DEF FileNext, FileMain, FileEnvironment
-----------------------------------------------------------------------------
(* The characters of a client that nobody else brings into the file, and   *)
(* the texts without them.                                                 *)
Private(w) == Own(w) \ ToSet(Stamp)
CleanTexts(w) == {t \in Text : Avoids(t, Private(w))}

LEMMA CleanConcat ==
    ASSUME NEW w, NEW s \in CleanTexts(w), NEW t \in CleanTexts(w)
    PROVE  s \o t \in CleanTexts(w)
  <1>1. s \in Text /\ t \in Text /\ Avoids(s, Private(w)) /\ Avoids(t, Private(w))
    BY DEF CleanTexts
  <1>2. s \o t \in Text
    BY <1>1, PrefixText
  <1>3. Avoids(s \o t, Private(w))
    BY <1>1, AvoidsConcat DEF Text
  <1> QED
    BY <1>2, <1>3 DEF CleanTexts

LEMMA CleanPiece ==
    ASSUME NEW w, NEW s \in CleanTexts(w), NEW m \in Nat \ {0}, NEW n \in 0..Len(s)
    PROVE  SubSeq(s, m, n) \in CleanTexts(w)
  BY PieceText, AvoidsPiece DEF CleanTexts, Text

LEMMA CleanDivided ==
    ASSUME NEW w, NEW s \in CleanTexts(w), NEW k \in Pieces(s)
    PROVE  Piece(s, k) \in CleanTexts(w) /\ Rest(s, k) \in CleanTexts(w)
  <1>1. s \in Text /\ Len(s) \in Nat
    BY DEF CleanTexts, Text
  <1>2. k \in 0..Len(s)
    BY <1>1, DividedText
  <1>3. k + 1 \in Nat \ {0} /\ 1 \in Nat \ {0} /\ Len(s) \in 0..Len(s)
    BY <1>1, <1>2
  <1> QED
    BY <1>2, <1>3, CleanPiece DEF Piece, Rest

LEMMA CleanExtract ==
    ASSUME NEW w, NEW buf \in CleanTexts(w)
    PROVE  extract_data_up_to_newline(buf) \in CleanTexts(w)
  <1>1. CASE new_line_found(buf)
    <2>1. NewlineAt(buf) \in SUBSET Nat /\ NewlineAt(buf) # {}
      BY <1>1 DEF new_line_found, NewlineAt
    <2>2. Min(NewlineAt(buf)) \in 0..Len(buf)
      <3>1. Min(NewlineAt(buf)) \in NewlineAt(buf)
        BY <2>1, MinValue
      <3> QED
        BY <3>1 DEF NewlineAt
    <2> QED
      BY <1>1, <2>2, CleanPiece DEF extract_data_up_to_newline, new_line_found
  <1>2. CASE ~new_line_found(buf)
    BY <1>2 DEF extract_data_up_to_newline, new_line_found
  <1> QED
    BY <1>1, <1>2

LEMMA CleanStamp ==
    ASSUME NEW w
    PROVE  Stamp \in CleanTexts(w) /\ <<>> \in CleanTexts(w)
  <1>1. \A i \in 1..Len(Stamp) : Stamp[i] \in ToSet(Stamp)
    BY StreamText, InSet DEF Text
  <1>2. <<>> \in Text
    BY DEF Text
  <1> QED
    BY <1>1, <1>2, StreamText DEF CleanTexts, Avoids, Private

LEMMA CleanStream ==
    ASSUME NEW w \in Client, NEW d \in Client, d # w
    PROVE  Stream[d] \in CleanTexts(w)
  <1>1. Stream[d] \in Text
    BY StreamText
  <1>2. \A i \in 1..Len(Stream[d]) : Stream[d][i] \in ToSet(Stream[d])
    BY <1>1, InSet DEF Text
  <1> QED
    BY <1>1, <1>2 DEF CleanTexts, Avoids, Private, Own

(* What a client has under way is without the characters of the others. *)
SentApart == \A w \in Client : \A d \in Client \ {w} : sent[d] \in CleanTexts(w)

LEMMA SentApartInit == FileInit => SentApart
  BY CleanStream DEF FileInit, Init, SentApart

(* What thread c receives, and what is left. *)
LEMMA Receiving ==
    ASSUME FileInv, NEW c \in Client, Received(c)
    PROVE  \E o \in Client : \E k \in 1..Len(sent[o]) :
              /\ o = self[c].conn
              /\ o \notin Split => k = Available(o)
              /\ pc[c] = "receiving" /\ pc' = [pc EXCEPT ![c] = "lock"]
              /\ sent' = [sent EXCEPT ![o] = SubSeq(@, k + 1, Len(@))]
              /\ self'[c].newString = extract_data_up_to_newline(SubSeq(sent[o], 1, k))
              /\ \A d \in Client : d # c => self'[d] = self[d]
              /\ self'[c].newline = new_line_found(SubSeq(sent[o], 1, k))
              /\ self'[c].failed = self[c].failed
              /\ self'[c].found_ioctl_cmd = self[c].found_ioctl_cmd
              /\ o # c => o \in crossed'
  <1> DEFINE o == self[c].conn
  <1>0. /\ pc \in [Client -> Steps] /\ DOMAIN self = Client /\ sent \in [Client -> Text]
    BY DEF FileInv, Control, ControlTyped, Data
  <1>1. pc[c] = "receiving" /\ pc' = [pc EXCEPT ![c] = "lock"] /\ sent[o] # <<>>
    BY Zenon DEF Received, Goto
  <1>2. PICK k \in IF o \in Split THEN 1..Available(o) ELSE {Available(o)} :
            /\ sent' = [sent EXCEPT ![o] = SubSeq(@, k + 1, Len(@))]
            /\ self' = [self EXCEPT ![c].newString = extract_data_up_to_newline(SubSeq(sent[o], 1, k)),
                                    ![c].newline = new_line_found(SubSeq(sent[o], 1, k))]
    BY Zenon DEF Received
  <1>3. o \in Client /\ self[c] \in Locals(self[c].args)
    BY <1>1 DEF FileInv, Data, LocalsTyped, Working
  <1> HIDE DEF o
  <1>4. sent[o] \in Text /\ Len(sent[o]) \in Nat \ {0}
    BY <1>0, <1>1, <1>3 DEF Text
  <1>5. Available(o) \in 1..Len(sent[o])
    <2>1. {Len(sent[o]), BUFFER_SIZE} \in SUBSET Nat
      BY <1>4
    <2>2. Min({Len(sent[o]), BUFFER_SIZE}) \in {Len(sent[o]), BUFFER_SIZE}
          /\ Min({Len(sent[o]), BUFFER_SIZE}) <= Len(sent[o])
      BY <2>1, MinValue
    <2> QED
      BY <1>4, <2>2 DEF Available
  <1>6. k \in 1..Len(sent[o]) /\ (o \notin Split => k = Available(o))
    BY <1>2, <1>4, <1>5
  <1> DEFINE x == extract_data_up_to_newline(SubSeq(sent[o], 1, k))
             n == new_line_found(SubSeq(sent[o], 1, k))
  <1>7. /\ self'[c].newString = x /\ \A d \in Client : d # c => self'[d] = self[d]
        /\ self'[c].newline = n /\ self'[c].failed = self[c].failed
        /\ self'[c].found_ioctl_cmd = self[c].found_ioctl_cmd
    <2>1. self' = [self EXCEPT ![c].newString = x, ![c].newline = n]
      BY <1>2
    <2> HIDE DEF x, n
    <2> QED
      BY <1>0, <1>3, <2>1 DEF Locals
  <1>8. o # c => o \in crossed'
    <2>1. crossed' = IF o = c THEN crossed ELSE crossed \cup {o}
      BY Zenon DEF Received, o
    <2> QED
      BY <2>1
  <1> QED
    BY <1>1, <1>2, <1>3, <1>6, <1>7, <1>8 DEF o

LEMMA SentApartNext ==
    ASSUME FileInv, SentApart, FileStep
    PROVE  SentApart'
  <1>0. sent \in [Client -> Text]
    BY DEF FileInv, Data
  <1>1. CASE SentKept
    <2>1. ASSUME NEW w \in Client, NEW d \in Client \ {w}
          PROVE  sent'[d] \in CleanTexts(w)
      <3>1. PICK n \in 0..Len(sent[d]) : sent'[d] = SubSeq(sent[d], 1, n)
        BY <1>1 DEF SentKept, SentKeptOf
      <3>2. sent[d] \in CleanTexts(w)
        BY DEF SentApart
      <3> QED
        BY <3>1, <3>2, CleanPiece
    <2> QED
      BY <2>1 DEF SentApart
  <1>2. CASE UNCHANGED sent
    BY <1>2 DEF SentApart
  <1>3. ASSUME NEW c \in Client, Received(c)
        PROVE  SentApart'
    <2>1. PICK o \in Client : \E k \in 1..Len(sent[o]) :
              sent' = [sent EXCEPT ![o] = SubSeq(@, k + 1, Len(@))]
      BY <1>3, Receiving
    <2>2. PICK k \in 1..Len(sent[o]) : sent' = [sent EXCEPT ![o] = SubSeq(@, k + 1, Len(@))]
      BY <2>1
    <2>3. ASSUME NEW w \in Client, NEW d \in Client \ {w}
          PROVE  sent'[d] \in CleanTexts(w)
      <3>1. sent[d] \in CleanTexts(w) /\ sent[d] \in Text
        BY <1>0 DEF SentApart
      <3>2. CASE d = o
        <4>1. k + 1 \in Nat \ {0} /\ Len(sent[d]) \in 0..Len(sent[d])
          BY <3>1 DEF Text
        <4>2. sent'[d] = SubSeq(sent[d], k + 1, Len(sent[d]))
          BY <1>0, <2>2, <3>2
        <4> QED
          BY <3>1, <4>1, <4>2, CleanPiece
      <3>3. CASE d # o
        BY <1>0, <2>2, <3>1, <3>3
      <3> QED
        BY <3>2, <3>3
    <2> QED
      BY <2>3 DEF SentApart
  <1> QED
    BY <1>1, <1>2, <1>3 DEF FileStep, Quiet, Written, Left, LeftAsIs, Ended
-----------------------------------------------------------------------------
(* The files are all among the texts P. *)
LEMMA FilesAppended ==
    ASSUME NEW P \in SUBSET Text, files \in Seq(P), NEW i \in 1..Len(files), NEW s,
           files[i] \o s \in P
    PROVE  Appended(i, s) \in Seq(P) /\ Len(Appended(i, s)) = Len(files)
  BY DEF Appended

LEMMA FilesKeptIn ==
    ASSUME NEW P, NEW fs \in Seq(P), path \in 0..Len(fs), FilesKept(fs)
    PROVE  files' \in Seq(P)
  <1>1. CASE path = 0
    BY <1>1 DEF FilesKept
  <1>2. CASE path # 0
    <2>1. fs[path] \in P
      BY <1>2
    <2>2. files' = <<fs[path]>>
      BY <1>2 DEF FilesKept
    <2> QED
      BY <2>1, <2>2
  <1> QED
    BY <1>1, <1>2

LEMMA FilesQuiet ==
    ASSUME NEW P, <<>> \in P, files \in Seq(P), Quiet
    PROVE  files' \in Seq(P)
  <1>1. CASE OpenAppend
    <2>1. files' = files \/ files' = Append(files, <<>>)
      BY <1>1 DEF OpenAppend
    <2> QED
      BY <2>1, AppendProperties
  <1>2. CASE UNCHANGED files
    BY <1>2
  <1> QED
    BY <1>1, <1>2 DEF Quiet

Writes(o, k) == Written(o, k) \/ Left(o, k)

LEMMA FilesWritten ==
    ASSUME FileInv, NEW P \in SUBSET Text, NEW Q, files \in Seq(P), P \subseteq Q, Q \in SUBSET Text,
           NEW o \in Owner, NEW k, Writes(o, k), \A t \in P : t \o Piece(TextOf(o), k) \in Q
    PROVE  files' \in Seq(Q)
  <1> DEFINE s == Piece(TextOf(o), k)
  <1>0. files \in Seq(Q) /\ path \in 0..Len(files)
    BY DEF FileInv, Data
  <1>1. \A i \in 1..Len(files) : files[i] \o s \in Q
    <2>1. \A i \in 1..Len(files) : files[i] \in P
      OBVIOUS
    <2> QED
      BY <2>1
  <1>2. /\ inode[o] \in 1..Len(files)
        /\ \/ files' = Appended(inode[o], s)
           \/ FilesKept(Appended(inode[o], s))
    BY DEF Writes, Written, Left
  <1>3. Appended(inode[o], s) \in Seq(Q) /\ Len(Appended(inode[o], s)) = Len(files)
    <2> HIDE DEF s
    <2> QED
      BY <1>0, <1>1, <1>2, FilesAppended
  <1> QED
    BY <1>0, <1>2, <1>3, FilesKeptIn
-----------------------------------------------------------------------------
(* The beginning of a client's packet, and the files that have one in one  *)
(* piece and nothing else of it.                                           *)
HasPiece(w, f, k) ==
    /\ PartOf(w, f) = PartOf(w, SubSeq(Packet(w), 1, k))
    /\ \E i \in 0..(Len(f) - k) : SubSeq(f, i + 1, i + k) = SubSeq(Packet(w), 1, k)
InOnePiece(w) == {f \in Text : \E k \in 0..Len(Packet(w)) : HasPiece(w, f, k)}
Beginnings(w) == {SubSeq(Packet(w), 1, k) : k \in 0..Len(Packet(w))}

LEMMA PacketText ==
    ASSUME NEW w \in Client
    PROVE  Packet(w) \in Text /\ Len(Packet(w)) \in Nat
  <1>1. Stream[w] \in Text /\ \E i \in 1..Len(Stream[w]) : Stream[w][i] = NL
    BY StreamText, StreamAssumption
  <1>2. NewlineAt(Stream[w]) \in SUBSET Nat /\ NewlineAt(Stream[w]) # {}
    BY <1>1 DEF NewlineAt
  <1>3. Min(NewlineAt(Stream[w])) \in 0..Len(Stream[w])
    <2>1. Min(NewlineAt(Stream[w])) \in NewlineAt(Stream[w])
      BY <1>2, MinValue
    <2> QED
      BY <1>1, <2>1 DEF NewlineAt
  <1>4. Packet(w) \in Text
    BY <1>1, <1>3, PieceText DEF Packet
  <1> QED
    BY <1>4 DEF Text

LEMMA PartEmpty ==
    ASSUME NEW w, NEW t \in CleanTexts(w)
    PROVE  PartOf(w, t) = <<>>
  BY OnlyAvoids DEF PartOf, CleanTexts, Private, Text

LEMMA PartConcat ==
    ASSUME NEW w, NEW s \in Text, NEW t \in Text
    PROVE  PartOf(w, s \o t) = PartOf(w, s) \o PartOf(w, t)
  BY OnlyConcat DEF PartOf, Text

LEMMA PartText ==
    ASSUME NEW w, NEW s \in Text
    PROVE  PartOf(w, s) \in Text
  BY OnlyTyped DEF PartOf, Text

LEMMA CleanIsOnePiece ==
    ASSUME NEW w \in Client
    PROVE  CleanTexts(w) \subseteq InOnePiece(w)
  <1>1. ASSUME NEW f \in CleanTexts(w)
        PROVE  f \in InOnePiece(w)
    <2>1. f \in Text /\ Len(f) \in Nat
      BY DEF CleanTexts, Text
    <2>2. SubSeq(Packet(w), 1, 0) = <<>> /\ SubSeq(f, 0 + 1, 0 + 0) = <<>>
      BY <2>1, PacketText DEF Text
    <2>3. PartOf(w, f) = PartOf(w, <<>>)
      BY CleanStamp, PartEmpty
    <2>4. HasPiece(w, f, 0)
      <3>1. 0 \in 0..(Len(f) - 0)
        BY <2>1
      <3> QED
        BY <2>2, <2>3, <3>1 DEF HasPiece
    <2>5. 0 \in 0..Len(Packet(w))
      BY PacketText
    <2> QED
      BY <2>1, <2>4, <2>5 DEF InOnePiece
  <1> QED
    BY <1>1

LEMMA OnePieceGrows ==
    ASSUME NEW w \in Client, NEW f \in InOnePiece(w), NEW s \in CleanTexts(w)
    PROVE  f \o s \in InOnePiece(w)
  <1>1. PICK k \in 0..Len(Packet(w)) : HasPiece(w, f, k)
    BY DEF InOnePiece
  <1>2. f \in Text /\ s \in Text /\ Len(f) \in Nat /\ Len(s) \in Nat /\ k \in Nat
    BY PacketText DEF InOnePiece, CleanTexts, Text
  <1>3. PICK i \in 0..(Len(f) - k) : SubSeq(f, i + 1, i + k) = SubSeq(Packet(w), 1, k)
    BY <1>1 DEF HasPiece
  <1>4. PartOf(w, f \o s) = PartOf(w, f)
    <2>1. PartOf(w, s) = <<>> /\ PartOf(w, f) \in Text
      BY <1>2, PartEmpty, PartText
    <2>2. PartOf(w, f) \o <<>> = PartOf(w, f)
      BY <2>1, ConcatEmptySeq DEF Text
    <2>3. PartOf(w, f \o s) = PartOf(w, f) \o PartOf(w, s)
      BY <1>2, PartConcat
    <2> QED
      BY <2>1, <2>2, <2>3, Zenon
  <1>5. SubSeq(f \o s, i + 1, i + k) = SubSeq(f, i + 1, i + k)
    <2>1. i \in Nat /\ i + k <= Len(f)
      BY <1>2
    <2> QED
      BY <1>2, <2>1, PieceOfLeft DEF Text
  <1>6. f \o s \in Text /\ i \in 0..(Len(f \o s) - k)
    <2>1. f \o s \in Text
      BY <1>2, PrefixText
    <2>2. Len(f \o s) = Len(f) + Len(s)
      BY <1>2, ConcatProperties DEF Text
    <2> QED
      BY <1>2, <2>1, <2>2
  <1>7. HasPiece(w, f \o s, k)
    BY <1>1, <1>3, <1>4, <1>5, <1>6, Zenon DEF HasPiece
  <1> QED
    BY <1>6, <1>7 DEF InOnePiece

LEMMA OnePieceArrives ==
    ASSUME NEW w \in Client, NEW f \in CleanTexts(w), NEW p \in Beginnings(w)
    PROVE  f \o p \in InOnePiece(w)
  <1>1. PICK k \in 0..Len(Packet(w)) : p = SubSeq(Packet(w), 1, k)
    BY DEF Beginnings
  <1>2. /\ f \in Text /\ p \in Text /\ Len(f) \in Nat /\ Len(p) = k /\ k \in Nat
    <2>1. Packet(w) \in Text /\ Len(Packet(w)) \in Nat
      BY PacketText
    <2>2. p \in Text /\ Len(p) = k
      BY <1>1, <2>1, PieceOfPiece DEF Text
    <2> QED
      BY <2>1, <2>2 DEF CleanTexts, Text
  <1>3. PartOf(w, f \o p) = PartOf(w, p)
    <2>1. PartOf(w, f) = <<>> /\ PartOf(w, p) \in Text
      BY <1>2, PartEmpty, PartText
    <2>2. <<>> \o PartOf(w, p) = PartOf(w, p)
      BY <2>1, ConcatEmptySeq DEF Text
    <2>3. PartOf(w, f \o p) = PartOf(w, f) \o PartOf(w, p)
      BY <1>2, PartConcat
    <2> QED
      BY <2>1, <2>2, <2>3, Zenon
  <1>4. SubSeq(f \o p, Len(f) + 1, Len(f) + k) = p
    BY <1>2, PieceOfRight DEF Text
  <1>5. f \o p \in Text /\ Len(f) \in 0..(Len(f \o p) - k)
    <2>1. f \o p \in Text
      BY <1>2, PrefixText
    <2>2. Len(f \o p) = Len(f) + k
      BY <1>2, ConcatProperties DEF Text
    <2> QED
      BY <1>2, <2>1, <2>2
  <1>6. HasPiece(w, f \o p, k)
    BY <1>1, <1>3, <1>4, <1>5, Zenon DEF HasPiece
  <1> QED
    BY <1>5, <1>6 DEF InOnePiece
-----------------------------------------------------------------------------
(* The clients whose data is to arrive at once send no more than one       *)
(* recvfrom takes.                                                         *)
FitsAtOnce == \A w \in Client \ Split : Len(Stream[w]) <= BUFFER_SIZE

(* What w has sent and nobody has received yet is the beginning of its     *)
(* data: it may have hung up before the rest.                              *)
BeginningUnderWay(w) == \E n \in 0..Len(Stream[w]) : sent[w] = SubSeq(Stream[w], 1, n)

(* The threads but those in D have nothing of w to write. *)
OthersClean(w, D) == \A d \in Client \ D : Carrying(d) => self[d].newString \in CleanTexts(w)

(* Of the files fs, number i has the beginning p of the packet at its end, *)
(* and none has anything else of w.                                        *)
FilesEnd(w, fs, i, p) ==
    /\ i \in 1..Len(fs) /\ fs \in Seq(Text)
    /\ \E f \in CleanTexts(w) : fs[i] = f \o p
    /\ \A j \in 1..Len(fs) : j # i => fs[j] \in CleanTexts(w)

(* Thread d, which has the mutex, has written p and has q still to write.  *)
HasWritten(d, w, p, q) ==
    /\ p \o q \in Beginnings(w)
    /\ pc[d] = "write" /\ self[d].newString = q
    /\ FilesEnd(w, files, inode[d], p) /\ OthersClean(w, {d})

(* Nobody has received anything of w, or it does not matter any more; one  *)
(* thread has it to write; it has written a part; it is in a file.         *)
NotYet(w)    == files \in Seq(CleanTexts(w)) /\ OthersClean(w, {})
OneHasIt(w)  == /\ sent[w] = <<>> /\ files \in Seq(CleanTexts(w))
                /\ \E d \in Client : /\ Carrying(d) /\ self[d].newString \in Beginnings(w)
                                     /\ OthersClean(w, {d})
InPart(w)    == sent[w] = <<>> /\ \E d \in Client : \E p, q \in Text : HasWritten(d, w, p, q)
IsWritten(w) == sent[w] = <<>> /\ files \in Seq(InOnePiece(w)) /\ OthersClean(w, {})

Staged(w) == BeginningUnderWay(w) /\ (NotYet(w) \/ OneHasIt(w) \/ InPart(w) \/ IsWritten(w))

LEMMA StagedInit ==
    ASSUME FileInit, NEW w \in Client
    PROVE  Staged(w)
  <1>1. Stream[w] \in Text /\ sent[w] = Stream[w] /\ files = <<>> /\ \A d \in Client : ~Carrying(d)
    BY StreamText DEF FileInit, Init, Carrying
  <1>2. BeginningUnderWay(w)
    <2>1. Len(Stream[w]) \in 0..Len(Stream[w]) /\ Stream[w] = SubSeq(Stream[w], 1, Len(Stream[w]))
      BY <1>1 DEF Text
    <2> QED
      BY <1>1, <2>1 DEF BeginningUnderWay
  <1>3. NotYet(w)
    <2>1. files \in Seq(CleanTexts(w))
      BY <1>1
    <2> QED
      BY <1>1, <2>1 DEF NotYet, OthersClean
  <1> QED
    BY <1>2, <1>3 DEF Staged

(* A step that receives nothing leaves the beginning of what was under way. *)
LEMMA UnderWayKept ==
    ASSUME FileInv, NEW w \in Client, SentKeptOf(w)
    PROVE  /\ sent[w] = <<>> => sent'[w] = <<>>
           /\ BeginningUnderWay(w) => BeginningUnderWay(w)'
  <1>0. sent[w] \in Text /\ Stream[w] \in Text
    BY StreamText DEF FileInv, Data
  <1>1. PICK k \in 0..Len(sent[w]) : sent'[w] = SubSeq(sent[w], 1, k)
    BY DEF SentKeptOf
  <1>2. ASSUME sent[w] = <<>>
        PROVE  sent'[w] = <<>>
    <2>1. k \in 0..0 /\ sent'[w] = SubSeq(<<>>, 1, k)
      BY <1>1, <1>2
    <2> QED
      BY <2>1
  <1>3. ASSUME BeginningUnderWay(w)
        PROVE  BeginningUnderWay(w)'
    <2>1. PICK n \in 0..Len(Stream[w]) : sent[w] = SubSeq(Stream[w], 1, n)
      BY <1>3 DEF BeginningUnderWay
    <2>2. Stream[w] \in Seq(Byte)
      BY <1>0 DEF Text
    <2>3. Len(sent[w]) = n
      BY <2>1, <2>2, PieceOfPiece
    <2>4. k \in 0..n /\ k \in 0..Len(Stream[w])
      BY <2>2, <2>3
    <2>5. SubSeq(SubSeq(Stream[w], 1, n), 1, k) = SubSeq(Stream[w], 1, k)
      BY <2>2, <2>4, PieceOfPiece
    <2>6. sent'[w] = SubSeq(Stream[w], 1, k)
      BY <1>1, <2>1, <2>5
    <2> QED
      BY <2>4, <2>6 DEF BeginningUnderWay
  <1> QED
    BY <1>2, <1>3

(* What is extracted of the beginning of a client's data is the beginning  *)
(* of its packet.                                                          *)
LEMMA BeginningExtracted ==
    ASSUME NEW w \in Client, NEW n \in 0..Len(Stream[w])
    PROVE  extract_data_up_to_newline(SubSeq(Stream[w], 1, n)) \in Beginnings(w)
  <1> DEFINE s == Stream[w]
             buf == SubSeq(s, 1, n)
             m == Min(NewlineAt(s))
  <1>1. s \in Text /\ s \in Seq(Byte) /\ Len(s) \in Nat /\ \E i \in 1..Len(s) : s[i] = NL
    BY StreamText, StreamAssumption DEF Text
  <1>2. m \in NewlineAt(s) /\ \A i \in NewlineAt(s) : m <= i
    <2>1. NewlineAt(s) \in SUBSET Nat /\ NewlineAt(s) # {}
      BY <1>1 DEF NewlineAt
    <2> HIDE DEF s
    <2> QED
      BY <2>1, MinValue
  <1>3. m \in 1..Len(s)
    BY <1>2 DEF NewlineAt
  <1>4. Packet(w) = SubSeq(s, 1, m) /\ Len(Packet(w)) = m
    <2>1. Packet(w) = SubSeq(s, 1, m)
      BY DEF Packet
    <2> HIDE DEF s, m
    <2> QED
      BY <1>1, <1>3, <2>1, PieceOfPiece
  <1>5. buf \in Seq(Byte) /\ Len(buf) = n /\ \A i \in 1..n : buf[i] = s[i]
    <2> HIDE DEF s
    <2> QED
      BY <1>1, SubSeqProperties DEF s
  <1>6. NewlineAt(buf) = {i \in NewlineAt(s) : i <= n}
    <2> HIDE DEF buf
    <2> QED
      BY <1>5 DEF NewlineAt
  <1>7. CASE m <= n
    <2>1. m \in NewlineAt(buf) /\ NewlineAt(buf) \in SUBSET Nat
      <3> HIDE DEF buf, m
      <3> QED
        BY <1>2, <1>6, <1>7 DEF NewlineAt
    <2>2. Min(NewlineAt(buf)) \in NewlineAt(buf) /\ Min(NewlineAt(buf)) <= m
      <3> HIDE DEF buf, m
      <3> QED
        BY <2>1, MinValue
    <2>3. Min(NewlineAt(buf)) = m
      <3> HIDE DEF buf, m
      <3> QED
        BY <1>2, <1>6, <2>2 DEF NewlineAt
    <2>4. extract_data_up_to_newline(buf) = SubSeq(buf, 1, m)
      <3> HIDE DEF buf, m
      <3> QED
        BY <2>1, <2>3 DEF extract_data_up_to_newline, new_line_found
    <2>5. SubSeq(buf, 1, m) = SubSeq(s, 1, m)
      <3> HIDE DEF m, s
      <3>1. m \in 0..n /\ n \in 0..Len(s)
        BY <1>3, <1>7 DEF s
      <3> QED
        BY <1>1, <3>1, PieceOfPiece
    <2>6. m \in 0..Len(Packet(w)) /\ SubSeq(Packet(w), 1, m) = SubSeq(s, 1, m)
      <3> HIDE DEF m, s
      <3>1. m \in 0..m /\ m \in 0..Len(s)
        BY <1>3
      <3> QED
        BY <1>1, <1>4, <3>1, PieceOfPiece
    <2>7. extract_data_up_to_newline(buf) = SubSeq(Packet(w), 1, m)
      BY <2>4, <2>5, <2>6, Zenon
    <2> HIDE DEF buf, m
    <2> QED
      BY <2>6, <2>7 DEF Beginnings, buf
  <1>8. CASE n < m
    <2>1. NewlineAt(buf) = {}
      <3> HIDE DEF buf, m
      <3> QED
        BY <1>2, <1>6, <1>8 DEF NewlineAt
    <2>2. extract_data_up_to_newline(buf) = buf
      BY <2>1 DEF extract_data_up_to_newline, new_line_found
    <2>3. n \in 0..Len(Packet(w)) /\ SubSeq(Packet(w), 1, n) = buf
      <3> HIDE DEF m, s
      <3>1. n \in 0..m /\ m \in 0..Len(s)
        BY <1>3, <1>8
      <3>2. SubSeq(SubSeq(s, 1, m), 1, n) = SubSeq(s, 1, n)
        BY <1>1, <3>1, PieceOfPiece
      <3> QED
        BY <1>4, <3>1, <3>2
    <2> HIDE DEF buf
    <2> QED
      BY <2>2, <2>3 DEF Beginnings, buf
  <1> QED
    BY <1>3, <1>7, <1>8
-----------------------------------------------------------------------------
(* What a thread or the timer writes is clean, if the thread is not one    *)
(* that has the packet.                                                    *)
LEMMA WriterClean ==
    ASSUME FileInv, NEW w \in Client, NEW D, OthersClean(w, D), NEW o \in Owner \ D,
           NEW k \in Pieces(TextOf(o)), Writes(o, k)
    PROVE  Piece(TextOf(o), k) \in CleanTexts(w) /\ Rest(TextOf(o), k) \in CleanTexts(w)
  <1>1. CASE o = Timer
    BY <1>1, CleanStamp, CleanDivided DEF TextOf
  <1>2. CASE o # Timer
    <2>1. o \in Client /\ pc[o] = "write"
      BY <1>2 DEF Owner, Writes, Written, Left
    <2>2. TextOf(o) \in CleanTexts(w)
      BY <1>2, <2>1 DEF TextOf, OthersClean, Carrying
    <2> QED
      BY <2>2, CleanDivided
  <1> QED
    BY <1>1, <1>2

(* The step leaves the threads but those in D without anything of w. *)
LEMMA OthersStayClean ==
    ASSUME FileInv, NEW w \in Client, NEW D, OthersClean(w, D),
           \/ CarriersKept \/ Ended
           \/ \E o \in Owner : \E k \in Pieces(TextOf(o)) : Written(o, k)
    PROVE  OthersClean(w, D)'
  <1>1. CASE CarriersKept
    BY <1>1 DEF CarriersKept, Carried, OthersClean
  <1>2. CASE Ended
    BY <1>2 DEF Ended, OthersClean, Carrying
  <1>3. ASSUME NEW o \in Owner, NEW k \in Pieces(TextOf(o)), Written(o, k)
        PROVE  OthersClean(w, D)'
    <2>1. ASSUME NEW d \in Client \ D, Carrying(d)'
          PROVE  self'[d].newString \in CleanTexts(w)
      <3>1. CASE d = o
        <4>1. self'[d].newString = Rest(TextOf(o), k)
          BY <1>3, <2>1, <3>1 DEF Written
        <4>2. Writes(o, k) /\ o \in Owner \ D
          BY <1>3, <3>1 DEF Writes
        <4> QED
          BY <4>1, <4>2, WriterClean
      <3>2. CASE d # o
        BY <1>3, <2>1, <3>2 DEF Written, Carried, OthersClean
      <3> QED
        BY <3>1, <3>2
    <2> QED
      BY <2>1 DEF OthersClean
  <1> QED
    BY <1>1, <1>2, <1>3

LEMMA EndedKeepsSent ==
    ASSUME FileInv, Ended
    PROVE  SentKept
  BY SentSame DEF Ended

(* The files stay without anything of w, or with one piece. *)
LEMMA CleanStay ==
    ASSUME FileInv, NEW w \in Client, files \in Seq(CleanTexts(w)),
           \/ Quiet \/ LeftAsIs
           \/ \E o \in Owner : \E k \in Pieces(TextOf(o)) :
                 Writes(o, k) /\ Piece(TextOf(o), k) \in CleanTexts(w)
    PROVE  files' \in Seq(CleanTexts(w))
  <1>0. <<>> \in CleanTexts(w) /\ CleanTexts(w) \in SUBSET Text /\ path \in 0..Len(files)
    BY CleanStamp DEF CleanTexts, FileInv, Data
  <1>1. CASE Quiet
    BY <1>0, <1>1, FilesQuiet
  <1>2. CASE LeftAsIs
    BY <1>0, <1>2, FilesKeptIn DEF LeftAsIs
  <1>3. ASSUME NEW o \in Owner, NEW k \in Pieces(TextOf(o)), Writes(o, k),
               Piece(TextOf(o), k) \in CleanTexts(w)
        PROVE  files' \in Seq(CleanTexts(w))
    <2>1. \A t \in CleanTexts(w) : t \o Piece(TextOf(o), k) \in CleanTexts(w)
      BY <1>3, CleanConcat
    <2> QED
      BY <1>0, <1>3, <2>1, FilesWritten
  <1> QED
    BY <1>1, <1>2, <1>3

LEMMA OnePieceStay ==
    ASSUME FileInv, NEW w \in Client, files \in Seq(InOnePiece(w)),
           \/ Quiet \/ LeftAsIs
           \/ \E o \in Owner : \E k \in Pieces(TextOf(o)) :
                 Writes(o, k) /\ Piece(TextOf(o), k) \in CleanTexts(w)
    PROVE  files' \in Seq(InOnePiece(w))
  <1>0. <<>> \in InOnePiece(w) /\ InOnePiece(w) \in SUBSET Text /\ path \in 0..Len(files)
    BY CleanStamp, CleanIsOnePiece DEF InOnePiece, FileInv, Data
  <1>1. CASE Quiet
    BY <1>0, <1>1, FilesQuiet
  <1>2. CASE LeftAsIs
    BY <1>0, <1>2, FilesKeptIn DEF LeftAsIs
  <1>3. ASSUME NEW o \in Owner, NEW k \in Pieces(TextOf(o)), Writes(o, k),
               Piece(TextOf(o), k) \in CleanTexts(w)
        PROVE  files' \in Seq(InOnePiece(w))
    <2>1. \A t \in InOnePiece(w) : t \o Piece(TextOf(o), k) \in InOnePiece(w)
      BY <1>3, OnePieceGrows
    <2> QED
      BY <1>0, <1>3, <2>1, FilesWritten
  <1> QED
    BY <1>1, <1>2, <1>3

(* What begins the beginning of a packet is one. *)
LEMMA BeginningOf ==
    ASSUME NEW w \in Client, NEW p \in Text, NEW q \in Text, p \o q \in Beginnings(w)
    PROVE  p \in Beginnings(w)
  <1>1. PICK k \in 0..Len(Packet(w)) : p \o q = SubSeq(Packet(w), 1, k)
    BY DEF Beginnings
  <1>2. Packet(w) \in Seq(Byte) /\ Len(Packet(w)) \in Nat /\ p \in Seq(Byte) /\ q \in Seq(Byte)
        /\ Len(p) \in Nat /\ Len(q) \in Nat
    BY PacketText DEF Text
  <1>3. Len(p \o q) = Len(p) + Len(q) /\ Len(SubSeq(Packet(w), 1, k)) = k
    BY <1>2, ConcatProperties, PieceOfPiece
  <1>4. Len(p) \in 0..k /\ Len(p) \in 0..Len(Packet(w))
    BY <1>1, <1>2, <1>3
  <1>5. p = SubSeq(p \o q, 1, Len(p))
    <2> DEFINE n == Len(p)
    <2>1. 0 + n <= Len(p) /\ n \in Nat /\ 0 \in Nat
      BY <1>2
    <2>2. SubSeq(p \o q, 0 + 1, 0 + n) = SubSeq(p, 0 + 1, 0 + n)
      <3> HIDE DEF n
      <3> QED
        BY <1>2, <2>1, PieceOfLeft
    <2>3. 0 + 1 = 1 /\ 0 + n = n
      BY <1>2
    <2>4. SubSeq(p, 1, n) = p
      BY <1>2
    <2> QED
      BY <2>2, <2>3, <2>4
  <1>6. SubSeq(SubSeq(Packet(w), 1, k), 1, Len(p)) = SubSeq(Packet(w), 1, Len(p))
    BY <1>2, <1>4, PieceOfPiece
  <1>7. p = SubSeq(Packet(w), 1, Len(p))
    BY <1>1, <1>5, <1>6, Zenon
  <1> DEFINE n == Len(p)
  <1>8. n \in 0..Len(Packet(w)) /\ p = SubSeq(Packet(w), 1, n)
    BY <1>4, <1>7
  <1> HIDE DEF n
  <1> QED
    BY <1>8, Zenon DEF Beginnings

LEMMA EndIsOnePiece ==
    ASSUME NEW w \in Client, NEW fs, NEW i, NEW p \in Beginnings(w), FilesEnd(w, fs, i, p)
    PROVE  fs \in Seq(InOnePiece(w))
  <1>1. fs \in Seq(Text)
    BY DEF FilesEnd
  <1>2. ASSUME NEW j \in 1..Len(fs)
        PROVE  fs[j] \in InOnePiece(w)
    <2>1. CASE j = i
      <3>1. PICK f \in CleanTexts(w) : fs[i] = f \o p
        BY DEF FilesEnd
      <3> QED
        BY <2>1, <3>1, OnePieceArrives
    <2>2. CASE j # i
      BY <2>2, CleanIsOnePiece DEF FilesEnd
    <2> QED
      BY <2>1, <2>2
  <1> QED
    BY <1>1, <1>2

(* The next piece is added to the one that is there. *)
LEMMA EndGrows ==
    ASSUME NEW w \in Client, NEW i, NEW p \in Text, NEW x \in Text, FilesEnd(w, files, i, p)
    PROVE  FilesEnd(w, Appended(i, x), i, p \o x)
  <1> DEFINE fs == Appended(i, x)
  <1>1. PICK f \in CleanTexts(w) : files[i] = f \o p
    BY DEF FilesEnd
  <1>2. i \in 1..Len(files) /\ files \in Seq(Text) /\ f \in Text
    BY DEF FilesEnd, CleanTexts
  <1>3. files[i] \o x = f \o (p \o x) /\ files[i] \o x \in Text
    <2>1. f \o p \in Text
      BY <1>2, PrefixText
    <2>2. Cat(Cat(f, p), x) = Cat(f, Cat(p, x))
      BY <1>2, CatAssociative DEF Text
    <2>3. (f \o p) \o x \in Text
      BY <2>1, PrefixText
    <2> QED
      BY <1>1, <2>2, <2>3, Zenon DEF Cat
  <1>4. /\ fs \in Seq(Text) /\ Len(fs) = Len(files) /\ fs[i] = files[i] \o x
        /\ \A j \in 1..Len(files) : j # i => fs[j] = files[j]
    BY <1>2, <1>3 DEF Appended
  <1> HIDE DEF fs
  <1>5. fs[i] = f \o (p \o x)
    BY <1>3, <1>4, Zenon
  <1>6. \A j \in 1..Len(fs) : j # i => fs[j] \in CleanTexts(w)
    BY <1>4 DEF FilesEnd
  <1>7. FilesEnd(w, fs, i, p \o x)
    BY <1>2, <1>4, <1>5, <1>6, Zenon DEF FilesEnd
  <1> QED
    BY <1>7 DEF fs

LEMMA EndStays ==
    ASSUME NEW w \in Client, NEW i, NEW p, FilesEnd(w, files, i, p), Quiet
    PROVE  FilesEnd(w, files', i, p)
  <1>1. CASE files' = files
    BY <1>1
  <1>2. CASE files' = Append(files, <<>>)
    <2>1. <<>> \in CleanTexts(w) /\ <<>> \in Text /\ files \in Seq(Text) /\ i \in 1..Len(files)
      BY CleanStamp DEF FilesEnd, Text
    <2>2. /\ files' \in Seq(Text) /\ Len(files') = Len(files) + 1 /\ files'[Len(files) + 1] = <<>>
          /\ \A j \in 1..Len(files) : files'[j] = files[j]
      <3> HIDE DEF Text
      <3> QED
        BY <1>2, <2>1, AppendProperties
    <2>3. \A j \in 1..Len(files') : j # i => files'[j] \in CleanTexts(w)
      BY <2>1, <2>2 DEF FilesEnd
    <2> QED
      BY <2>1, <2>2, <2>3 DEF FilesEnd
  <1> QED
    BY <1>1, <1>2 DEF Quiet, OpenAppend

(* The thread that has the packet writes a piece of it. *)
LEMMA PartWritten ==
    ASSUME FileInv, NEW w \in Client, NEW d \in Client, NEW p \in Text, NEW q \in Text,
           HasWritten(d, w, p, q), sent'[w] = <<>>, NEW k \in Pieces(TextOf(d)), Writes(d, k)
    PROVE  InPart(w)' \/ IsWritten(w)'
  <1> DEFINE x == Piece(q, k)
             y == Rest(q, k)
             fs == Appended(inode[d], x)
  <1>0. TextOf(d) = q /\ k \in Pieces(q) /\ d \in Owner
    BY DEF HasWritten, TextOf, Owner
  <1>1. x \in Text /\ y \in Text /\ q = x \o y
    BY <1>0, DividedText
  <1> HIDE DEF x, y
  <1>2. p \o x \in Text /\ (p \o x) \o y \in Beginnings(w)
    <2>1. Cat(Cat(p, x), y) = Cat(p, Cat(x, y))
      BY <1>1, CatAssociative DEF Text
    <2>2. (p \o x) \o y = p \o q
      BY <1>1, <2>1, Zenon DEF Cat
    <2> QED
      BY <1>1, <2>2, PrefixText, Zenon DEF HasWritten
  <1>3. FilesEnd(w, fs, inode[d], p \o x)
    BY <1>1, EndGrows DEF HasWritten
  <1>4. fs \in Seq(InOnePiece(w))
    BY <1>1, <1>2, <1>3, BeginningOf, EndIsOnePiece
  <1>5. OthersClean(w, {d})'
    BY <1>0, OthersStayClean DEF HasWritten, Writes, Left
  <1>6. ~Carrying(d)' => OthersClean(w, {})'
    BY <1>5 DEF OthersClean
  <1>7. CASE Written(d, k)
    <2>1. files' = fs /\ inode' = inode
      BY <1>0, <1>7 DEF Written, x
    <2>2. CASE Carrying(d)'
      <3>1. pc'[d] = "write" /\ self'[d].newString = y
        BY <1>0, <1>7, <2>2 DEF Written, y
      <3> HIDE DEF fs
      <3>2. HasWritten(d, w, p \o x, y)'
        BY <1>2, <1>3, <1>5, <2>1, <3>1, Zenon DEF HasWritten, Beginnings
      <3> QED
        BY <1>1, <1>2, <3>2 DEF InPart
    <2>3. CASE ~Carrying(d)'
      BY <1>4, <1>6, <2>1, <2>3 DEF IsWritten
    <2> QED
      BY <2>2, <2>3
  <1>8. CASE Left(d, k)
    <2>1. FilesKept(fs) /\ ~Carrying(d)'
      BY <1>0, <1>8 DEF Left, Ended, Carrying, x
    <2>2. Len(fs) = Len(files) /\ path \in 0..Len(files)
      BY <1>3 DEF Appended, FileInv, Data
    <2> HIDE DEF fs
    <2>3. files' \in Seq(InOnePiece(w))
      BY <1>4, <2>1, <2>2, FilesKeptIn
    <2> QED
      BY <1>6, <2>1, <2>3 DEF IsWritten
  <1> QED
    BY <1>7, <1>8 DEF Writes

(* A step that receives nothing. *)
LEMMA StagedWritten ==
    ASSUME FileInv, NEW w \in Client, Staged(w),
           \/ Quiet \/ LeftAsIs
           \/ \E o \in Owner : \E k \in Pieces(TextOf(o)) : Writes(o, k)
    PROVE  Staged(w)'
  <1>0. /\ SentKept
        /\ \/ CarriersKept \/ Ended
           \/ \E o \in Owner : \E k \in Pieces(TextOf(o)) : Written(o, k)
    BY EndedKeepsSent DEF Quiet, LeftAsIs, Writes, Written, Left
  <1>1. BeginningUnderWay(w)' /\ (sent[w] = <<>> => sent'[w] = <<>>)
    BY <1>0, UnderWayKept DEF Staged, SentKept
  <1>2. ASSUME NEW D, OthersClean(w, D)
        PROVE  OthersClean(w, D)'
    BY <1>0, <1>2, OthersStayClean
  <1>writers. ASSUME NEW D, OthersClean(w, D),
                     ~(\E o \in Owner \cap D : \E k \in Pieces(TextOf(o)) : Writes(o, k))
              PROVE  \/ Quiet \/ LeftAsIs
                     \/ \E o \in Owner : \E k \in Pieces(TextOf(o)) :
                            Writes(o, k) /\ Piece(TextOf(o), k) \in CleanTexts(w)
    BY <1>writers, WriterClean
  <1>3. CASE NotYet(w)
    <2>1. files' \in Seq(CleanTexts(w))
      BY <1>3, <1>writers, CleanStay DEF NotYet
    <2> QED
      BY <1>1, <1>2, <1>3, <2>1 DEF Staged, NotYet
  <1>4. CASE IsWritten(w)
    <2>1. files' \in Seq(InOnePiece(w))
      BY <1>4, <1>writers, OnePieceStay DEF IsWritten
    <2> QED
      BY <1>1, <1>2, <1>4, <2>1 DEF Staged, IsWritten
  <1>5. CASE OneHasIt(w)
    <2>1. PICK d \in Client : /\ Carrying(d) /\ self[d].newString \in Beginnings(w)
                              /\ OthersClean(w, {d})
      BY <1>5 DEF OneHasIt
    <2>2. OthersClean(w, {d})'
      BY <1>2, <2>1
    <2>3. ~Carrying(d)' => OthersClean(w, {})'
      BY <2>2 DEF OthersClean
    <2>4. ASSUME NEW k \in Pieces(TextOf(d)), Writes(d, k)
          PROVE  InPart(w)' \/ IsWritten(w)'
      <3> DEFINE q == self[d].newString
      <3>1. pc[d] = "write" /\ inode[d] \in 1..Len(files)
        BY <2>4 DEF Writes, Written, Left
      <3>2. q \in Text /\ <<>> \in Text /\ files \in Seq(Text)
        <4>1. self[d] \in Locals(self[d].args) /\ files \in Seq(Text)
          BY <3>1 DEF FileInv, Data, LocalsTyped, Working
        <4>2. <<>> \in Text
          BY DEF Text
        <4> QED
          BY <4>1, <4>2 DEF Locals
      <3>3. \A j \in 1..Len(files) : files[j] \in CleanTexts(w)
        BY <1>5 DEF OneHasIt
      <3>4. files[inode[d]] = files[inode[d]] \o <<>> /\ <<>> \o q = q
        <4>1. files[inode[d]] \in Text
          BY <3>1, <3>2
        <4> QED
          BY <3>2, <4>1, ConcatEmptySeq DEF Text
      <3> HIDE DEF q
      <3>5. FilesEnd(w, files, inode[d], <<>>)
        BY <3>1, <3>2, <3>3, <3>4, Zenon DEF FilesEnd
      <3>6. HasWritten(d, w, <<>>, q)
        BY <2>1, <3>1, <3>4, <3>5, Zenon DEF HasWritten, q
      <3> QED
        BY <1>1, <1>5, <2>4, <3>2, <3>6, PartWritten DEF OneHasIt
    <2>5. CASE \A k \in Pieces(TextOf(d)) : ~Writes(d, k)
      <3>1. files' \in Seq(CleanTexts(w))
        BY <1>5, <1>writers, <2>1, <2>5, CleanStay DEF OneHasIt
      <3>2. CASE Carrying(d)'
        <4>1. self'[d].newString = self[d].newString
          <5>1. CASE CarriersKept \/ Ended
            BY <3>2, <5>1 DEF CarriersKept, Carried, Ended, Carrying
          <5>2. ASSUME NEW o \in Owner, NEW k \in Pieces(TextOf(o)), Written(o, k)
                PROVE  self'[d].newString = self[d].newString
            BY <2>5, <3>2, <5>2 DEF Writes, Written, Carried
          <5> QED
            BY <1>0, <5>1, <5>2
        <4>2. self'[d].newString \in Beginnings(w)'
          BY <2>1, <4>1 DEF Beginnings
        <4> QED
          BY <1>1, <1>5, <2>2, <3>1, <3>2, <4>2 DEF Staged, OneHasIt
      <3>3. CASE ~Carrying(d)'
        BY <1>1, <2>3, <3>1, <3>3 DEF Staged, NotYet
      <3> QED
        BY <3>2, <3>3
    <2> QED
      BY <1>1, <2>4, <2>5 DEF Staged
  <1>6. CASE InPart(w)
    <2>1. PICK d \in Client : \E p, q \in Text : HasWritten(d, w, p, q)
      BY <1>6 DEF InPart
    <2>2. PICK p, q \in Text : HasWritten(d, w, p, q)
      BY <2>1
    <2>3. pc[d] = "write" /\ file_mutex = d /\ sent'[w] = <<>>
      BY <1>1, <1>6, <2>2 DEF HasWritten, InPart, FileInv, Control, OneWriterAtATime, Locking, Streaming
    <2>4. OthersClean(w, {d})'
      BY <1>2, <2>2 DEF HasWritten
    <2>5. ~Carrying(d)' => OthersClean(w, {})'
      BY <2>4 DEF OthersClean
    <2>6. files \in Seq(InOnePiece(w))
      BY <2>2, BeginningOf, EndIsOnePiece DEF HasWritten
    <2>7. CASE Quiet
      <3>1. FilesEnd(w, files', inode[d], p)
        BY <2>2, <2>7, EndStays DEF HasWritten
      <3>2. CASE Carrying(d)'
        <4>1. pc'[d] = "write" /\ inode'[d] = inode[d] /\ self'[d].newString = q
          BY <2>2, <2>3, <2>7, <3>2 DEF Quiet, CarriersKept, Carried, HasWritten
        <4>2. HasWritten(d, w, p, q)'
          BY <2>2, <2>4, <3>1, <4>1, Zenon DEF HasWritten, Beginnings
        <4> QED
          BY <1>1, <2>3, <4>2 DEF Staged, InPart
      <3>3. CASE ~Carrying(d)'
        <4>1. files' \in Seq(InOnePiece(w))
          BY <2>2, <3>1, BeginningOf, EndIsOnePiece DEF HasWritten
        <4> QED
          BY <1>1, <2>3, <2>5, <3>3, <4>1 DEF Staged, IsWritten
      <3> QED
        BY <3>2, <3>3
    <2>8. CASE LeftAsIs
      <3>1. files' \in Seq(InOnePiece(w))
        BY <2>6, <2>8, OnePieceStay
      <3>2. ~Carrying(d)'
        BY <2>8 DEF LeftAsIs, Ended, Carrying
      <3> QED
        BY <1>1, <2>3, <2>5, <3>1, <3>2 DEF Staged, IsWritten
    <2>9. ASSUME NEW o \in Owner, NEW k \in Pieces(TextOf(o)), Writes(o, k)
          PROVE  Staged(w)'
      <3>1. o = d
        BY <2>3, <2>9 DEF Writes, Written, Left
      <3> QED
        BY <1>1, <2>2, <2>3, <2>9, <3>1, PartWritten DEF Staged
    <2> QED
      BY <2>7, <2>8, <2>9
  <1> QED
    BY <1>3, <1>4, <1>5, <1>6 DEF Staged

(* A thread receives something. *)
LEMMA StagedReceived ==
    ASSUME FitsAtOnce, FileInv, SentApart, NEW w \in Client \ Split, Staged(w),
           NEW c \in Client, Received(c), UNCHANGED <<files, path, inode>>
    PROVE  Staged(w)'
  <1>0. PICK o \in Client : \E k \in 1..Len(sent[o]) :
              /\ o \notin Split => k = Available(o)
              /\ pc[c] = "receiving" /\ pc' = [pc EXCEPT ![c] = "lock"]
              /\ sent' = [sent EXCEPT ![o] = SubSeq(@, k + 1, Len(@))]
              /\ self'[c].newString = extract_data_up_to_newline(SubSeq(sent[o], 1, k))
              /\ \A d \in Client : d # c => self'[d] = self[d]
    BY Receiving
  <1>1. PICK k \in 1..Len(sent[o]) :
              /\ o \notin Split => k = Available(o)
              /\ pc[c] = "receiving" /\ pc' = [pc EXCEPT ![c] = "lock"]
              /\ sent' = [sent EXCEPT ![o] = SubSeq(@, k + 1, Len(@))]
              /\ self'[c].newString = extract_data_up_to_newline(SubSeq(sent[o], 1, k))
              /\ \A d \in Client : d # c => self'[d] = self[d]
    BY <1>0
  <1>2. /\ pc \in [Client -> Steps] /\ sent \in [Client -> Text]
        /\ sent[o] \in Text /\ Len(sent[o]) \in Nat
    BY DEF FileInv, Control, ControlTyped, Data, Text
  <1>3. /\ ~Carrying(c) /\ Carrying(c)'
        /\ \A d \in Client : d # c => (Carrying(d)' <=> Carrying(d)) /\ self'[d] = self[d]
    BY <1>1, <1>2 DEF Carrying
  <1>4. ASSUME NEW D, OthersClean(w, D), self'[c].newString \in CleanTexts(w) \/ c \in D
        PROVE  OthersClean(w, D)'
    <2>1. ASSUME NEW d \in Client \ D, Carrying(d)'
          PROVE  self'[d].newString \in CleanTexts(w)
      BY <1>3, <1>4, <2>1 DEF OthersClean
    <2> QED
      BY <2>1 DEF OthersClean
  <1>5. CASE o # w
    <2>1. sent'[w] = sent[w]
      BY <1>1, <1>2, <1>5
    <2>2. self'[c].newString \in CleanTexts(w)
      <3>1. sent[o] \in CleanTexts(w)
        BY <1>5 DEF SentApart
      <3>2. SubSeq(sent[o], 1, k) \in CleanTexts(w)
        <4>1. k \in 0..Len(sent[o])
          BY <1>2
        <4> QED
          BY <3>1, <4>1, CleanPiece
      <3> QED
        BY <1>1, <3>2, CleanExtract
    <2>3. \A D : OthersClean(w, D) => OthersClean(w, D)'
      BY <1>4, <2>2
    <2>4. BeginningUnderWay(w)'
      BY <2>1 DEF Staged, BeginningUnderWay
    <2>5. CASE NotYet(w)
      BY <2>3, <2>4, <2>5 DEF Staged, NotYet
    <2>6. CASE IsWritten(w)
      BY <2>1, <2>3, <2>4, <2>6 DEF Staged, IsWritten
    <2>7. CASE OneHasIt(w)
      <3>1. PICK d \in Client : /\ Carrying(d) /\ self[d].newString \in Beginnings(w)
                                /\ OthersClean(w, {d})
        BY <2>7 DEF OneHasIt
      <3>2. Carrying(d)' /\ self'[d] = self[d]
        BY <1>3, <3>1
      <3>3. self'[d].newString \in Beginnings(w) /\ OthersClean(w, {d})'
        BY <2>3, <3>1, <3>2
      <3> QED
        BY <2>1, <2>4, <2>7, <3>2, <3>3 DEF Staged, OneHasIt
    <2>8. CASE InPart(w)
      <3>1. PICK d \in Client : \E p, q \in Text : HasWritten(d, w, p, q)
        BY <2>8 DEF InPart
      <3>2. PICK p, q \in Text : HasWritten(d, w, p, q)
        BY <3>1
      <3>3. d # c /\ pc'[d] = pc[d] /\ self'[d] = self[d]
        <4>1. d # c
          BY <1>3, <3>2 DEF HasWritten, Carrying
        <4> QED
          BY <1>1, <1>2, <4>1
      <3>4. OthersClean(w, {d})'
        BY <2>3, <3>2 DEF HasWritten
      <3>5. HasWritten(d, w, p, q)'
        BY <3>2, <3>3, <3>4, Zenon DEF HasWritten, Beginnings
      <3> QED
        BY <2>1, <2>4, <2>8, <3>5 DEF Staged, InPart
    <2> QED
      BY <2>5, <2>6, <2>7, <2>8 DEF Staged
  <1>6. CASE o = w
    <2>0. PICK n \in 0..Len(Stream[w]) : sent[w] = SubSeq(Stream[w], 1, n)
      BY DEF Staged, BeginningUnderWay
    <2>1. Stream[w] \in Seq(Byte) /\ Len(Stream[w]) \in Nat /\ Len(Stream[w]) <= BUFFER_SIZE
      BY StreamText DEF Text, FitsAtOnce
    <2>2. Len(sent[w]) = n /\ n <= BUFFER_SIZE
      BY <2>0, <2>1, PieceOfPiece
    <2>3. k = n
      <3> DEFINE S == {Len(sent[w]), BUFFER_SIZE}
      <3>1. S \in SUBSET Nat /\ S # {}
        BY <2>2
      <3>2. Min(S) \in S /\ \A y \in S : Min(S) <= y
        <4> HIDE DEF S
        <4> QED
          BY <3>1, MinValue
      <3>3. k = Min(S)
        BY <1>1, <1>6 DEF Available
      <3>4. n \in S /\ BUFFER_SIZE \in S
        BY <2>2
      <3>5. S = {n, BUFFER_SIZE}
        BY <2>2
      <3> HIDE DEF S
      <3> QED
        BY <2>2, <3>2, <3>3, <3>4, <3>5
    <2>4. sent'[w] = <<>>
      <3>1. sent'[w] = SubSeq(sent[w], n + 1, n)
        BY <1>1, <1>2, <1>6, <2>2, <2>3
      <3> QED
        BY <1>2, <1>6, <2>2, <3>1
    <2>5. SubSeq(sent[w], 1, k) = SubSeq(Stream[w], 1, n)
      <3>1. n \in 0..n
        OBVIOUS
      <3>2. SubSeq(SubSeq(Stream[w], 1, n), 1, n) = SubSeq(Stream[w], 1, n)
        BY <2>1, <3>1, PieceOfPiece
      <3> QED
        BY <2>0, <2>3, <3>2
    <2>6. self'[c].newString \in Beginnings(w)
      BY <1>1, <1>6, <2>5, BeginningExtracted
    <2>7. NotYet(w)
      <3>1. sent[w] # <<>>
        BY <1>2, <1>6
      <3> QED
        BY <3>1 DEF Staged, OneHasIt, InPart, IsWritten
    <2>8. OthersClean(w, {c})'
      <3>1. OthersClean(w, {c})
        BY <2>7 DEF NotYet, OthersClean
      <3> QED
        BY <1>4, <3>1
    <2>9. BeginningUnderWay(w)'
      <3>1. 0 \in 0..Len(Stream[w]) /\ SubSeq(Stream[w], 1, 0) = <<>>
        BY <2>1
      <3> QED
        BY <2>4, <3>1 DEF BeginningUnderWay
    <2> QED
      BY <1>3, <2>4, <2>6, <2>7, <2>8, <2>9 DEF Staged, OneHasIt, NotYet
  <1> QED
    BY <1>5, <1>6
-----------------------------------------------------------------------------
OutsideInv == FileInv /\ SentApart /\ \A w \in Client \ Split : Staged(w)

LEMMA OutsideInit == FileInit => OutsideInv
  BY FileInitInv, SentApartInit, StagedInit DEF OutsideInv

LEMMA OutsideNext ==
    ASSUME FitsAtOnce, OutsideInv, FileNext
    PROVE  OutsideInv'
  <1>0. FileInv /\ SentApart /\ FileStep
    BY FilesTouched DEF OutsideInv
  <1>1. FileInv' /\ SentApart'
    BY <1>0, FileNextInv, SentApartNext
  <1>2. ASSUME NEW w \in Client \ Split
        PROVE  Staged(w)'
    <2>1. Staged(w)
      BY DEF OutsideInv
    <2> QED
      BY <1>0, <2>1, StagedWritten, StagedReceived DEF FileStep, Writes
  <1> QED
    BY <1>1, <1>2 DEF OutsideInv

LEMMA OutsideStutters ==
    ASSUME OutsideInv, UNCHANGED allVars
    PROVE  OutsideInv'
  <1>1. UNCHANGED <<pc, self, sent, files, path, inode>>
    BY Zenon DEF allVars, vars, threads, locals, network, fileVars
  <1>2. FileInv' /\ SentApart'
    BY <1>1, FileStutters DEF OutsideInv, SentApart
  <1>3. ASSUME NEW w \in Client \ Split
        PROVE  Staged(w)'
    <2>1. Quiet
      BY <1>1, SentSame, CarriersStay DEF OutsideInv, Quiet
    <2> QED
      BY <2>1, StagedWritten DEF OutsideInv
  <1> QED
    BY <1>2, <1>3 DEF OutsideInv

LEMMA OutsideHolds ==
    ASSUME OutsideInv
    PROVE  TimestampsStayOutside
  <1> SUFFICES ASSUME path # 0, NEW w \in Client \ Split
               PROVE  \E k \in 0..Len(Packet(w)) : HasPiece(w, files[path], k)
    BY DEF TimestampsStayOutside, HasPiece
  <1>1. files \in Seq(InOnePiece(w))
    <2>1. Staged(w)
      BY DEF OutsideInv
    <2>2. CASE files \in Seq(CleanTexts(w)) \/ files \in Seq(InOnePiece(w))
      BY <2>2, CleanIsOnePiece
    <2>3. CASE InPart(w)
      <3>1. PICK d \in Client : \E p, q \in Text : HasWritten(d, w, p, q)
        BY <2>3 DEF InPart
      <3>2. PICK p, q \in Text : HasWritten(d, w, p, q)
        BY <3>1
      <3> QED
        BY <3>2, BeginningOf, EndIsOnePiece DEF HasWritten
    <2> QED
      BY <2>1, <2>2, <2>3 DEF Staged, NotYet, OneHasIt, IsWritten
  <1>2. path \in 1..Len(files)
    BY DEF OutsideInv, FileInv, Data
  <1>3. files[path] \in InOnePiece(w)
    BY <1>1, <1>2
  <1> QED
    BY <1>3 DEF InOnePiece

(* For any number of clients: what the file has of a packet that arrives   *)
(* at once is one piece from the packet's beginning, and there only once,  *)
(* whatever timestamps and packets of others are written around it,        *)
(* whichever thread receives it, and over crashes and restarts.            *)
THEOREM StampsOutside == ASSUME FitsAtOnce PROVE FileSpec => []TimestampsStayOutside
  <1>1. OutsideInv /\ [FileNext]_allVars => OutsideInv'
    BY OutsideNext, OutsideStutters
  <1>2. OutsideInv => TimestampsStayOutside
    BY OutsideHolds
  <1> QED
    BY <1>1, <1>2, OutsideInit, PTL DEF FileSpec
-----------------------------------------------------------------------------
(* As long as no descriptor was closed by a thread that does not own it,   *)
(* the descriptors of a thread are its own until it has sent its reply,    *)
(* and what it has to write is its client's.                               *)
Serving(c) == pc[c] \in Steps \ {"none", "close", "flag", "exit"}
Holds(c) ==
    /\ Streaming(c) => fds[file[c]] = [kind |-> "dev", owner |-> c]
    /\ Serving(c) => Socket(c) = [kind |-> "sock", owner |-> c]
    /\ main = "create" /\ accepted = c =>
          fds[info[c].client_socket] = [kind |-> "sock", owner |-> c]
    /\ pc[c] = "receiving" => self[c].conn = c
    /\ Carrying(c) => \A w \in Client \ {c} : self[c].newString \in CleanTexts(w)

HeldAll == robbed = {} => \A c \in Client : Holds(c)

(* A step leaves the descriptors of c, or what thread c knows, alone. *)
FdsKept(c) == \A f \in Fd : fds[f].owner = c => fds'[f] = fds[f]
ThreadKept(c) ==
    /\ pc'[c] = pc[c] /\ self'[c] = self[c] /\ file'[c] = file[c]
    /\ client_socket'[c] = client_socket[c]

LEMMA HeldKept ==
    ASSUME FileInv, NEW c \in Client, Holds(c), ThreadKept(c), FdsKept(c),
           main' = "create" /\ accepted' = c => main = "create" /\ accepted = c /\ info'[c] = info[c]
    PROVE  Holds(c)'
  <1>0. /\ pc \in [Client -> Steps] /\ file[c] \in {0} \cup Fd /\ client_socket[c] \in {0} \cup Fd
    BY DEF FileInv, Control, ControlTyped
  <1>1. Streaming(c) => file[c] \in Fd
    BY <1>0 DEF FileInv, Control, StreamsHeld, Streaming
  <1>2. Serving(c) => client_socket[c] \in Fd
    BY <1>0 DEF FileInv, Control, ThreadsOnce, Serving, Working
  <1>3. main = "create" /\ accepted = c => info[c].client_socket \in Fd
    BY DEF FileInv, Control, ThreadsOnce, ThreadInfo
  <1>4. /\ Streaming(c)' <=> Streaming(c)
        /\ Serving(c)' <=> Serving(c)
        /\ Carrying(c)' <=> Carrying(c)
    BY DEF ThreadKept, Streaming, Serving, Carrying
  <1>5. Streaming(c)' => fds'[file'[c]] = [kind |-> "dev", owner |-> c]
    BY <1>1, <1>4 DEF Holds, ThreadKept, FdsKept
  <1>6. Serving(c)' => Socket(c)' = [kind |-> "sock", owner |-> c]
    BY <1>2, <1>4 DEF Holds, ThreadKept, FdsKept, Socket
  <1>7. main' = "create" /\ accepted' = c =>
          fds'[info'[c].client_socket] = [kind |-> "sock", owner |-> c]
    BY <1>3 DEF Holds, FdsKept
  <1>8. pc'[c] = "receiving" => self'[c].conn = c
    BY DEF Holds, ThreadKept
  <1>9. Carrying(c)' => \A w \in Client \ {c} : self'[c].newString \in CleanTexts(w)
    BY <1>4 DEF Holds, ThreadKept
  <1> QED
    BY <1>5, <1>6, <1>7, <1>8, <1>9 DEF Holds

LEMMA CloseSpares ==
    ASSUME FileInv, NEW f, NEW o, close(f, o), robbed' = {}, NEW c \in Client, c # o
    PROVE  FdsKept(c)
  <1>1. fds' = [fds EXCEPT ![f] = Free] /\ DOMAIN fds = Fd
    BY DEF close, FileInv, Control, ControlTyped
  <1>2. f \in Fd => fds[f].owner # c
    BY DEF close
  <1> QED
    BY <1>1, <1>2 DEF FdsKept

LEMMA OpenSpares ==
    ASSUME FileInv, NEW k, NEW o, fds' = Opened(k, o), FreeFds # {}, NEW c \in Client
    PROVE  FdsKept(c)
  <1>1. Min(FreeFds) \in FreeFds /\ DOMAIN fds = Fd
    BY MinFree DEF FileInv, Control, ControlTyped
  <1>2. fds[Min(FreeFds)].owner # c
    BY <1>1 DEF FreeFds, Free
  <1> QED
    BY <1>1, <1>2 DEF FdsKept, Opened

LEMMA HandlerAlone ==
    ASSUME FileInv, NEW c \in Client, FileHandler(c), NEW d \in Client, d # c
    PROVE  /\ ThreadKept(d) /\ inode'[d] = inode[d]
           /\ UNCHANGED <<main, accepted>> /\ info'[d] = info[d]
           /\ robbed' = {} => FdsKept(d)
  <1>0. /\ pc \in [Client -> Steps] /\ DOMAIN self = Client /\ DOMAIN info = Client
        /\ file \in [Client -> {0} \cup Fd] /\ client_socket \in [Client -> {0} \cup Fd]
        /\ inode \in [Owner -> 0..Len(files)] /\ d \in Owner
    BY DEF FileInv, Control, ControlTyped, Data, Owner
  <1>1. /\ pc'[d] = pc[d] /\ inode'[d] = inode[d]
        /\ UNCHANGED <<main, accepted>>
    <2>0. FileLockAppend(c) => LockAppend(c)
      BY Zenon DEF FileLockAppend
    <2>1. pc'[d] = pc[d]
      <3>1. \E x : Goto(c, x)
        BY <2>0, FileWriteGoto, AppendGoto, Zenon
        DEF FileHandler, Common, Recv, Received, EndOfStream, FileLockAppend, Unlock, FileLockRead,
            FileFread, ReadFileFails, CloseRead, FileSend, Close, Flag
      <3> QED
        BY <1>0, <3>1 DEF Goto
    <2>2. inode'[d] = inode[d]
      <3>1. UNCHANGED inode \/ \E x : inode' = [inode EXCEPT ![c] = x]
        BY Zenon DEF FileHandler, Common, FileLockAppend, FileWrite, FileLockRead, FileFread,
           ReadFileFails, FileSend, fileVars
      <3> QED
        BY <1>0, <3>1
    <2>3. UNCHANGED <<main, accepted>>
      BY Zenon DEF FileHandler, Common, Recv, Received, EndOfStream, FileLockAppend, LockAppend, FileWrite,
         Unlock, FileLockRead, FileFread, ReadFileFails, CloseRead, FileSend, Close, Flag, mainVars
    <2> QED
      BY <2>1, <2>2, <2>3
  <1>2. info'[d] = info[d] /\ client_socket'[d] = client_socket[d] /\ file'[d] = file[d]
    <2>1. \/ Common(Recv(c)) \/ Common(Received(c)) \/ Common(EndOfStream(c)) \/ FileFread(c)
          \/ FileSend(c) \/ Common(Close(c)) \/ FileWrite(c)
          => UNCHANGED <<info, client_socket, file>>
      BY Zenon DEF Common, Recv, Received, EndOfStream, FileFread, FileSend, Close, FileWrite, locals
    <2>2. \/ Common(Unlock(c)) \/ FileLockRead(c) \/ ReadFileFails(c) \/ Common(CloseRead(c)) \/ FileLockAppend(c)
          => /\ UNCHANGED <<info, client_socket>>
             /\ UNCHANGED file \/ \E x : file' = [file EXCEPT ![c] = x]
      BY Zenon DEF Common, Unlock, FileLockRead, ReadFileFails, CloseRead, FileLockAppend, LockAppend
    <2>3. Common(Flag(c)) => /\ UNCHANGED file
                            /\ \E x : info' = [info EXCEPT ![c] = x]
                            /\ client_socket' = [client_socket EXCEPT ![c] = 0]
      BY Zenon DEF Common, Flag
    <2> QED
      BY <1>0, <2>1, <2>2, <2>3 DEF FileHandler
  <1>4. self'[d] = self[d]
    <2>1. CASE Received(c)
      BY <2>1, Receiving
    <2>2. CASE FileLockAppend(c)
      <3>1. LockAppend(c)
        BY <2>2, Zenon DEF FileLockAppend
      <3>2. PICK f, a, u : self' = [self EXCEPT ![c].found_ioctl_cmd = f, ![c].args = a, ![c].uncut = u]
        BY <3>1, AppendLocals, Zenon
      <3> QED
        BY <1>0, <3>2
    <2>3. CASE FileWrite(c)
      <3>1. \/ \E t : self' = [self EXCEPT ![c].newString = t]
            \/ self' = [self EXCEPT ![c].newString = <<>>, ![c].failed = TRUE]
        BY <2>3, Zenon DEF FileWrite
      <3> QED
        BY <1>0, <3>1
    <2>4. CASE ~Received(c) /\ ~FileLockAppend(c) /\ ~FileWrite(c)
      BY <1>0, <2>4 DEF FileHandler, Common, Recv, EndOfStream, Unlock, FileLockRead, FileFread,
         ReadFileFails, CloseRead, FileSend, Close, Flag, locals
    <2> QED
      BY <2>1, <2>2, <2>3, <2>4
  <1>5. ASSUME robbed' = {}
        PROVE  FdsKept(d)
    <2>1. \/ UNCHANGED fds
          \/ \E f : close(f, c)
          \/ FreeFds # {} /\ fds' = Opened("dev", c)
      <3>1. CASE \/ Common(Recv(c)) \/ Common(Received(c)) \/ Common(EndOfStream(c))
                 \/ FileWrite(c) \/ FileFread(c) \/ Common(Flag(c))
        BY <3>1, Zenon DEF Common, Recv, Received, EndOfStream, FileWrite, FileFread, Flag
      <3>2. CASE Common(Unlock(c)) \/ Common(CloseRead(c)) \/ Common(Close(c)) \/ ReadFileFails(c)
        BY <3>2, Zenon DEF Common, Unlock, CloseRead, Close, ReadFileFails
      <3>3. CASE FileSend(c)
        BY <3>3, Zenon DEF FileSend
      <3>4. CASE FileLockAppend(c)
        BY <3>4, Zenon DEF FileLockAppend, LockAppend
      <3>5. CASE FileLockRead(c)
        BY <3>5, Zenon DEF FileLockRead
      <3> QED
        BY <3>1, <3>2, <3>3, <3>4, <3>5, Zenon DEF FileHandler
    <2>2. UNCHANGED fds => FdsKept(d)
      BY DEF FdsKept
    <2> QED
      BY <1>5, <2>1, <2>2, CloseSpares, OpenSpares
  <1> QED
    BY <1>1, <1>2, <1>4, <1>5 DEF ThreadKept
-----------------------------------------------------------------------------
LEMMA HeldOwn ==
    ASSUME FileInv, FileInv', SentApart, NEW c \in Client, Holds(c), FileHandler(c), robbed' = {}
    PROVE  Holds(c)'
  <1>0. /\ pc \in [Client -> Steps] /\ DOMAIN self = Client /\ DOMAIN fds = Fd
        /\ file \in [Client -> {0} \cup Fd] /\ client_socket \in [Client -> {0} \cup Fd]
    BY DEF FileInv, Control, ControlTyped, Data
  <1>1. Working(c)' => ~(main' = "create" /\ accepted' = c)
    BY DEF FileInv, Control, ThreadsOnce, Working
  <1>2. Serving(c) => client_socket[c] \in Fd
    BY <1>0 DEF FileInv, Control, ThreadsOnce, Serving, Working
  (* The thread goes on and keeps its socket, and its stream is closed. *)
  <1>3. ASSUME NEW s \in {"recv", "receiving", "lockread", "send"}, Goto(c, s), Serving(c),
               client_socket' = client_socket, fds'[client_socket[c]] = fds[client_socket[c]],
               s = "receiving" => self'[c].conn = c
        PROVE  Holds(c)'
    <2>1. pc'[c] = s
      BY <1>0, <1>3 DEF Goto
    <2> QED
      BY <1>1, <1>3, <2>1 DEF Holds, Streaming, Serving, Carrying, Socket, Working
  <1>4. ASSUME NEW s \in {"close", "flag", "exit"}, Goto(c, s)
        PROVE  Holds(c)'
    <2>1. pc'[c] = s
      BY <1>0, <1>4 DEF Goto
    <2>2. ~(main' = "create" /\ accepted' = c)
      BY <2>1, <1>4 DEF FileInv, Control, ThreadsOnce
    <2> QED
      BY <1>4, <2>1, <2>2 DEF Holds, Streaming, Serving, Carrying
  <1>5. CASE Common(Recv(c))
    <2>1. pc[c] = "recv" /\ UNCHANGED <<fds, client_socket>>
      BY <1>5, Zenon DEF Common, Recv
    <2>2. Serving(c) /\ Socket(c) = [kind |-> "sock", owner |-> c]
      BY <2>1 DEF Serving, Holds, Steps
    <2>3. Goto(c, "receiving") /\ self' = [self EXCEPT ![c].conn = Socket(c).owner]
      BY <1>5, <2>2 DEF Common, Recv
    <2>4. self[c] \in Locals(self[c].args)
      BY <2>1 DEF FileInv, Data, LocalsTyped, Working
    <2>5. self'[c].conn = c
      BY <1>0, <2>2, <2>3, <2>4 DEF Locals
    <2> QED
      BY <1>3, <2>1, <2>2, <2>3, <2>5
  <1>6. CASE Common(Received(c))
    <2>1. PICK o \in Client : \E k \in 1..Len(sent[o]) :
              /\ o = self[c].conn
              /\ pc[c] = "receiving" /\ pc' = [pc EXCEPT ![c] = "lock"]
              /\ self'[c].newString = extract_data_up_to_newline(SubSeq(sent[o], 1, k))
      BY <1>6, Receiving DEF Common
    <2>2. PICK k \in 1..Len(sent[o]) :
              /\ o = self[c].conn
              /\ pc[c] = "receiving" /\ pc' = [pc EXCEPT ![c] = "lock"]
              /\ self'[c].newString = extract_data_up_to_newline(SubSeq(sent[o], 1, k))
      BY <2>1
    <2>3. o = c /\ UNCHANGED <<fds, client_socket>> /\ Serving(c) /\ pc'[c] = "lock"
      <3>1. UNCHANGED <<fds, client_socket>>
        BY <1>6, Zenon DEF Common, Received
      <3> QED
        BY <1>0, <2>2, <3>1 DEF Holds, Serving, Steps
    <2>4. ASSUME NEW w \in Client \ {c}
          PROVE  self'[c].newString \in CleanTexts(w)
      <3>1. sent[c] \in CleanTexts(w) /\ k \in 0..Len(sent[c])
        BY <2>3 DEF SentApart
      <3> QED
        BY <2>2, <2>3, <3>1, CleanPiece, CleanExtract
    <2> QED
      BY <1>1, <2>3, <2>4 DEF Holds, Streaming, Serving, Carrying, Socket, Working
  <1>7. CASE Common(EndOfStream(c))
    <2>1. pc[c] = "receiving" /\ UNCHANGED <<fds, client_socket>> /\ Goto(c, "lockread")
      BY <1>7, Zenon DEF Common, EndOfStream, locals
    <2>2. Serving(c)
      BY <2>1 DEF Serving, Steps
    <2> QED
      BY <1>3, <2>1, <2>2
  <1>8. CASE Common(Unlock(c)) \/ Common(CloseRead(c)) \/ ReadFileFails(c)
    <2>1. /\ pc[c] \in {"unlock", "closeread", "fread"}
          /\ UNCHANGED client_socket
          /\ close(file[c], c) \/ (file[c] = 0 /\ pc[c] = "unlock" /\ UNCHANGED fds)
      BY <1>8, Zenon DEF Common, Unlock, CloseRead, ReadFileFails
    <2>2. PICK s \in {"recv", "lockread", "send"} : Goto(c, s)
      BY <1>8 DEF Common, Unlock, AfterPacket, CloseRead, ReadFileFails
    <2>3. Serving(c) /\ Socket(c) = [kind |-> "sock", owner |-> c]
      BY <2>1 DEF Serving, Holds, Steps
    <2>4. fds'[client_socket[c]] = fds[client_socket[c]]
      <3>1. CASE UNCHANGED fds
        BY <3>1
      <3>2. CASE file[c] = 0 /\ close(file[c], c)
        <4>1. file[c] \notin Fd
          BY <3>2 DEF Fd
        <4> QED
          BY <1>0, <1>2, <2>3, <3>2, <4>1 DEF close
      <3>3. CASE file[c] # 0 /\ close(file[c], c)
        <4>1. fds[file[c]] = [kind |-> "dev", owner |-> c]
          BY <2>1, <3>3 DEF Holds, Streaming
        <4>2. file[c] # client_socket[c]
          BY <2>3, <4>1 DEF Socket
        <4> QED
          BY <1>0, <1>2, <2>3, <3>3, <4>2 DEF close
      <3> QED
        BY <2>1, <3>1, <3>2, <3>3
    <2> QED
      BY <1>3, <2>1, <2>2, <2>3, <2>4
  <1>9. CASE FileWrite(c) \/ FileFread(c)
    <2>1. /\ pc[c] \in {"write", "fread"} /\ UNCHANGED <<fds, client_socket, file>>
      BY <1>9, Zenon DEF FileWrite, FileFread
    <2>2. pc'[c] \in {"write", "unlock", "closeread"}
      <3>1. \E x \in {"write", "unlock", "closeread"} : Goto(c, x)
        BY <1>9, FileWriteGoto DEF FileFread
      <3> QED
        BY <1>0, <3>1 DEF Goto
    <2>3. Serving(c) /\ Streaming(c)
      BY <2>1 DEF Serving, Streaming, Steps
    <2>4. ASSUME pc'[c] = "write", NEW w \in Client \ {c}
          PROVE  self'[c].newString \in CleanTexts(w)
      <3>1. FileWrite(c)
        BY <1>0, <1>9, <2>4 DEF FileFread, Goto
      <3>2. pc[c] = "write"
        BY <3>1, Zenon DEF FileWrite
      <3>3. self[c].newString \in CleanTexts(w) /\ self[c] \in Locals(self[c].args)
        BY <3>2 DEF Holds, Carrying, FileInv, Data, LocalsTyped, Working
      <3>4. \E t \in CleanTexts(w) :
               \/ self' = [self EXCEPT ![c].newString = t]
               \/ self' = [self EXCEPT ![c].newString = t, ![c].failed = TRUE]
        <4>1. \/ \E k \in Pieces(self[c].newString) :
                     self' = [self EXCEPT ![c].newString = Rest(self[c].newString, k)]
              \/ self' = [self EXCEPT ![c].newString = <<>>, ![c].failed = TRUE]
          BY <3>1, Zenon DEF FileWrite
        <4>2. \A k \in Pieces(self[c].newString) : Rest(self[c].newString, k) \in CleanTexts(w)
          BY <3>3, CleanDivided
        <4> QED
          BY <4>1, <4>2, CleanStamp, Zenon
      <3> QED
        BY <1>0, <3>3, <3>4 DEF Locals
    <2> QED
      BY <1>1, <2>1, <2>2, <2>3, <2>4 DEF Holds, Streaming, Serving, Carrying, Socket, Working
  <1>10. CASE FileLockAppend(c)
    <2> DEFINE found == CommandFound(c)
    <2>1. /\ pc[c] = "lock" /\ Goto(c, IF found THEN "unlock" ELSE "write")
          /\ UNCHANGED client_socket
          /\ file' = [file EXCEPT ![c] = IF found THEN 0 ELSE Min(FreeFds)]
          /\ fds' = IF found THEN fds ELSE Opened("dev", c)
          /\ found \/ FreeFds # {}
      BY <1>10, Zenon DEF FileLockAppend, LockAppend
    <2>2. Serving(c) /\ Socket(c) = [kind |-> "sock", owner |-> c]
      BY <2>1 DEF Serving, Holds, Steps
    <2>3. self'[c].newString = self[c].newString
      <3>0. LockAppend(c)
        BY <1>10, Zenon DEF FileLockAppend
      <3>1. PICK x, a, u : self' = [self EXCEPT ![c].found_ioctl_cmd = x, ![c].args = a, ![c].uncut = u]
        BY <3>0, AppendLocals, Zenon
      <3>2. self[c] \in Locals(self[c].args)
        BY <2>1 DEF FileInv, Data, LocalsTyped, Working
      <3> QED
        BY <1>0, <3>1, <3>2 DEF Locals
    <2>4. CASE found
      <3>1. pc'[c] = "unlock" /\ file'[c] = 0 /\ UNCHANGED <<fds, client_socket>>
        BY <1>0, <2>1, <2>4 DEF Goto
      <3> QED
        BY <1>1, <2>2, <3>1 DEF Holds, Streaming, Serving, Carrying, Socket, Working
    <2>5. CASE ~found
      <3>1. /\ pc'[c] = "write" /\ file'[c] = Min(FreeFds) /\ UNCHANGED client_socket
            /\ FreeFds # {} /\ fds' = Opened("dev", c)
        BY <1>0, <2>1, <2>5 DEF Goto
      <3>2. fds'[Min(FreeFds)] = [kind |-> "dev", owner |-> c] /\ FdsKept(c)
        BY <3>1, OpenOpens, OpenSpares DEF FileInv, Owner
      <3>3. Socket(c)' = [kind |-> "sock", owner |-> c]
        BY <1>2, <2>2, <3>1, <3>2 DEF FdsKept, Socket
      <3>4. \A w \in Client \ {c} : self'[c].newString \in CleanTexts(w)
        BY <2>1, <2>3 DEF Holds, Carrying
      <3> QED
        BY <1>1, <3>1, <3>2, <3>3, <3>4 DEF Holds, Streaming, Serving, Carrying, Working
    <2> QED
      BY <2>4, <2>5
  <1>11. CASE FileLockRead(c)
    <2>1. /\ pc[c] = "lockread" /\ Goto(c, "fread") /\ UNCHANGED client_socket
          /\ file' = [file EXCEPT ![c] = Min(FreeFds)] /\ FreeFds # {} /\ fds' = Opened("dev", c)
      BY <1>11, Zenon DEF FileLockRead
    <2>2. Serving(c) /\ Socket(c) = [kind |-> "sock", owner |-> c]
      BY <2>1 DEF Serving, Holds, Steps
    <2>3. pc'[c] = "fread" /\ file'[c] = Min(FreeFds)
      BY <1>0, <2>1 DEF Goto
    <2>4. fds'[Min(FreeFds)] = [kind |-> "dev", owner |-> c] /\ FdsKept(c)
      BY <2>1, OpenOpens, OpenSpares DEF FileInv, Owner
    <2>5. Socket(c)' = [kind |-> "sock", owner |-> c]
      BY <1>2, <2>1, <2>2, <2>4 DEF FdsKept, Socket
    <2> QED
      BY <1>1, <2>3, <2>4, <2>5 DEF Holds, Streaming, Serving, Carrying, Working
  <1>12. CASE FileSend(c) \/ Common(Close(c)) \/ Common(Flag(c))
    <2>1. \E s \in {"close", "flag", "exit"} : Goto(c, s)
      BY <1>12 DEF FileSend, Common, Close, Flag
    <2> QED
      BY <1>4, <2>1
  <1> QED
    BY <1>5, <1>6, <1>7, <1>8, <1>9, <1>10, <1>11, <1>12, Zenon DEF FileHandler

LEMMA HeldMain ==
    ASSUME FileInv, Main, robbed' = {}, NEW c \in Client, Holds(c)
    PROVE  Holds(c)'
  <1>0. /\ pc \in [Client -> Steps] /\ DOMAIN self = Client /\ DOMAIN info = Client
        /\ DOMAIN fds = Fd
        /\ file \in [Client -> {0} \cup Fd] /\ client_socket \in [Client -> {0} \cup Fd]
    BY DEF FileInv, Control, ControlTyped, Data
  <1>1. CASE MainCreate
    <2>1. main = "create" /\ main' = "insert" /\ UNCHANGED fds
      BY <1>1, Zenon DEF MainCreate
    <2>2. CASE accepted # c \/ UNCHANGED threads
      <3>1. ThreadKept(c)
        BY <1>0, <1>1, <2>2 DEF MainCreate, ThreadKept, Goto, threads, locals
      <3> QED
        BY <2>1, <3>1, HeldKept DEF FdsKept
    <2>3. CASE accepted = c /\ ~UNCHANGED threads
      <3>1. Goto(c, "recv") /\ client_socket' = [client_socket EXCEPT ![c] = info[c].client_socket]
        BY <1>1, <2>3, Zenon DEF MainCreate
      <3>2. pc'[c] = "recv" /\ client_socket'[c] = info[c].client_socket
        BY <1>0, <3>1 DEF Goto
      <3> QED
        BY <2>1, <2>3, <3>2 DEF Holds, Streaming, Serving, Carrying, Socket
    <2> QED
      BY <2>2, <2>3
  <1>2. CASE MainInsert
    <2>1. main' = "cleanup" /\ UNCHANGED <<fds, threads>>
      BY <1>2, Zenon DEF MainInsert
    <2> QED
      BY <2>1, HeldKept DEF FdsKept, ThreadKept, threads, locals
  <1>3. CASE CleanupThreads
    <2>1. UNCHANGED threads /\ main' \in {"accept", "cleanup"}
      <3>1. UNCHANGED threads
        BY <1>3, Zenon DEF CleanupThreads, Reap
      <3>2. main' \in {"accept", "cleanup"}
        BY <1>3 DEF CleanupThreads
      <3> QED
        BY <3>1, <3>2
    <2>2. UNCHANGED fds \/ \E f, d : pc[d] = "exit" /\ close(f, d)
      BY <1>3, Zenon DEF CleanupThreads, Reap
    <2>3. CASE pc[c] = "exit"
      BY <2>1, <2>3 DEF Holds, Streaming, Serving, Carrying, threads
    <2>4. CASE pc[c] # "exit"
      <3>1. FdsKept(c)
        BY <2>2, <2>4, CloseSpares DEF FdsKept
      <3> QED
        BY <2>1, <3>1, HeldKept DEF ThreadKept, threads, locals
    <2> QED
      BY <2>3, <2>4
  <1>4. CASE \E d \in Client : MainAccept(d)
    <2>1. PICK d \in Client : MainAccept(d)
      BY <1>4
    <2>2. /\ UNCHANGED threads /\ FreeFds # {} /\ fds' = Opened("sock", d)
          /\ info' = [info EXCEPT ![d] = [client_socket |-> Min(FreeFds), complete |-> FALSE]]
          /\ accepted' = d /\ client[d] = "waiting"
      BY <2>1, Zenon DEF MainAccept
    <2>3. FdsKept(c)
      BY <2>2, OpenSpares
    <2>4. CASE c # d
      BY <2>2, <2>3, <2>4, HeldKept DEF ThreadKept, threads, locals
    <2>5. CASE c = d
      <3>1. pc'[c] = "none"
        BY <2>2, <2>5 DEF FileInv, Control, ThreadsOnce, threads
      <3>2. fds'[info'[c].client_socket] = [kind |-> "sock", owner |-> c]
        BY <1>0, <2>2, <2>5, OpenOpens DEF FileInv, Owner
      <3> QED
        BY <3>1, <3>2 DEF Holds, Streaming, Serving, Carrying
    <2> QED
      BY <2>4, <2>5
  <1> QED
    BY <1>1, <1>2, <1>3, <1>4 DEF Main

LEMMA EndedHeld ==
    ASSUME Ended, NEW c \in Client
    PROVE  Holds(c)'
  BY DEF Ended, Holds, Streaming, Serving, Carrying
-----------------------------------------------------------------------------
(* A step that is none of a client's thread, nor of main's loop, nor the   *)
(* end of the process.                                                     *)
Aside ==
    /\ UNCHANGED <<threads, info, accepted>>
    /\ main' \in {main, "remove", "exit"}
    /\ \A c \in Client : inode'[c] = inode[c]
    /\ robbed' = {} => robbed = {} /\ \A c \in Client : FdsKept(c)

LEMMA StepKinds ==
    ASSUME FileInv, FileNext
    PROVE  \/ Ended
           \/ \E c \in Client : FileHandler(c)
           \/ Main /\ UNCHANGED fileVars
           \/ Aside
  <1>0. inode \in [Owner -> 0..Len(files)] /\ Client \subseteq Owner
    BY DEF FileInv, Data, Owner
  <1>1. UNCHANGED fds => \A c \in Client : FdsKept(c)
    BY DEF FdsKept
  <1>2. CASE TimerThread
    <2>1. /\ UNCHANGED <<threads, info, accepted, main>>
          /\ inode' = inode \/ inode' = [inode EXCEPT ![Timer] = path']
      BY <1>2, Zenon DEF TimerThread, TimerLock, TimerWrite, TimerUnlock, TimerWake, mainVars, threads, vars
    <2>2. \A c \in Client : inode'[c] = inode[c]
      BY <1>0, <2>1
    <2>3. \/ UNCHANGED <<fds, robbed>>
          \/ close(timer_fd, Timer)
          \/ UNCHANGED robbed /\ FreeFds # {} /\ fds' = Opened("dev", Timer)
      BY <1>2, Zenon DEF TimerThread, TimerLock, TimerWrite, TimerUnlock, TimerWake, vars
    <2>4. ASSUME robbed' = {}
          PROVE  robbed = {} /\ \A c \in Client : FdsKept(c)
      <3>1. CASE UNCHANGED <<fds, robbed>>
        BY <1>1, <2>4, <3>1
      <3>2. CASE close(timer_fd, Timer)
        <4>1. robbed = {}
          BY <2>4, <3>2 DEF close
        <4> QED
          BY <2>4, <3>2, <4>1, CloseSpares
      <3>3. CASE UNCHANGED robbed /\ FreeFds # {} /\ fds' = Opened("dev", Timer)
        BY <2>4, <3>3, OpenSpares
      <3> QED
        BY <2>3, <3>1, <3>2, <3>3
    <2>5. Aside
      BY <2>1, <2>2, <2>4, Zenon DEF Aside
    <2> QED
      BY <2>5
  <1>3. CASE RemoveAgain \/ Signal
    <2>1. /\ UNCHANGED <<threads, info, accepted, inode, fds, robbed>> /\ main' \in {"remove", "exit"}
      BY <1>3, Zenon DEF RemoveAgain, Signal
    <2> QED
      BY <1>1, <2>1 DEF Aside
  <1>4. CASE \/ Exit \/ SignalCrashes \/ TimerLockFails
             \/ \E c \in Client : FileLockFails(c) \/ FileBrokenPipe(c)
    BY <1>4, Zenon DEF Exit, SignalCrashes, TimerLockFails, FileLockFails, FileBrokenPipe, BrokenPipe,
       FileCrash, Crash
  <1>5. CASE FileStart \/ StartFails
    <2>1. UNCHANGED <<threads, info, accepted, main, inode, fds, robbed>>
      BY <1>5, Zenon DEF FileStart, Start, StartFails, mainVars
    <2> QED
      BY <1>1, <2>1 DEF Aside
  <1>6. ASSUME NEW c \in Client,
               \/ Common(Connect(c) /\ ~Terminating) \/ Common(HangUp(c)) \/ Common(MainAcceptFails(c))
        PROVE  Aside
    <2>1. UNCHANGED <<threads, info, accepted, main, inode, fds, robbed>>
      BY <1>6, Zenon DEF Common, Connect, HangUp, MainAcceptFails, mainVars, fileVars
    <2> QED
      BY <1>1, <2>1 DEF Aside
  <1> QED
    BY <1>2, <1>3, <1>4, <1>5, <1>6, Zenon DEF FileNext, FileMain, FileEnvironment, Common

(* Who was robbed stays so as long as the process runs, and the signal     *)
(* handlers do not return.                                                 *)
LEMMA LastsTillEnd ==
    ASSUME FileInv, FileNext, ~Ended
    PROVE  /\ robbed' = {} => robbed = {}
           /\ ~Terminating' => ~Terminating
  <1>1. CASE \E c \in Client : FileHandler(c)
    <2>1. PICK c \in Client : FileHandler(c)
      BY <1>1
    <2>2. UNCHANGED main
      BY <2>1, Zenon DEF FileHandler, Common, Recv, Received, EndOfStream, FileLockAppend, LockAppend, FileWrite,
         Unlock, FileLockRead, FileFread, ReadFileFails, CloseRead, FileSend, Close, Flag, mainVars
    <2>3. UNCHANGED robbed \/ \E f : close(f, c)
      BY <2>1, Zenon DEF FileHandler, Common, Recv, Received, EndOfStream, FileLockAppend, LockAppend, FileWrite,
         Unlock, FileLockRead, FileFread, ReadFileFails, CloseRead, FileSend, Close, Flag
    <2> QED
      BY <2>2, <2>3 DEF close, Terminating
  <1>2. CASE Main
    <2>1. ~Terminating
      BY <1>2 DEF Main, MainCreate, MainInsert, CleanupThreads, MainAccept, Terminating
    <2>2. UNCHANGED robbed \/ \E f, c : close(f, c)
      BY <1>2, Zenon DEF Main, MainCreate, MainInsert, CleanupThreads, Reap, MainAccept
    <2> QED
      BY <2>1, <2>2 DEF close
  <1>3. CASE Aside
    BY <1>3 DEF Aside, Terminating
  <1> QED
    BY <1>1, <1>2, <1>3, StepKinds

LEMMA HeldNext ==
    ASSUME FileInv, SentApart, HeldAll, FileNext
    PROVE  HeldAll'
  <1>1. CASE Ended
    BY <1>1, EndedHeld DEF HeldAll
  <1>2. CASE ~Ended
    <2> SUFFICES ASSUME robbed' = {}, NEW c \in Client
                 PROVE  Holds(c)'
      BY DEF HeldAll
    <2>1. Holds(c) /\ FileInv'
      BY <1>2, LastsTillEnd, FileNextInv DEF HeldAll
    <2>2. ASSUME NEW d \in Client, FileHandler(d)
          PROVE  Holds(c)'
      <3>1. CASE c = d
        BY <2>1, <2>2, <3>1, HeldOwn
      <3>2. CASE c # d
        <4>1. /\ ThreadKept(c) /\ FdsKept(c)
              /\ UNCHANGED <<main, accepted>> /\ info'[c] = info[c]
          BY <2>2, <3>2, HandlerAlone
        <4> QED
          BY <2>1, <4>1, HeldKept
      <3> QED
        BY <3>1, <3>2
    <2>3. CASE Main
      BY <2>1, <2>3, HeldMain
    <2>4. CASE Aside
      BY <2>1, <2>4, HeldKept DEF Aside, ThreadKept, threads, locals
    <2> QED
      BY <1>2, <2>2, <2>3, <2>4, StepKinds
  <1> QED
    BY <1>1, <1>2
-----------------------------------------------------------------------------
(* The text is the beginning of the file, with all the file has of c. *)
InFile(c, s) ==
    /\ path # 0
    /\ IsPrefix(s, files[path])
    /\ PartOf(c, s) = PartOf(c, files[path])

(* What thread c has open is the file of that name, and what it has read   *)
(* of it is still there.                                                   *)
Replied(c) ==
    ~Terminating =>
        /\ pc[c] \in {"fread", "closeread"} => path # 0 /\ inode[c] = path
        /\ /\ pc[c] \in {"closeread", "send"} /\ self[c].contents \notin {NULL, NoSize}
           /\ robbed = {}
           => InFile(c, self[c].contents)

LEMMA PathStays ==
    ASSUME FileInv, FileStep, ~Ended, ~Terminating', path # 0
    PROVE  path' = path
  BY DEF FileStep, Quiet, OpenAppend, Written, Left, LeftAsIs

(* What others write under the file's name has nothing of c. *)
LEMMA FileExtended ==
    ASSUME FileInv, FileStep, ~Ended, ~Terminating', path # 0,
           NEW c \in Client, OthersClean(c, {c}),
           \A k \in Pieces(TextOf(c)) : Written(c, k) => Piece(TextOf(c), k) \in CleanTexts(c)
    PROVE  \E t \in CleanTexts(c) : files'[path] = files[path] \o t
  <1>0. path \in 1..Len(files) /\ files \in Seq(Text) /\ files[path] \in Text
    BY DEF FileInv, Data
  <1>same. files[path] \o <<>> = files[path]
    BY <1>0, ConcatEmptySeq DEF Text
  <1>1. CASE files'[path] = files[path]
    BY <1>1, <1>same, CleanStamp, Zenon
  <1>2. ASSUME NEW o \in Owner, NEW k \in Pieces(TextOf(o)), Written(o, k)
        PROVE  \E t \in CleanTexts(c) : files'[path] = files[path] \o t
    <2> DEFINE t == Piece(TextOf(o), k)
    <2>1. t \in CleanTexts(c)
      <3>1. CASE o = c
        BY <1>2, <3>1
      <3>2. CASE o # c
        <4>1. o \in Owner \ {c} /\ Writes(o, k)
          BY <1>2, <3>2 DEF Writes
        <4> QED
          BY <1>2, <4>1, WriterClean
      <3> QED
        BY <3>1, <3>2
    <2>2. inode[o] \in 1..Len(files) /\ files' = Appended(inode[o], t)
      BY <1>2 DEF Written
    <2> HIDE DEF t
    <2>3. CASE inode[o] = path
      <3>1. files'[path] = files[path] \o t
        BY <1>0, <2>2, <2>3 DEF Appended
      <3> QED
        BY <2>1, <3>1
    <2>4. CASE inode[o] # path
      <3>1. files'[path] = files[path]
        BY <1>0, <2>2, <2>4 DEF Appended
      <3> QED
        BY <1>1, <3>1
    <2> QED
      BY <2>3, <2>4
  <1>3. files' = files \/ \E o \in Owner : \E k \in Pieces(TextOf(o)) : Written(o, k)
    BY DEF FileStep, Quiet, OpenAppend, Left, LeftAsIs
  <1> QED
    BY <1>1, <1>2, <1>3

(* A thread that does nothing has written nothing. *)
LEMMA NothingWritten ==
    ASSUME FileInv, NEW c \in Client, pc'[c] = pc[c], self'[c] = self[c],
           NEW k \in Pieces(TextOf(c)), Written(c, k)
    PROVE  Piece(TextOf(c), k) \in CleanTexts(c)
  <1> DEFINE s == self[c].newString
  <1>1. pc[c] = "write" /\ TextOf(c) = s
    BY DEF Written, TextOf
  <1>2. s \in Text /\ k \in 0..Len(s)
    <2>1. self[c] \in Locals(self[c].args)
      BY <1>1 DEF FileInv, Data, LocalsTyped, Working
    <2> QED
      BY <1>1, <2>1, DividedText DEF Locals
  <1>3. s = Rest(s, k)
    BY <1>1 DEF Written, Carrying
  <1> HIDE DEF s
  <1>4. Len(SubSeq(s, k + 1, Len(s))) = Len(s) - k
    BY <1>2 DEF Text
  <1>5. k = 0
    BY <1>2, <1>3, <1>4 DEF Rest, Text
  <1>6. SubSeq(s, 1, 0) = <<>>
    BY <1>2 DEF Text
  <1> QED
    BY <1>1, <1>5, <1>6, CleanStamp DEF Piece

LEMMA PrefixGrows ==
    ASSUME NEW s \in Text, NEW f \in Text, NEW t \in Text, IsPrefix(s, f)
    PROVE  IsPrefix(s, f \o t)
  <1>1. Len(s) \in Nat /\ Len(f) \in Nat /\ Len(t) \in Nat /\ Len(s) <= Len(f)
    BY DEF Text, IsPrefix
  <1>2. SubSeq(f \o t, 0 + 1, 0 + Len(s)) = SubSeq(f, 0 + 1, 0 + Len(s))
    <2> DEFINE n == Len(s)
    <2>1. n \in Nat /\ 0 + n <= Len(f)
      BY <1>1
    <2> HIDE DEF n
    <2>2. SubSeq(f \o t, 0 + 1, 0 + n) = SubSeq(f, 0 + 1, 0 + n)
      BY <2>1, PieceOfLeft DEF Text
    <2> QED
      BY <2>2 DEF n
  <1>3. Len(f \o t) = Len(f) + Len(t)
    BY ConcatProperties DEF Text
  <1>4. 0 + 1 = 1 /\ 0 + Len(s) = Len(s)
    BY <1>1
  <1>5. SubSeq(s, 1, Len(s)) = SubSeq(f, 1, Len(s))
    BY DEF IsPrefix
  <1>6. SubSeq(f \o t, 1, Len(s)) = SubSeq(s, 1, Len(s))
    BY <1>2, <1>4, <1>5
  <1>7. Len(s) <= Len(f \o t)
    BY <1>1, <1>3
  <1> QED
    BY <1>6, <1>7 DEF IsPrefix
-----------------------------------------------------------------------------
(* Thread c does nothing. *)
LEMMA RepliedKept ==
    ASSUME FileInv, HeldAll, FileStep, ~Ended, NEW c \in Client, Replied(c),
           ThreadKept(c), inode'[c] = inode[c],
           ~Terminating' => ~Terminating, robbed' = {} => robbed = {}
    PROVE  Replied(c)'
  <1> SUFFICES ASSUME ~Terminating'
               PROVE  /\ pc'[c] \in {"fread", "closeread"} => path' # 0 /\ inode'[c] = path'
                      /\ /\ pc'[c] \in {"closeread", "send"} /\ self'[c].contents \notin {NULL, NoSize}
                         /\ robbed' = {}
                         => InFile(c, self[c].contents)'
    BY DEF Replied, ThreadKept
  <1>1. ~Terminating /\ pc'[c] = pc[c] /\ self'[c] = self[c]
    BY DEF ThreadKept
  <1>2. ASSUME pc'[c] \in {"fread", "closeread"}
        PROVE  path' # 0 /\ inode'[c] = path'
    <2>1. path # 0 /\ inode[c] = path
      BY <1>1, <1>2 DEF Replied
    <2> QED
      BY <2>1, PathStays
  <1>3. ASSUME pc'[c] \in {"closeread", "send"}, self'[c].contents \notin {NULL, NoSize}, robbed' = {}
        PROVE  InFile(c, self[c].contents)'
    <2> DEFINE s == self[c].contents
    <2>1. InFile(c, s) /\ robbed = {}
      BY <1>1, <1>3 DEF Replied
    <2>2. path # 0 /\ path' = path /\ path \in 1..Len(files)
      BY <2>1, PathStays DEF InFile, FileInv, Data
    <2>3. s \in Text /\ files[path] \in Text
      <3>1. self[c] \in Locals(self[c].args) /\ files \in Seq(Text)
        BY <1>1, <1>3 DEF FileInv, Data, LocalsTyped, Working
      <3> QED
        BY <1>1, <1>3, <2>2, <3>1 DEF Locals
    <2>4. OthersClean(c, {c})
      BY <2>1 DEF HeldAll, Holds, OthersClean
    <2>5. PICK t \in CleanTexts(c) : files'[path] = files[path] \o t
      BY <1>1, <1>3, <2>2, <2>4, NothingWritten, FileExtended
    <2>6. t \in Text
      BY DEF CleanTexts
    <2>7. IsPrefix(s, files'[path])
      BY <2>1, <2>3, <2>5, <2>6, PrefixGrows DEF InFile
    <2>8. PartOf(c, files'[path]) = PartOf(c, files[path])
      <3>1. PartOf(c, t) = <<>> /\ PartOf(c, files[path]) \in Text
        BY <2>3, PartEmpty, PartText
      <3>2. PartOf(c, files[path]) \o <<>> = PartOf(c, files[path])
        BY <3>1, ConcatEmptySeq DEF Text
      <3>3. PartOf(c, files[path] \o t) = PartOf(c, files[path]) \o PartOf(c, t)
        BY <2>3, <2>6, PartConcat
      <3> QED
        BY <2>5, <3>1, <3>2, <3>3, Zenon
    <2>9. InFile(c, s)'
      <3>1. PartOf(c, s) = PartOf(c, files[path])
        BY <2>1 DEF InFile
      <3>2. s' = s /\ path' # 0
        BY <1>1, <2>2
      <3>3. PartOf(c, s)' = PartOf(c, s) /\ PartOf(c, files[path])' = PartOf(c, files'[path])
        BY <2>2, <3>2 DEF PartOf
      <3> HIDE DEF s
      <3> QED
        BY <2>2, <2>7, <2>8, <3>1, <3>2, <3>3, Zenon DEF InFile
    <2> QED
      BY <2>9
  <1> QED
    BY <1>2, <1>3

LEMMA RepliedOwn ==
    ASSUME FileInv, NEW c \in Client, Replied(c), FileHandler(c)
    PROVE  Replied(c)'
  <1>0. /\ pc \in [Client -> Steps] /\ DOMAIN self = Client
        /\ inode \in [Owner -> 0..Len(files)] /\ c \in Owner
    BY DEF FileInv, Control, ControlTyped, Data, Owner
  <1>1. UNCHANGED main
    BY Zenon DEF FileHandler, Common, Recv, Received, EndOfStream, FileLockAppend, LockAppend, FileWrite,
       Unlock, FileLockRead, FileFread, ReadFileFails, CloseRead, FileSend, Close, Flag, mainVars
  <1>2. ASSUME NEW s \in Steps \ {"fread", "closeread", "send"}, Goto(c, s)
        PROVE  Replied(c)'
    BY <1>0, <1>2 DEF Replied, Goto
  <1>3. CASE \/ Common(Recv(c)) \/ Common(Received(c)) \/ Common(EndOfStream(c)) \/ FileLockAppend(c)
             \/ FileWrite(c) \/ Common(Unlock(c)) \/ FileSend(c) \/ Common(Close(c)) \/ Common(Flag(c))
    <2>0. FileLockAppend(c) => LockAppend(c)
      BY Zenon DEF FileLockAppend
    <2>1. \E s \in Steps \ {"fread", "closeread", "send"} : Goto(c, s)
      BY <1>3, <2>0, AppendGoto, FileWriteGoto DEF Common, Recv, Received, EndOfStream, Unlock,
         AfterPacket, FileSend, Close, Flag, Steps
    <2> QED
      BY <1>2, <2>1
  <1>4. CASE FileLockRead(c)
    <2>1. Goto(c, "fread") /\ path # 0 /\ UNCHANGED path /\ inode' = [inode EXCEPT ![c] = path]
      BY <1>4, Zenon DEF FileLockRead
    <2>2. pc'[c] = "fread" /\ inode'[c] = path /\ path' = path
      BY <1>0, <2>1 DEF Goto
    <2> QED
      BY <2>1, <2>2 DEF Replied
  <1>5. pc[c] = "fread" /\ fds[file[c]].kind = "dev" => fds[file[c]].owner = c
    <2> SUFFICES ASSUME pc[c] = "fread", fds[file[c]].kind = "dev"
                 PROVE  fds[file[c]].owner = c
      OBVIOUS
    <2>1. file[c] \in Fd
      BY DEF FileInv, Control, ControlTyped, StreamsHeld
    <2>2. file_mutex = c
      BY DEF FileInv, Control, OneWriterAtATime, Locking, Streaming
    <2> QED
      BY <2>1, <2>2 DEF FileInv, Control, OneWriterAtATime
  <1>6. CASE FileFread(c)
    <2>1. /\ pc[c] = "fread" /\ Goto(c, "closeread") /\ fds[file[c]].kind = "dev"
          /\ self' = [self EXCEPT ![c].contents = files[inode[fds[file[c]].owner]]]
          /\ UNCHANGED <<files, path, inode>>
      BY <1>6, Zenon DEF FileFread, ReadWhole, fileVars
    <2>2. self[c] \in Locals(self[c].args)
      BY <2>1 DEF FileInv, Data, LocalsTyped, Working
    <2>3. pc'[c] = "closeread" /\ self'[c].contents = files[inode[c]]
      BY <1>0, <1>5, <2>1, <2>2 DEF Goto, Locals
    <2> SUFFICES ASSUME ~Terminating'
                 PROVE  path # 0 /\ inode[c] = path /\ InFile(c, self[c].contents)'
      BY <2>1, <2>3 DEF Replied
    <2>4. path # 0 /\ inode[c] = path
      BY <1>1, <2>1 DEF Replied, Terminating
    <2>5. IsPrefix(files[path], files[path])
      <3>1. path \in 1..Len(files) /\ files \in Seq(Text)
        BY <2>4 DEF FileInv, Data
      <3>2. files[path] \in Text
        BY <3>1
      <3> QED
        BY <3>2, PrefixText
    <2> QED
      BY <2>1, <2>3, <2>4, <2>5 DEF InFile
  <1>7. CASE ReadFileFails(c)
    <2> DEFINE d == fds[file[c]]
               empty == d.kind = "dev" /\ files[inode[d.owner]] = <<>>
    <2>1. /\ pc[c] = "fread" /\ Goto(c, "send") /\ UNCHANGED <<files, path, inode>>
          /\ self' = [self EXCEPT ![c].contents =
                         IF empty THEN <<>> ELSE IF d.kind = "dev" THEN NULL ELSE NoSize]
      BY <1>7, Zenon DEF ReadFileFails, fileVars
    <2>2. self[c] \in Locals(self[c].args)
      BY <2>1 DEF FileInv, Data, LocalsTyped, Working
    <2>3. /\ pc'[c] = "send"
          /\ self'[c].contents = IF empty THEN <<>> ELSE IF d.kind = "dev" THEN NULL ELSE NoSize
      <3> HIDE DEF empty, d
      <3> QED
        BY <1>0, <2>1, <2>2 DEF Goto, Locals
    <2> SUFFICES ASSUME ~Terminating', self'[c].contents \notin {NULL, NoSize}
                 PROVE  InFile(c, self[c].contents)'
      BY <2>1, <2>3 DEF Replied
    <2>4. path # 0 /\ inode[c] = path
      BY <1>1, <2>1 DEF Replied, Terminating
    <2>5. empty /\ self'[c].contents = <<>>
      BY <2>3
    <2>6. files[path] = <<>>
      BY <1>5, <2>1, <2>4, <2>5
    <2>7. IsPrefix(<<>>, <<>>)
      <3>1. <<>> \in Text
        BY DEF Text
      <3> QED
        BY <3>1, PrefixText
    <2> QED
      BY <2>1, <2>4, <2>5, <2>6, <2>7 DEF InFile
  <1>8. CASE Common(CloseRead(c))
    <2>1. /\ pc[c] = "closeread" /\ Goto(c, "send") /\ UNCHANGED <<self, files, path, inode>>
          /\ close(file[c], c)
      BY <1>8, Zenon DEF Common, CloseRead, fileVars
    <2>2. pc'[c] = "send"
      BY <1>0, <2>1 DEF Goto
    <2>3. robbed' = {} => robbed = {}
      BY <2>1 DEF close
    <2>4. InFile(c, self[c].contents)' <=> InFile(c, self[c].contents)
      BY <2>1 DEF InFile
    <2> QED
      BY <1>1, <2>1, <2>2, <2>3, <2>4 DEF Replied, Terminating
  <1> QED
    BY <1>3, <1>4, <1>6, <1>7, <1>8, Zenon DEF FileHandler

-----------------------------------------------------------------------------
(* How far the packet of c has come: what the file has of it, and after it *)
(* what its thread has yet to write, are its first q characters, and the   *)
(* data under way goes on from there.                                      *)
FileText == IF path = 0 THEN <<>> ELSE files[path]
Got(c) == PartOf(c, FileText) \o PartOf(c, InHand(c))
UnderwayFrom(c, q) ==
    /\ Got(c) = PartOf(c, SubSeq(Stream[c], 1, q))
    /\ self[c].newline => q = Len(Packet(c))
    /\ ~self[c].newline => /\ q < Len(Packet(c))
                           /\ \E e \in q..Len(Stream[c]) : sent[c] = SubSeq(Stream[c], q + 1, e)
Underway(c) == \E q \in 0..Len(Packet(c)) : UnderwayFrom(c, q)

(* No write of the thread failed, it had no command to look for, and the   *)
(* process is undisturbed.                                                 *)
Smooth(c) == ~self[c].failed /\ ~self[c].found_ioctl_cmd /\ ~Terminating /\ robbed = {}

(* Before its thread starts nobody has anything of c; the thread writes to *)
(* the file of that name.                                                  *)
Delivered(c) ==
    c \notin crossed =>
        /\ OthersClean(c, {c})
        /\ Unserved(c) => files \in Seq(CleanTexts(c)) /\ BeginningUnderWay(c)
        /\ Working(c) /\ Smooth(c) => Underway(c)
        /\ pc[c] \in {"recv", "receiving"} => ~self[c].newline
        /\ pc[c] = "write" /\ ~Terminating => path # 0 /\ inode[c] = path

LEMMA FileTextTyped ==
    ASSUME FileInv
    PROVE  FileText \in Text
  <1>1. files \in Seq(Text) /\ path \in 0..Len(files)
    BY DEF FileInv, Data
  <1>2. <<>> \in Text
    BY DEF Text
  <1> QED
    BY <1>1, <1>2 DEF FileText

LEMMA InHandTyped ==
    ASSUME FileInv, NEW c \in Client
    PROVE  InHand(c) \in Text
  <1>1. CASE Carrying(c)
    <2>1. self[c] \in Locals(self[c].args)
      BY <1>1 DEF FileInv, Data, LocalsTyped, Working, Carrying
    <2> QED
      BY <1>1, <2>1 DEF InHand, Carrying, Locals
  <1>2. CASE ~Carrying(c)
    BY <1>2, CleanStamp DEF InHand, Carrying, CleanTexts
  <1> QED
    BY <1>1, <1>2

(* What of the file is of c stays, unless c writes. *)
LEMMA FileTextStays ==
    ASSUME FileInv, FileStep, ~Ended, ~Terminating',
           NEW c \in Client, OthersClean(c, {c}),
           \A k \in Pieces(TextOf(c)) : Written(c, k) => Piece(TextOf(c), k) \in CleanTexts(c)
    PROVE  PartOf(c, FileText)' = PartOf(c, FileText)
  <1>0. /\ path \in 0..Len(files) /\ files \in Seq(Text)
    BY DEF FileInv, Data
  <1>1. CASE path = 0
    <2>1. path' = 0 \/ (path' = Len(files) + 1 /\ files' = Append(files, <<>>))
      BY <1>1 DEF FileStep, Quiet, OpenAppend, Written, Left, LeftAsIs
    <2>2. FileText' = <<>>
      BY <1>0, <2>1 DEF FileText
    <2> QED
      BY <1>1, <2>2 DEF FileText, PartOf
  <1>2. CASE path # 0
    <2>1. path' = path
      BY <1>2, PathStays
    <2>2. PICK t \in CleanTexts(c) : files'[path] = files[path] \o t
      BY <1>2, FileExtended
    <2>3. t \in Text /\ files[path] \in Text
      BY <1>0, <1>2 DEF CleanTexts
    <2>4. PartOf(c, files'[path]) = PartOf(c, files[path])
      <3>1. PartOf(c, t) = <<>> /\ PartOf(c, files[path]) \in Text
        BY <2>3, PartEmpty, PartText
      <3>2. PartOf(c, files[path]) \o <<>> = PartOf(c, files[path])
        BY <3>1, ConcatEmptySeq DEF Text
      <3>3. PartOf(c, files[path] \o t) = PartOf(c, files[path]) \o PartOf(c, t)
        BY <2>3, PartConcat
      <3> QED
        BY <2>2, <3>1, <3>2, <3>3, Zenon
    <2>5. FileText' = files'[path] /\ FileText = files[path]
      BY <1>2, <2>1 DEF FileText
    <2>6. PartOf(c, FileText)' = PartOf(c, files'[path])
      BY <2>5, Zenon DEF PartOf
    <2> QED
      BY <2>4, <2>5, <2>6
  <1> QED
    BY <1>1, <1>2

(* The data under way gets shorter when the client hangs up. *)
LEMMA UnderwayStays ==
    ASSUME FileInv, NEW c \in Client, Underway(c), SentKeptOf(c),
           PartOf(c, FileText)' = PartOf(c, FileText), InHand(c)' = InHand(c),
           self'[c].newline = self[c].newline
    PROVE  Underway(c)'
  <1>1. PICK q \in 0..Len(Packet(c)) : UnderwayFrom(c, q)
    BY DEF Underway
  <1>2. Got(c)' = Got(c)
    <2>1. PartOf(c, InHand(c))' = PartOf(c, InHand(c))
      BY Zenon DEF PartOf
    <2> QED
      BY <2>1, Zenon DEF Got
  <1>3. ASSUME ~self[c].newline
        PROVE  \E e \in q..Len(Stream[c]) : sent'[c] = SubSeq(Stream[c], q + 1, e)
    <2>1. PICK e \in q..Len(Stream[c]) : sent[c] = SubSeq(Stream[c], q + 1, e)
      BY <1>1, <1>3 DEF UnderwayFrom
    <2>2. PICK n \in 0..Len(sent[c]) : sent'[c] = SubSeq(sent[c], 1, n)
      BY DEF SentKeptOf
    <2>3. Stream[c] \in Seq(Byte) /\ Len(Stream[c]) \in Nat /\ q \in Nat
      BY StreamText, PacketText DEF Text
    <2> DEFINE S == Stream[c]
    <2>4. S \in Seq(Byte) /\ e \in 0..Len(S) /\ q \in 0..e /\ e \in Nat
      BY <2>3
    <2> HIDE DEF S
    <2>5. Len(SubSeq(S, q + 1, e)) = e - q
      BY <2>4 
    <2>6. n \in 0..(e - q)
      BY <2>1, <2>2, <2>5 DEF S
    <2>7. SubSeq(SubSeq(S, q + 1, e), 0 + 1, n) = SubSeq(S, (q + 0) + 1, q + n)
      <3>1. 0 \in 0..n
        BY <2>6
      <3> QED
        BY <2>4, <2>6, <3>1, PieceWithin
    <2>8. 0 + 1 = 1 /\ (q + 0) + 1 = q + 1 /\ q + n \in q..Len(S)
      BY <2>3, <2>4, <2>6
    <2>9. sent'[c] = SubSeq(S, q + 1, q + n)
      BY <2>1, <2>2, <2>7, <2>8 DEF S
    <2> QED
      BY <2>8, <2>9 DEF S
  <1>4. UnderwayFrom(c, q)'
    BY <1>1, <1>2, <1>3, Zenon DEF UnderwayFrom, Packet
  <1> QED
    BY <1>4, Zenon DEF Underway, Packet

(* The thread of c starts. *)
LEMMA UnderwayBegins ==
    ASSUME FileInv, NEW c \in Client, files \in Seq(CleanTexts(c)), BeginningUnderWay(c),
           UNCHANGED <<files, path, sent>>, pc'[c] = "recv", ~self'[c].newline
    PROVE  Underway(c)'
  <1>1. PICK e \in 0..Len(Stream[c]) : sent[c] = SubSeq(Stream[c], 1, e)
    BY DEF BeginningUnderWay
  <1>2. FileText \in CleanTexts(c) /\ FileText' = FileText
    <2>1. path \in 0..Len(files)
      BY DEF FileInv, Data
    <2> QED
      BY <2>1, CleanStamp DEF FileText
  <1>3. PartOf(c, FileText) = <<>> /\ PartOf(c, <<>>) = <<>>
    BY <1>2, CleanStamp, PartEmpty
  <1>4. InHand(c)' = <<>>
    BY DEF InHand
  <1>5. Got(c)' = <<>> \o <<>>
    BY <1>2, <1>3, <1>4, Zenon DEF Got, PartOf
  <1>6. SubSeq(Stream[c], 1, 0) = <<>>
    BY StreamText DEF Text
  <1>7. 0 < Len(Packet(c)) /\ Len(Packet(c)) \in Nat
    BY PacketBounds
  <1>8. PICK q \in 0..Len(Packet(c)) : q = 0
    BY <1>7
  <1>9. UnderwayFrom(c, q)'
    <2>1. q + 1 = 1 /\ <<>> \o <<>> = <<>> /\ e \in q..Len(Stream[c]) /\ q < Len(Packet(c))
      BY <1>7, <1>8, ConcatEmptySeq
    <2>2. sent'[c] = SubSeq(Stream[c], q + 1, e)
      BY <1>1, <2>1
    <2>3. Got(c)' = PartOf(c, SubSeq(Stream[c], 1, q))
      BY <1>3, <1>5, <1>6, <1>8, <2>1
    <2> QED
      BY <2>1, <2>2, <2>3, Zenon DEF UnderwayFrom, PartOf, Packet
  <1> QED
    BY <1>9, Zenon DEF Underway, Packet

(* It receives some of the data. *)
LEMMA UnderwayReceived ==
    ASSUME FileInv, NEW c \in Client, Underway(c), ~self[c].newline, Received(c),
           self[c].conn = c, FileText' = FileText
    PROVE  Underway(c)'
  <1>1. PICK k \in 1..Len(sent[c]) :
            /\ pc[c] = "receiving" /\ pc' = [pc EXCEPT ![c] = "lock"]
            /\ sent' = [sent EXCEPT ![c] = SubSeq(@, k + 1, Len(@))]
            /\ self'[c].newString = extract_data_up_to_newline(SubSeq(sent[c], 1, k))
            /\ self'[c].newline = new_line_found(SubSeq(sent[c], 1, k))
    BY Receiving
  <1>2. PICK q \in 0..Len(Packet(c)) : UnderwayFrom(c, q)
    BY DEF Underway
  <1>3. PICK e \in q..Len(Stream[c]) : sent[c] = SubSeq(Stream[c], q + 1, e)
    BY <1>2 DEF UnderwayFrom
  <1> DEFINE S == Stream[c]
             m == Len(Packet(c))
             r == q + k
  <1>4. /\ S \in Seq(Byte) /\ Len(S) \in Nat /\ S \in Text /\ m \in 1..Len(S)
    BY StreamText, PacketBounds DEF Text
  <1>5. q < m /\ q \in 0..(m - 1) /\ q \in Nat
    <2>1. q < Len(Packet(c))
      BY <1>2 DEF UnderwayFrom
    <2> QED
      BY <1>4, <2>1
  <1> HIDE DEF S, m
  <1>6. Len(sent[c]) = e - q /\ k \in 1..(e - q) /\ e \in 0..Len(S) /\ q \in 0..e
    <2>1. e \in 0..Len(S) /\ q \in 0..e /\ sent[c] = SubSeq(S, q + 1, e)
      BY <1>3, <1>4, <1>5 DEF S
    <2>2. Len(SubSeq(S, q + 1, e)) = e - q
      BY <1>4, <1>5, <2>1
    <2> QED
      BY <2>1, <2>2
  <1>7. r \in (q + 1)..Len(S) /\ r \in q..e /\ r \in Nat
    BY <1>4, <1>5, <1>6
  <1> HIDE DEF r
  <1>8. SubSeq(sent[c], 1, k) = Between(c, q, r) /\ sent'[c] = SubSeq(S, r + 1, e)
    <2>1. sent[c] = SubSeq(S, q + 1, e) /\ sent'[c] = SubSeq(sent[c], k + 1, Len(sent[c]))
      <3>1. DOMAIN sent = Client
        BY DEF FileInv, Data
      <3> QED
        BY <1>1, <1>3, <3>1 DEF S
    <2>2. SubSeq(SubSeq(S, q + 1, e), 0 + 1, k) = SubSeq(S, (q + 0) + 1, q + k)
      <3>1. k \in 0..(e - q) /\ 0 \in 0..k
        BY <1>6
      <3> QED
        BY <1>4, <1>6, <3>1, PieceWithin
    <2> DEFINE n == e - q
    <2>3. n \in 0..(e - q) /\ k \in 0..n
      BY <1>6
    <2>4. SubSeq(SubSeq(S, q + 1, e), k + 1, n) = SubSeq(S, (q + k) + 1, q + n)
      <3> HIDE DEF n
      <3> QED
        BY <1>4, <1>6, <2>3, PieceWithin
    <2>5. 0 + 1 = 1 /\ (q + 0) + 1 = q + 1 /\ q + n = e
      BY <1>5, <1>6
    <2> QED
      BY <1>6, <2>1, <2>2, <2>4, <2>5 DEF r, Between, S
  <1> DEFINE x == extract_data_up_to_newline(Between(c, q, r))
             u == UpTo(c, r)
  <1>9. /\ new_line_found(Between(c, q, r)) <=> r >= m
        /\ x = Between(c, q, u) /\ u \in q..Len(S) /\ q = UpTo(c, q)
        /\ Passed(c, r) = Passed(c, q) \o x
        /\ u = IF r < m THEN r ELSE m
    <2>1. q \in 0..(Len(Packet(c)) - 1) /\ r \in (q + 1)..Len(Stream[c])
      BY <1>5, <1>7 DEF m, S
    <2> QED
      BY <2>1, PieceReceived, PassedOn DEF S, m, UpTo
  <1>10. SubSeq(S, 1, u) = SubSeq(S, 1, q) \o x
    BY <1>9 DEF Passed, S
  <1>11. SubSeq(S, 1, q) \in Text /\ x \in Text
    <2>1. q \in 0..Len(S) /\ u \in 0..Len(S) /\ q + 1 \in Nat \ {0}
      BY <1>4, <1>5, <1>9
    <2>2. SubSeq(S, 1, q) \in Text /\ SubSeq(S, q + 1, u) \in Text
      <3> HIDE DEF u
      <3> QED
        BY <1>4, <2>1, PieceText
    <2> QED
      BY <1>9, <2>2 DEF Between, S
  <1> HIDE DEF x, u
  <1>12. Got(c)' = PartOf(c, SubSeq(S, 1, u))
    <2>1. InHand(c) = <<>> /\ InHand(c)' = x
      <3>1. pc'[c] = "lock"
        BY <1>1 DEF FileInv, Control, ControlTyped
      <3> QED
        BY <1>1, <1>8, <3>1 DEF InHand, x
    <2>2. PartOf(c, FileText) = PartOf(c, SubSeq(S, 1, q))
      <3>1. PartOf(c, FileText) \in Text /\ PartOf(c, <<>>) = <<>>
        BY FileTextTyped, PartText, CleanStamp, PartEmpty
      <3>2. PartOf(c, FileText) \o <<>> = PartOf(c, FileText)
        BY <3>1, ConcatEmptySeq DEF Text
      <3>3. Got(c) = PartOf(c, SubSeq(S, 1, q))
        BY <1>2 DEF UnderwayFrom, S
      <3> QED
        BY <2>1, <3>1, <3>2, <3>3 DEF Got
    <2>3. Got(c)' = PartOf(c, FileText) \o PartOf(c, x)
      BY <2>1, Zenon DEF Got, PartOf
    <2>4. PartOf(c, SubSeq(S, 1, q) \o x) = PartOf(c, SubSeq(S, 1, q)) \o PartOf(c, x)
      BY <1>11, PartConcat
    <2> QED
      BY <1>10, <2>2, <2>3, <2>4, Zenon
  <1>13. u \in 0..m /\ (self'[c].newline => u = m)
         /\ (~self'[c].newline => u < m /\ u = r)
    <2>1. self'[c].newline <=> r >= m
      BY <1>1, <1>8, <1>9, Zenon
    <2>2. u = IF r < m THEN r ELSE m
      BY <1>9
    <2> QED
      BY <1>4, <1>7, <2>1, <2>2
  <1>14. u = r => e \in u..Len(S) /\ sent'[c] = SubSeq(S, u + 1, e)
    BY <1>6, <1>7, <1>8
  <1>15. UnderwayFrom(c, u)'
    BY <1>12, <1>13, <1>14, Zenon DEF UnderwayFrom, PartOf, Packet, S, m
  <1> QED
    BY <1>13, <1>15, Zenon DEF Underway, Packet, m

(* It writes to the file. *)
LEMMA UnderwayWritten ==
    ASSUME FileInv, NEW c \in Client, Underway(c), FileWrite(c), ~self'[c].failed,
           path # 0, inode[c] = path
    PROVE  Underway(c)'
  <1> DEFINE s == self[c].newString
             d == fds[file[c]]
  <1>0. /\ DOMAIN self = Client /\ pc \in [Client -> Steps] /\ pc[c] = "write"
        /\ path \in 1..Len(files) /\ files \in Seq(Text)
        /\ self[c] \in Locals(self[c].args) /\ s \in Text
    <2>1. pc[c] = "write"
      BY Zenon DEF FileWrite
    <2>2. self[c] \in Locals(self[c].args)
      BY <2>1 DEF FileInv, Data, LocalsTyped, Working
    <2> QED
      BY <2>1, <2>2 DEF FileInv, Control, ControlTyped, Data, Locals
  <1>1. d.kind = "dev" => d.owner = c
    <2>1. file[c] \in Fd
      BY <1>0 DEF FileInv, Control, ControlTyped, StreamsHeld
    <2>2. file_mutex = c
      BY <1>0 DEF FileInv, Control, OneWriterAtATime, Locking, Streaming
    <2> QED
      BY <2>1, <2>2 DEF FileInv, Control, OneWriterAtATime
  <1>2. UNCHANGED <<path, sent>>
    BY Zenon DEF FileWrite
  <1> HIDE DEF s, d
  <1>3. \/ d.kind = "dev" /\ \E k \in Pieces(s) :
                 /\ files' = Appended(inode[d.owner], Piece(s, k))
                 /\ self' = [self EXCEPT ![c].newString = Rest(s, k)]
                 /\ Goto(c, IF k = Len(s) THEN "unlock" ELSE "write")
        \/ self' = [self EXCEPT ![c].newString = <<>>, ![c].failed = TRUE]
    BY Zenon DEF FileWrite, s, d
  <1>4. ~(self' = [self EXCEPT ![c].newString = <<>>, ![c].failed = TRUE])
    BY <1>0 DEF Locals
  <1>5. PICK k \in Pieces(s) :
            /\ files' = Appended(path, Piece(s, k))
            /\ self' = [self EXCEPT ![c].newString = Rest(s, k)]
            /\ Goto(c, IF k = Len(s) THEN "unlock" ELSE "write")
    BY <1>1, <1>3, <1>4
  <1> DEFINE a == Piece(s, k)
             b == Rest(s, k)
  <1>6. a \in Text /\ b \in Text /\ s = a \o b /\ (k = Len(s) => b = <<>>)
    BY <1>0, DividedText
  <1> HIDE DEF a, b
  <1>7. FileText = files[path] /\ FileText' = files[path] \o a /\ files[path] \in Text
    <2>1. files'[path] = files[path] \o a
      BY <1>0, <1>5 DEF Appended, a
    <2> QED
      BY <1>0, <1>2, <2>1 DEF FileText
  <1>8. InHand(c) = s /\ InHand(c)' = b /\ self'[c].newline = self[c].newline
    <2>1. self'[c].newString = b /\ self'[c].newline = self[c].newline
      BY <1>0, <1>5 DEF Locals, b
    <2>2. pc'[c] = IF k = Len(s) THEN "unlock" ELSE "write"
      BY <1>0, <1>5 DEF Goto
    <2> QED
      BY <1>0, <1>6, <2>1, <2>2 DEF InHand, s
  <1>9. Got(c)' = Got(c)
    <2> DEFINE f == files[path]
    <2>1. f \in Text
      BY <1>7
    <2> HIDE DEF f
    <2>2. PartOf(c, f) \in Text /\ PartOf(c, a) \in Text /\ PartOf(c, b) \in Text
      BY <1>6, <2>1, PartText
    <2>3. PartOf(c, f \o a) = PartOf(c, f) \o PartOf(c, a) /\ PartOf(c, a \o b) = PartOf(c, a) \o PartOf(c, b)
      BY <1>6, <2>1, PartConcat
    <2> DEFINE x == PartOf(c, f)
               y == PartOf(c, a)
               z == PartOf(c, b)
    <2>4. (x \o y) \o z = x \o (y \o z)
      <3>1. x \in Seq(Byte) /\ y \in Seq(Byte) /\ z \in Seq(Byte)
        BY <2>2 DEF Text
      <3> HIDE DEF x, y, z
      <3> QED
        BY <3>1, ConcatAssociative
    <2>5. Got(c)' = PartOf(c, f \o a) \o PartOf(c, b)
      BY <1>7, <1>8, Zenon DEF Got, PartOf, f
    <2>6. Got(c) = PartOf(c, f) \o PartOf(c, a \o b)
      BY <1>6, <1>7, <1>8, Zenon DEF Got, f
    <2> QED
      BY <2>3, <2>4, <2>5, <2>6, Zenon
  <1>10. PICK q \in 0..Len(Packet(c)) : UnderwayFrom(c, q)
    BY DEF Underway
  <1>11. UnderwayFrom(c, q)'
    BY <1>2, <1>8, <1>9, <1>10, Zenon DEF UnderwayFrom, Packet
  <1> QED
    BY <1>11, Zenon DEF Underway, Packet

(* The other steps of the thread neither receive nor write. *)
LEMMA OtherMoves ==
    ASSUME FileInv, NEW c \in Client, FileHandler(c), ~Received(c), ~FileWrite(c)
    PROVE  /\ pc[c] # "write" /\ Working(c)
           /\ Working(c)' => /\ self'[c].newline = self[c].newline
                             /\ self'[c].failed = self[c].failed
                             /\ self[c].found_ioctl_cmd => self'[c].found_ioctl_cmd
                             /\ ~self'[c].found_ioctl_cmd => InHand(c)' = InHand(c)
           /\ pc'[c] \in {"recv", "receiving"} =>
                 pc[c] = "recv" \/ (pc[c] = "unlock" /\ ~self[c].newline)
           /\ pc'[c] = "write" => path' # 0 /\ inode'[c] = path'
  <1>0. /\ pc \in [Client -> Steps] /\ DOMAIN self = Client /\ path \in 0..Len(files)
        /\ inode \in [Owner -> 0..Len(files)] /\ c \in Owner
    BY DEF FileInv, Control, ControlTyped, Data, Owner
  <1>1. Working(c) => self[c] \in Locals(self[c].args)
    BY DEF FileInv, Data, LocalsTyped
  (* A step between steps at which there is nothing to write. *)
  <1>2. ASSUME pc[c] \in Steps \ {"none", "exit", "lock", "write"},
               NEW s \in Steps \ {"lock", "write"}, Goto(c, s),
               s \in {"recv", "receiving"} =>
                 pc[c] = "recv" \/ (pc[c] = "unlock" /\ ~self[c].newline),
               s # "exit" => /\ self'[c].newline = self[c].newline
                             /\ self'[c].failed = self[c].failed
                             /\ self'[c].found_ioctl_cmd = self[c].found_ioctl_cmd
        PROVE  /\ pc[c] # "write" /\ Working(c)
               /\ Working(c)' => /\ self'[c].newline = self[c].newline
                                 /\ self'[c].failed = self[c].failed
                                 /\ self[c].found_ioctl_cmd => self'[c].found_ioctl_cmd
                                 /\ ~self'[c].found_ioctl_cmd => InHand(c)' = InHand(c)
               /\ pc'[c] \in {"recv", "receiving"} =>
                     pc[c] = "recv" \/ (pc[c] = "unlock" /\ ~self[c].newline)
               /\ pc'[c] = "write" => path' # 0 /\ inode'[c] = path'
    <2>1. pc'[c] = s
      BY <1>0, <1>2 DEF Goto
    <2>2. InHand(c)' = <<>> /\ InHand(c) = <<>>
      BY <1>2, <2>1 DEF InHand
    <2> QED
      BY <1>2, <2>1, <2>2 DEF Working
  <1>3. CASE Common(Recv(c))
    <2>1. /\ pc[c] = "recv" /\ (Goto(c, "receiving") \/ Goto(c, "lockread"))
          /\ UNCHANGED self \/ self' = [self EXCEPT ![c].conn = Socket(c).owner]
      BY <1>3, Zenon DEF Common, Recv
    <2>2. self[c] \in Locals(self[c].args)
      BY <1>1, <2>1 DEF Working
    <2>3. /\ self'[c].newline = self[c].newline
          /\ self'[c].failed = self[c].failed
          /\ self'[c].found_ioctl_cmd = self[c].found_ioctl_cmd
      BY <1>0, <2>1, <2>2 DEF Locals
    <2> QED
      BY <1>2, <2>1, <2>3 DEF Steps
  <1>4. CASE Common(EndOfStream(c))
    <2>1. pc[c] = "receiving" /\ Goto(c, "lockread") /\ UNCHANGED self
      BY <1>4, Zenon DEF Common, EndOfStream, locals
    <2> QED
      BY <1>2, <2>1 DEF Steps
  <1>5. CASE Common(Unlock(c))
    <2>1. /\ pc[c] = "unlock" /\ Goto(c, AfterPacket(c))
          /\ self' = [self EXCEPT ![c].newString = <<>>]
      BY <1>5, Zenon DEF Common, Unlock
    <2>2. self[c] \in Locals(self[c].args)
      BY <1>1, <2>1 DEF Working
    <2>3. /\ self'[c].newline = self[c].newline
          /\ self'[c].failed = self[c].failed
          /\ self'[c].found_ioctl_cmd = self[c].found_ioctl_cmd
      BY <1>0, <2>1, <2>2 DEF Locals
    <2>4. AfterPacket(c) = "lockread" \/ (AfterPacket(c) = "recv" /\ ~self[c].newline)
      BY DEF AfterPacket
    <2>5. AfterPacket(c) \in Steps \ {"lock", "write"}
      BY <2>4 DEF Steps
    <2> QED
      BY <1>2, <2>1, <2>3, <2>4, <2>5 DEF Steps
  <1>6. CASE FileLockRead(c)
    <2>1. pc[c] = "lockread" /\ Goto(c, "fread") /\ UNCHANGED self
      BY <1>6, Zenon DEF FileLockRead
    <2> QED
      BY <1>2, <2>1 DEF Steps
  <1>7. CASE FileFread(c) \/ ReadFileFails(c) \/ Common(Close(c))
    <2>1. /\ pc[c] \in {"fread", "close"}
          /\ Goto(c, "closeread") \/ Goto(c, "send") \/ Goto(c, "flag")
          /\ \E x : self' = [self EXCEPT ![c].contents = x]
      BY <1>7, Zenon DEF FileFread, ReadFileFails, Common, Close
    <2>2. self[c] \in Locals(self[c].args)
      BY <1>1, <2>1 DEF Working
    <2>3. /\ self'[c].newline = self[c].newline
          /\ self'[c].failed = self[c].failed
          /\ self'[c].found_ioctl_cmd = self[c].found_ioctl_cmd
      BY <1>0, <2>1, <2>2 DEF Locals
    <2> QED
      BY <1>2, <2>1, <2>3 DEF Steps
  <1>8. CASE Common(CloseRead(c)) \/ FileSend(c)
    <2>1. /\ pc[c] \in {"closeread", "send"} /\ (Goto(c, "send") \/ Goto(c, "close"))
          /\ UNCHANGED self
      BY <1>8, Zenon DEF Common, CloseRead, FileSend, locals
    <2> QED
      BY <1>2, <2>1 DEF Steps
  <1>9. CASE Common(Flag(c))
    <2>1. pc[c] = "flag" /\ Goto(c, "exit")
      BY <1>9, Zenon DEF Common, Flag
    <2> QED
      BY <1>2, <2>1 DEF Steps
  <1>10. CASE FileLockAppend(c)
    <2>1. /\ LockAppend(c) /\ pc[c] = "lock"
          /\ Goto(c, IF CommandFound(c) THEN "unlock" ELSE "write")
      BY <1>10, Zenon DEF FileLockAppend, LockAppend
    <2>2. self[c] \in Locals(self[c].args)
      BY <1>1, <2>1 DEF Working
    <2>3. self' = [self EXCEPT ![c].found_ioctl_cmd = CommandFound(c),
                               ![c].args = AppendArgs(c), ![c].uncut = AppendUncut(c)]
      BY <2>1, AppendLocals, Zenon
    <2>4. /\ self'[c].newline = self[c].newline
          /\ self'[c].failed = self[c].failed
          /\ self'[c].newString = self[c].newString
          /\ self'[c].found_ioctl_cmd = CommandFound(c)
      <3> DEFINE f == CommandFound(c)
                 a == AppendArgs(c)
                 u == AppendUncut(c)
      <3> HIDE DEF f, a, u
      <3>1. self' = [self EXCEPT ![c].found_ioctl_cmd = f, ![c].args = a, ![c].uncut = u]
        BY <2>3 DEF f, a, u
      <3>2. /\ self'[c].newline = self[c].newline
            /\ self'[c].failed = self[c].failed
            /\ self'[c].newString = self[c].newString
            /\ self'[c].found_ioctl_cmd = f
        BY <1>0, <2>2, <3>1 DEF Locals
      <3> QED
        BY <3>2 DEF f
    <2>5. CASE CommandFound(c)
      <3>1. pc'[c] = "unlock"
        BY <1>0, <2>1, <2>5 DEF Goto
      <3> QED
        BY <2>1, <2>4, <2>5, <3>1 DEF Working
    <2>6. CASE ~CommandFound(c)
      <3>1. pc'[c] = "write" /\ ~self[c].found_ioctl_cmd
        BY <1>0, <2>1, <2>6 DEF Goto, CommandFound
      <3>2. OpenAppend /\ inode' = [inode EXCEPT ![c] = path']
        BY <1>10, <2>6, Zenon DEF FileLockAppend
      <3>3. path' # 0 /\ inode'[c] = path'
        BY <1>0, <3>2 DEF OpenAppend
      <3>4. InHand(c)' = InHand(c)
        BY <2>1, <2>4, <3>1 DEF InHand
      <3> QED
        BY <2>1, <2>4, <3>1, <3>3, <3>4 DEF Working
    <2> QED
      BY <2>5, <2>6
  <1> QED
    BY <1>3, <1>4, <1>5, <1>6, <1>7, <1>8, <1>9, <1>10, Zenon DEF FileHandler, Common

(* What its own thread does. *)
LEMMA DeliveredOwn ==
    ASSUME FileInv, HeldAll, FileStep, ~Ended, NEW c \in Client, Delivered(c), FileHandler(c),
           c \notin crossed, ~Terminating' => ~Terminating, robbed' = {} => robbed = {}
    PROVE  /\ Working(c)' /\ Smooth(c)' => Underway(c)'
           /\ pc'[c] \in {"recv", "receiving"} => ~self'[c].newline
           /\ pc'[c] = "write" /\ ~Terminating' => path' # 0 /\ inode'[c] = path'
  <1>0. /\ OthersClean(c, {c}) /\ (Working(c) /\ Smooth(c) => Underway(c))
        /\ pc[c] \in {"recv", "receiving"} => ~self[c].newline
        /\ pc[c] = "write" /\ ~Terminating => path # 0 /\ inode[c] = path
        /\ pc \in [Client -> Steps]
    BY DEF Delivered, FileInv, Control, ControlTyped
  <1>1. CASE Received(c)
    <2>1. pc[c] = "receiving" /\ pc'[c] = "lock" /\ Working(c) /\ ~self[c].newline
          /\ self'[c].failed = self[c].failed
          /\ self'[c].found_ioctl_cmd = self[c].found_ioctl_cmd
      BY <1>0, <1>1, Receiving DEF Working
    <2>2. UNCHANGED <<files, path>>
      <3>1. \/ UNCHANGED fileVars
            \/ FileLockAppend(c) \/ FileWrite(c) \/ FileLockRead(c) \/ FileFread(c) \/ ReadFileFails(c) \/ FileSend(c)
        BY Zenon DEF FileHandler, Common
      <3>2. \/ FileLockAppend(c) \/ FileWrite(c) \/ FileLockRead(c) \/ FileFread(c) \/ ReadFileFails(c) \/ FileSend(c)
            => pc[c] \in {"lock", "write", "lockread", "fread", "send"}
        BY Zenon DEF FileLockAppend, LockAppend, FileWrite, FileLockRead, FileFread, ReadFileFails, FileSend
      <3> QED
        BY <2>1, <3>1, <3>2 DEF fileVars
    <2>3. ASSUME Smooth(c)'
          PROVE  Underway(c)'
      <3>1. Smooth(c) /\ robbed = {}
        BY <2>1, <2>3 DEF Smooth
      <3>2. self[c].conn = c
        BY <2>1, <3>1 DEF HeldAll, Holds
      <3>3. FileText' = FileText
        BY <2>2 DEF FileText
      <3> QED
        BY <1>0, <1>1, <2>1, <3>1, <3>2, <3>3, UnderwayReceived
    <2> QED
      BY <2>1, <2>3
  <1>2. CASE FileWrite(c)
    <2>1. PICK s \in {"write", "unlock"} : Goto(c, s)
      BY <1>2, FileWriteGoto
    <2>2. pc[c] = "write" /\ Working(c) /\ pc'[c] \in {"write", "unlock"} /\ UNCHANGED <<path, inode>>
      <3>1. pc[c] = "write" /\ UNCHANGED <<path, inode>>
        BY <1>2, Zenon DEF FileWrite
      <3> QED
        BY <1>0, <2>1, <3>1 DEF Goto, Working
    <2>3. ASSUME Smooth(c)'
          PROVE  Underway(c)'
      <3>1. ~Terminating /\ robbed = {} /\ ~self'[c].failed
        BY <2>3 DEF Smooth
      <3>2. Smooth(c)
        <4>1. \/ \E t : self' = [self EXCEPT ![c].newString = t]
              \/ self' = [self EXCEPT ![c].newString = <<>>, ![c].failed = TRUE]
          BY <1>2, Zenon DEF FileWrite
        <4>2. self[c] \in Locals(self[c].args) /\ DOMAIN self = Client
          BY <2>2 DEF FileInv, Data, LocalsTyped
        <4>3. self'[c].found_ioctl_cmd = self[c].found_ioctl_cmd
              /\ (self'[c].failed = self[c].failed \/ self'[c].failed)
          BY <4>1, <4>2 DEF Locals
        <4> QED
          BY <2>3, <3>1, <4>3 DEF Smooth
      <3> QED
        BY <1>0, <1>2, <2>2, <3>1, <3>2, UnderwayWritten
    <2> QED
      BY <1>0, <2>2, <2>3
  <1>3. CASE ~Received(c) /\ ~FileWrite(c)
    <2>1. /\ pc[c] # "write" /\ Working(c)
          /\ Working(c)' => /\ self'[c].newline = self[c].newline
                            /\ self'[c].failed = self[c].failed
                            /\ self[c].found_ioctl_cmd => self'[c].found_ioctl_cmd
                            /\ ~self'[c].found_ioctl_cmd => InHand(c)' = InHand(c)
          /\ pc'[c] \in {"recv", "receiving"} =>
                pc[c] = "recv" \/ (pc[c] = "unlock" /\ ~self[c].newline)
          /\ pc'[c] = "write" => path' # 0 /\ inode'[c] = path'
      BY <1>3, OtherMoves
    <2>2. ASSUME Working(c)', Smooth(c)'
          PROVE  Underway(c)'
      <3>1. Smooth(c) /\ InHand(c)' = InHand(c) /\ self'[c].newline = self[c].newline /\ ~Terminating'
        BY <2>1, <2>2 DEF Smooth
      <3>2. PartOf(c, FileText)' = PartOf(c, FileText)
        <4>1. \A k \in Pieces(TextOf(c)) : ~Written(c, k)
          BY <2>1 DEF Written
        <4> QED
          BY <1>0, <3>1, <4>1, FileTextStays
      <3>3. SentKept
        <4>1. UNCHANGED sent \/ \E w \in Client : sent' = [sent EXCEPT ![w] = <<>>]
          <5>1. CASE ReadFileFails(c)
            <6>1. sent' = IF fds[file[c]].kind = "sock" THEN [sent EXCEPT ![fds[file[c]].owner] = <<>>] ELSE sent
              BY <5>1, Zenon DEF ReadFileFails
            <6>2. fds[file[c]].kind = "sock" => fds[file[c]].owner \in Client
              <7>1. pc[c] = "fread"
                BY <5>1, Zenon DEF ReadFileFails
              <7>2. file[c] \in Fd
                BY <7>1 DEF FileInv, Control, ControlTyped, StreamsHeld
              <7> QED
                BY <7>2 DEF FileInv, Control, StreamsHeld
            <6> QED
              BY <6>1, <6>2
          <5>2. CASE ~ReadFileFails(c)
            BY <1>3, <5>2, Zenon DEF FileHandler, Common, Recv, EndOfStream, FileLockAppend, LockAppend,
               Unlock, FileLockRead, FileFread, CloseRead, FileSend, Close, Flag, network
          <5> QED
            BY <5>1, <5>2
        <4>2. ASSUME NEW w \in Client, sent' = [sent EXCEPT ![w] = <<>>]
              PROVE  SentKept
          <5>1. sent[w] \in Text /\ sent \in [Client -> Text]
            BY DEF FileInv, Data
          <5>2. 0 \in 0..Len(sent[w]) /\ SubSeq(sent[w], 1, 0) = <<>>
            BY <5>1 DEF Text
          <5>3. sent' = [sent EXCEPT ![w] = SubSeq(@, 1, 0)]
            BY <4>2, <5>1, <5>2
          <5> QED
            BY <5>2, <5>3, SentOne
        <4> QED
          BY <4>1, <4>2, SentSame
      <3> QED
        BY <1>0, <2>1, <3>1, <3>2, <3>3, UnderwayStays DEF SentKept
    <2> QED
      BY <1>0, <2>1, <2>2 DEF Working
  <1> QED
    BY <1>1, <1>2, <1>3

(* A step its thread has no part in. *)
LEMMA DeliveredKept ==
    ASSUME FileInv, FileStep, ~Ended, NEW c \in Client, Delivered(c), c \notin crossed,
           ThreadKept(c), inode'[c] = inode[c], SentKeptOf(c),
           ~Terminating' => ~Terminating, robbed' = {} => robbed = {}
    PROVE  /\ Working(c)' /\ Smooth(c)' => Underway(c)'
           /\ pc'[c] \in {"recv", "receiving"} => ~self'[c].newline
           /\ pc'[c] = "write" /\ ~Terminating' => path' # 0 /\ inode'[c] = path'
  <1>0. /\ OthersClean(c, {c}) /\ (Working(c) /\ Smooth(c) => Underway(c))
        /\ pc[c] \in {"recv", "receiving"} => ~self[c].newline
        /\ pc[c] = "write" /\ ~Terminating => path # 0 /\ inode[c] = path
        /\ pc'[c] = pc[c] /\ self'[c] = self[c]
    BY DEF Delivered, ThreadKept
  <1>1. ASSUME Working(c)', Smooth(c)'
        PROVE  Underway(c)'
    <2>1. Working(c) /\ Smooth(c) /\ ~Terminating' /\ InHand(c)' = InHand(c)
      BY <1>0, <1>1 DEF Working, Smooth, InHand
    <2>2. PartOf(c, FileText)' = PartOf(c, FileText)
      BY <1>0, <2>1, NothingWritten, FileTextStays
    <2> QED
      BY <1>0, <2>1, <2>2, UnderwayStays
  <1>2. ASSUME pc'[c] = "write", ~Terminating'
        PROVE  path' # 0 /\ inode'[c] = path'
    BY <1>0, <1>2, PathStays
  <1> QED
    BY <1>0, <1>1, <1>2

LEMMA UnservedBefore ==
    ASSUME FileInv, FileNext, NEW c \in Client, Unserved(c)'
    PROVE  Unserved(c)
  <1>0. client \in [Client -> {"new", "waiting", "open", "gone"}]
    BY DEF FileInv, Control, ControlTyped
  <1>1. CASE Ended
    BY <1>0, <1>1 DEF Ended, Unserved
  <1>2. CASE \E d \in Client : FileHandler(d)
    <2>1. PICK d \in Client : FileHandler(d)
      BY <1>2
    <2>2. Recv(d) \/ Received(d) \/ EndOfStream(d) \/ Unlock(d) => UNCHANGED <<client, main, accepted>>
      BY Zenon DEF Recv, Received, EndOfStream, Unlock, mainVars, network
    <2>3. FileLockAppend(d) \/ FileWrite(d) \/ FileLockRead(d) \/ FileFread(d) => UNCHANGED <<client, main, accepted>>
      BY Zenon DEF FileLockAppend, LockAppend, FileWrite, FileLockRead, FileFread, mainVars, network
    <2>4. ReadFileFails(d) \/ CloseRead(d) \/ FileSend(d) \/ Close(d) \/ Flag(d) => UNCHANGED <<client, main, accepted>>
      BY Zenon DEF ReadFileFails, CloseRead, FileSend, Close, Flag, mainVars, network
    <2>5. UNCHANGED <<client, main, accepted>>
      BY <2>1, <2>2, <2>3, <2>4, Zenon DEF FileHandler, Common
    <2> QED
      BY <2>5 DEF Unserved
  <1>3. CASE MainCreate \/ MainInsert
    <2>1. UNCHANGED client /\ main' \in {"insert", "cleanup"}
      BY <1>3 DEF MainCreate, MainInsert, network
    <2> QED
      BY <2>1 DEF Unserved
  <1>4. CASE CleanupThreads
    <2>1. UNCHANGED client /\ main' \in {"accept", "cleanup"}
      BY <1>4 DEF CleanupThreads, Reap, network
    <2> QED
      BY <2>1 DEF Unserved
  <1>5. ASSUME NEW d \in Client, MainAccept(d)
        PROVE  Unserved(c)
    <2>1. /\ client[d] = "waiting" /\ client' = [client EXCEPT ![d] = "open"]
          /\ accepted' = d
      BY <1>5, Zenon DEF MainAccept
    <2> QED
      BY <1>0, <2>1 DEF Unserved
  <1>6. CASE TimerThread \/ RemoveAgain \/ FileStart \/ StartFails
    <2>1. UNCHANGED <<client, accepted>> /\ (main' = main \/ main' = "exit")
      BY <1>6, Zenon DEF TimerThread, TimerLock, TimerWrite, TimerUnlock, TimerWake, RemoveAgain,
         FileStart, Start, StartFails, mainVars, network, vars
    <2> QED
      BY <2>1 DEF Unserved
  <1>7. CASE Signal
    <2>1. /\ main' = "remove"
          /\ client' = [w \in Client |-> IF client[w] = "waiting" THEN "gone" ELSE client[w]]
      BY <1>7, Zenon DEF Signal
    <2> QED
      BY <2>1 DEF Unserved
  <1>8. ASSUME NEW d \in Client, Connect(d) \/ HangUp(d) \/ MainAcceptFails(d)
        PROVE  Unserved(c)
    <2>1. UNCHANGED <<main, accepted>>
      BY <1>8, Zenon DEF Connect, HangUp, MainAcceptFails, mainVars
    <2>2. \/ client[d] = "new" /\ client' = [client EXCEPT ![d] = "waiting"]
          \/ client' = [client EXCEPT ![d] = "gone"]
      BY <1>8, Zenon DEF Connect, HangUp, MainAcceptFails
    <2> QED
      BY <1>0, <2>1, <2>2 DEF Unserved
  <1>9. \/ Exit \/ SignalCrashes \/ TimerLockFails
        \/ \E d \in Client : FileLockFails(d) \/ FileBrokenPipe(d)
        => Ended
    BY Zenon DEF Exit, SignalCrashes, TimerLockFails, FileLockFails, FileBrokenPipe, BrokenPipe,
       FileCrash, Crash
  <1> QED
    BY <1>1, <1>2, <1>3, <1>4, <1>5, <1>6, <1>7, <1>8, <1>9, Zenon
    DEF FileNext, FileMain, FileEnvironment, Main, Common

LEMMA CrossedGrows ==
    ASSUME FileNext
    PROVE  crossed \subseteq crossed'
  <1>1. UNCHANGED crossed \/ \E x : crossed' = crossed \cup x
    <2>1. CASE \E d \in Client : FileHandler(d)
      <3>1. PICK d \in Client : FileHandler(d)
        BY <2>1
      <3>2. CASE Received(d)
        <4>1. crossed' = IF self[d].conn = d THEN crossed ELSE crossed \cup {self[d].conn}
          BY <3>2, Zenon DEF Received
        <4> QED
          BY <4>1
      <3>3. CASE ReadFileFails(d)
        <4>1. crossed' = IF fds[file[d]].kind = "sock" THEN crossed \cup {fds[file[d]].owner} ELSE crossed
          BY <3>3, Zenon DEF ReadFileFails
        <4> QED
          BY <4>1
      <3>4. CASE ~Received(d) /\ ~ReadFileFails(d)
        BY <3>1, <3>4, Zenon DEF FileHandler, Common, Recv, EndOfStream, FileLockAppend, LockAppend,
           FileWrite, Unlock, FileLockRead, FileFread, CloseRead, FileSend, Close, Flag, network
      <3> QED
        BY <3>2, <3>3, <3>4
    <2>2. CASE Main
      BY <2>2, Zenon DEF Main, MainCreate, MainInsert, CleanupThreads, Reap, MainAccept, network
    <2>3. CASE TimerThread \/ RemoveAgain \/ Exit
      BY <2>3, Zenon DEF TimerThread, TimerLock, TimerWrite, TimerUnlock, TimerWake, RemoveAgain, Exit,
         Ended, network, vars
    <2>4. CASE FileEnvironment
      BY <2>4, Zenon DEF FileEnvironment, FileStart, Start, StartFails, Signal, SignalCrashes,
         TimerLockFails, FileLockFails, FileBrokenPipe, BrokenPipe, FileCrash, Crash, Ended, Common,
         Connect, HangUp, MainAcceptFails, network
    <2> QED
      BY <2>1, <2>2, <2>3, <2>4, Zenon DEF FileNext, FileMain, Common
  <1> QED
    BY <1>1

(* Nobody else has anything of c. *)
LEMMA DeliveredClean ==
    ASSUME FileInv, SentApart, FileStep, NEW c \in Client, c \notin crossed', OthersClean(c, {c})
    PROVE  OthersClean(c, {c})' /\ (SentKeptOf(c) \/ Received(c))
  <1>1. CASE Quiet
    BY <1>1, OthersStayClean DEF Quiet, SentKept, SentKeptOf
  <1>2. CASE \E o \in Owner : \E k \in Pieces(TextOf(o)) : Written(o, k)
    BY <1>2, OthersStayClean DEF Written, SentKept, SentKeptOf
  <1>3. CASE Ended
    BY <1>3, OthersStayClean, EndedKeepsSent DEF SentKept, SentKeptOf
  <1>4. ASSUME NEW d \in Client, Received(d)
        PROVE  OthersClean(c, {c})' /\ (SentKeptOf(c) \/ Received(c))
    <2>1. PICK o \in Client : \E k \in 1..Len(sent[o]) :
              /\ pc[d] = "receiving" /\ pc' = [pc EXCEPT ![d] = "lock"]
              /\ sent' = [sent EXCEPT ![o] = SubSeq(@, k + 1, Len(@))]
              /\ self'[d].newString = extract_data_up_to_newline(SubSeq(sent[o], 1, k))
              /\ \A w \in Client : w # d => self'[w] = self[w]
              /\ o # d => o \in crossed'
      BY <1>4, Receiving
    <2>2. PICK k \in 1..Len(sent[o]) :
              /\ pc[d] = "receiving" /\ pc' = [pc EXCEPT ![d] = "lock"]
              /\ sent' = [sent EXCEPT ![o] = SubSeq(@, k + 1, Len(@))]
              /\ self'[d].newString = extract_data_up_to_newline(SubSeq(sent[o], 1, k))
              /\ \A w \in Client : w # d => self'[w] = self[w]
              /\ o # d => o \in crossed'
      BY <2>1
    <2>3. /\ pc \in [Client -> Steps] /\ sent \in [Client -> Text] /\ Len(sent[o]) \in Nat
      BY DEF FileInv, Control, ControlTyped, Data, Text
    <2>4. d = c \/ self'[d].newString \in CleanTexts(c)
      <3> SUFFICES ASSUME d # c
                   PROVE  self'[d].newString \in CleanTexts(c)
        OBVIOUS
      <3>1. o # c
        BY <2>2
      <3>2. sent[o] \in CleanTexts(c) /\ k \in 0..Len(sent[o])
        BY <2>3, <3>1 DEF SentApart
      <3> QED
        BY <2>2, <3>2, CleanPiece, CleanExtract
    <2>5. OthersClean(c, {c})'
      <3>1. ASSUME NEW w \in Client \ {c}, Carrying(w)'
            PROVE  self'[w].newString \in CleanTexts(c)
        <4>1. CASE w = d
          BY <2>4, <4>1
        <4>2. CASE w # d
          BY <2>2, <2>3, <3>1, <4>2 DEF OthersClean, Carrying
        <4> QED
          BY <4>1, <4>2
      <3> QED
        BY <3>1 DEF OthersClean
    <2>6. CASE d = c
      BY <1>4, <2>5, <2>6
    <2>7. CASE d # c
      <3>1. sent'[c] = sent[c]
        BY <2>2, <2>3, <2>7
      <3>2. Len(sent[c]) \in 0..Len(sent[c]) /\ sent[c] = SubSeq(sent[c], 1, Len(sent[c]))
        BY <2>3 DEF Text
      <3> QED
        BY <2>5, <3>1, <3>2 DEF SentKeptOf
    <2> QED
      BY <2>6, <2>7
  <1> QED
    BY <1>1, <1>2, <1>3, <1>4 DEF FileStep, Left, LeftAsIs

(* Before its thread starts, the files have nothing of c. *)
LEMMA DeliveredUnserved ==
    ASSUME FileInv, FileStep, NEW c \in Client, c \notin crossed', OthersClean(c, {c}), pc[c] = "none",
           files \in Seq(CleanTexts(c)), BeginningUnderWay(c), SentKeptOf(c)
    PROVE  files' \in Seq(CleanTexts(c)) /\ BeginningUnderWay(c)'
  <1>1. files' \in Seq(CleanTexts(c))
    <2>1. ASSUME NEW o \in Owner, NEW k \in Pieces(TextOf(o)), Writes(o, k)
          PROVE  Piece(TextOf(o), k) \in CleanTexts(c)
      <3>1. o # c
        BY <2>1 DEF Writes, Written, Left
      <3> QED
        BY <2>1, <3>1, WriterClean
    <2>2. CASE Quiet \/ LeftAsIs
      BY <2>2, CleanStay
    <2>3. ASSUME NEW o \in Owner, NEW k \in Pieces(TextOf(o)), Writes(o, k)
          PROVE  files' \in Seq(CleanTexts(c))
      BY <2>1, <2>3, CleanStay
    <2>4. CASE UNCHANGED files
      BY <2>4
    <2> QED
      BY <2>2, <2>3, <2>4 DEF FileStep, Writes
  <1>2. BeginningUnderWay(c)'
    BY UnderWayKept
  <1> QED
    BY <1>1, <1>2

LEMMA DeliveredNext ==
    ASSUME FileInv, SentApart, HeldAll, FileStep, FileNext, NEW c \in Client, Delivered(c)
    PROVE  Delivered(c)'
  <1> SUFFICES ASSUME c \notin crossed'
               PROVE  /\ OthersClean(c, {c})'
                      /\ Unserved(c)' => (files' \in Seq(CleanTexts(c)) /\ BeginningUnderWay(c)')
                      /\ Working(c)' /\ Smooth(c)' => Underway(c)'
                      /\ pc'[c] \in {"recv", "receiving"} => ~self'[c].newline
                      /\ pc'[c] = "write" /\ ~Terminating' => path' # 0 /\ inode'[c] = path'
    BY Zenon DEF Delivered, CleanTexts, Private, Own
  <1>1. /\ c \notin crossed /\ OthersClean(c, {c})
        /\ Unserved(c) => files \in Seq(CleanTexts(c)) /\ BeginningUnderWay(c)
        /\ pc \in [Client -> Steps] /\ DOMAIN self = Client
        /\ DOMAIN file = Client /\ DOMAIN client_socket = Client
    BY CrossedGrows DEF Delivered, FileInv, Control, ControlTyped, Data
  <1>2. OthersClean(c, {c})' /\ (SentKeptOf(c) \/ Received(c))
    BY <1>1, DeliveredClean
  <1>3. pc[c] = "receiving" => ~Unserved(c)
    BY DEF FileInv, Control, ThreadsOnce, Unserved
  <1>4. ASSUME Unserved(c)'
        PROVE  files' \in Seq(CleanTexts(c)) /\ BeginningUnderWay(c)'
    <2>1. Unserved(c)
      BY <1>4, UnservedBefore
    <2>2. pc[c] = "none"
      BY <2>1 DEF FileInv, Control, ThreadsOnce, Unserved
    <2>3. SentKeptOf(c)
      BY <1>2, <2>2 DEF Received
    <2> QED
      BY <1>1, <2>1, <2>2, <2>3, DeliveredUnserved
  <1>5. CASE Ended
    <2>1. pc'[c] = "none"
      BY <1>5 DEF Ended
    <2> QED
      BY <1>2, <1>4, <2>1 DEF Working
  <1>6. CASE ~Ended
    <2>1. (robbed' = {} => robbed = {}) /\ (~Terminating' => ~Terminating)
      BY <1>6, LastsTillEnd
    <2>2. ASSUME NEW d \in Client, FileHandler(d), d # c
          PROVE  ThreadKept(c) /\ inode'[c] = inode[c] /\ SentKeptOf(c)
      <3>1. ThreadKept(c) /\ inode'[c] = inode[c]
        BY <2>2, HandlerAlone
      <3>2. ~Received(c)
        <4> SUFFICES ASSUME Received(c)
                     PROVE  FALSE
          OBVIOUS
        <4>1. pc'[c] = "lock" /\ pc[c] = "receiving"
          BY <1>1, Receiving
        <4> QED
          BY <3>1, <4>1 DEF ThreadKept
      <3> QED
        BY <1>2, <3>1, <3>2
    <2>3. CASE FileHandler(c)
      BY <1>1, <1>2, <1>4, <1>6, <2>1, <2>3, DeliveredOwn
    <2>4. ASSUME ThreadKept(c), inode'[c] = inode[c], SentKeptOf(c)
          PROVE  /\ Working(c)' /\ Smooth(c)' => Underway(c)'
                 /\ pc'[c] \in {"recv", "receiving"} => ~self'[c].newline
                 /\ pc'[c] = "write" /\ ~Terminating' => path' # 0 /\ inode'[c] = path'
      BY <1>1, <1>6, <2>1, <2>4, DeliveredKept
    <2>5. CASE Main /\ UNCHANGED fileVars
      <3>1. UNCHANGED <<files, path, inode>>
        BY <2>5 DEF fileVars
      <3>2. CASE MainCreate /\ accepted = c /\ ~UNCHANGED threads
        <4>1. /\ Goto(c, "recv") /\ self' = [self EXCEPT ![c] = NoLocals]
              /\ main = "create" /\ UNCHANGED sent
          BY <3>2, Zenon DEF MainCreate, network
        <4>2. pc'[c] = "recv" /\ ~self'[c].newline
          BY <1>1, <4>1 DEF Goto, NoLocals
        <4>3. Underway(c)'
          BY <1>1, <3>1, <3>2, <4>1, <4>2, UnderwayBegins DEF Unserved
        <4> QED
          BY <1>2, <1>4, <4>2, <4>3
      <3>3. CASE ~(MainCreate /\ accepted = c /\ ~UNCHANGED threads)
        <4>1. ThreadKept(c)
          <5>1. CASE MainCreate /\ ~UNCHANGED threads
            BY <1>1, <3>3, <5>1 DEF MainCreate, ThreadKept, Goto
          <5>2. CASE UNCHANGED threads
            BY <5>2 DEF ThreadKept, threads, locals
          <5>3. CASE ~MainCreate
            <6>1. UNCHANGED threads
              BY <2>5, <5>3, Zenon DEF Main, MainInsert, CleanupThreads, Reap, MainAccept
            <6> QED
              BY <5>2, <6>1
          <5> QED
            BY <5>1, <5>2, <5>3
        <4>2. SentKeptOf(c)
          <5>1. ~Received(c)
            <6>1. Received(c) => pc'[c] = "lock" /\ pc[c] = "receiving"
              BY <1>1, Receiving
            <6> QED
              BY <4>1, <6>1 DEF ThreadKept
          <5> QED
            BY <1>2, <5>1
        <4> QED
          BY <1>2, <1>4, <2>4, <3>1, <4>1, <4>2
      <3> QED
        BY <3>2, <3>3
    <2>6. CASE Aside
      <3>1. ThreadKept(c) /\ inode'[c] = inode[c]
        BY <2>6 DEF Aside, ThreadKept, threads, locals
      <3>2. Received(c) => pc'[c] = "lock" /\ pc[c] = "receiving"
        BY <1>1, Receiving
      <3> QED
        BY <1>2, <1>4, <2>4, <3>1, <3>2 DEF ThreadKept
    <2>7. ASSUME NEW d \in Client, FileHandler(d), d # c
          PROVE  /\ Working(c)' /\ Smooth(c)' => Underway(c)'
                 /\ pc'[c] \in {"recv", "receiving"} => ~self'[c].newline
                 /\ pc'[c] = "write" /\ ~Terminating' => path' # 0 /\ inode'[c] = path'
      BY <2>2, <2>4, <2>7
    <2> QED
      BY <1>2, <1>4, <1>6, <2>3, <2>5, <2>6, <2>7, StepKinds
  <1> QED
    BY <1>5, <1>6
-----------------------------------------------------------------------------
ReplyInv ==
    /\ FileInv /\ SentApart /\ HeldAll
    /\ \A c \in Client : Replied(c) /\ Delivered(c)

LEMMA ReplyInit == FileInit => ReplyInv
  <1>1. ASSUME FileInit, NEW c \in Client
        PROVE  Holds(c) /\ Replied(c) /\ Delivered(c)
    <2>1. pc[c] = "none" /\ \A d \in Client : pc[d] = "none"
      BY <1>1 DEF FileInit, Init
    <2>2. Holds(c) /\ Replied(c)
      BY <1>1, <2>1 DEF FileInit, Init, Holds, Streaming, Serving, Carrying, Replied
    <2>3. files \in Seq(CleanTexts(c))
      BY <1>1 DEF FileInit
    <2>4. BeginningUnderWay(c)
      <3>1. sent[c] = Stream[c] /\ Len(Stream[c]) \in 0..Len(Stream[c])
            /\ Stream[c] = SubSeq(Stream[c], 1, Len(Stream[c]))
        BY <1>1, StreamText DEF FileInit, Init, Text
      <3> QED
        BY <3>1 DEF BeginningUnderWay
    <2> QED
      BY <2>1, <2>2, <2>3, <2>4 DEF Delivered, OthersClean, Carrying, Working
  <1> QED
    BY <1>1, FileInitInv, SentApartInit DEF ReplyInv, HeldAll

LEMMA ReplyNext ==
    ASSUME ReplyInv, FileNext
    PROVE  ReplyInv'
  <1>1. FileInv /\ SentApart /\ HeldAll /\ FileStep
    BY FilesTouched DEF ReplyInv
  <1>2. FileInv' /\ SentApart' /\ HeldAll'
    BY <1>1, FileNextInv, SentApartNext, HeldNext
  <1>3. ASSUME NEW c \in Client
        PROVE  Delivered(c)'
    BY <1>1, DeliveredNext DEF ReplyInv
  <1>4. ASSUME NEW c \in Client
        PROVE  Replied(c)'
    <2>1. Replied(c)
      BY DEF ReplyInv
    <2>2. CASE Ended
      BY <2>2 DEF Ended, Replied
    <2>3. CASE ~Ended
      <3>1. (robbed' = {} => robbed = {}) /\ (~Terminating' => ~Terminating)
        BY <1>1, <2>3, LastsTillEnd
      <3>2. ASSUME NEW d \in Client, FileHandler(d)
            PROVE  Replied(c)'
        <4>1. CASE c = d
          BY <1>1, <2>1, <3>2, <4>1, RepliedOwn
        <4>2. CASE c # d
          <5>1. ThreadKept(c) /\ inode'[c] = inode[c]
            BY <1>1, <3>2, <4>2, HandlerAlone
          <5> QED
            BY <1>1, <2>1, <2>3, <3>1, <5>1, RepliedKept
        <4> QED
          BY <4>1, <4>2
      <3>3. CASE Main /\ UNCHANGED fileVars
        <4>1. inode'[c] = inode[c]
          BY <3>3 DEF fileVars
        <4>2. ThreadKept(c) \/ pc'[c] = "recv"
          <5>1. CASE MainCreate
            <6>1. pc \in [Client -> Steps] /\ DOMAIN self = Client
                  /\ DOMAIN file = Client /\ DOMAIN client_socket = Client
              BY <1>1 DEF FileInv, Control, ControlTyped, Data
            <6> QED
              BY <5>1, <6>1 DEF MainCreate, ThreadKept, Goto, threads, locals
          <5>2. CASE ~MainCreate
            <6>1. UNCHANGED threads
              BY <3>3, <5>2, Zenon DEF Main, MainInsert, CleanupThreads, Reap, MainAccept
            <6> QED
              BY <6>1 DEF ThreadKept, threads, locals
          <5> QED
            BY <5>1, <5>2
        <4>3. CASE ThreadKept(c)
          BY <1>1, <2>1, <2>3, <3>1, <4>1, <4>3, RepliedKept
        <4>4. CASE pc'[c] = "recv"
          BY <4>4 DEF Replied
        <4> QED
          BY <4>2, <4>3, <4>4
      <3>4. CASE Aside
        <4>1. ThreadKept(c) /\ inode'[c] = inode[c]
          BY <3>4 DEF Aside, ThreadKept, threads, locals
        <4> QED
          BY <1>1, <2>1, <2>3, <3>1, <4>1, RepliedKept
      <3> QED
        BY <1>1, <2>3, <3>2, <3>3, <3>4, StepKinds
    <2> QED
      BY <2>2, <2>3
  <1> QED
    BY <1>2, <1>3, <1>4 DEF ReplyInv

LEMMA ReplyStutters ==
    ASSUME ReplyInv, UNCHANGED allVars
    PROVE  ReplyInv'
  <1>1. UNCHANGED <<pc, self, file, client_socket, fds, info, main, accepted, client, sent, robbed,
                    crossed, files, path, inode>>
    BY Zenon DEF allVars, vars, process, mainVars, threads, locals, network, fileVars
  <1>2. FileInv' /\ SentApart'
    BY <1>1, FileStutters DEF ReplyInv, SentApart
  <1>3. ASSUME NEW c \in Client
        PROVE  (Holds(c) => Holds(c)') /\ (Replied(c) => Replied(c)')
    BY <1>1 DEF Holds, Streaming, Serving, Carrying, Socket, Replied, InFile, Terminating
  <1>4. ASSUME NEW c \in Client, Delivered(c)
        PROVE  Delivered(c)'
    <2>1. /\ OthersClean(c, {c})' <=> OthersClean(c, {c})
          /\ BeginningUnderWay(c)' <=> BeginningUnderWay(c)
          /\ Unserved(c)' <=> Unserved(c)
          /\ Working(c)' <=> Working(c)
          /\ Smooth(c)' <=> Smooth(c)
          /\ Terminating' <=> Terminating
      BY <1>1 DEF OthersClean, Carrying, BeginningUnderWay, Unserved, Working, Smooth, Terminating
    <2>2. Got(c)' = Got(c)
      BY <1>1, Zenon DEF Got, PartOf, FileText, InHand
    <2>3. Underway(c) => Underway(c)'
      BY <1>1, <2>2, Zenon DEF Underway, UnderwayFrom, Packet
    <2> QED
      BY <1>1, <1>4, <2>1, <2>3 DEF Delivered
  <1> QED
    BY <1>1, <1>2, <1>3, <1>4 DEF ReplyInv, HeldAll

(* What was read of the file has the whole packet of c. *)
LEMMA ReplyHolds == ReplyInv => ReplyIsFileWithPacket
  <1> SUFFICES ASSUME ReplyInv, NEW c \in Client, c \notin crossed,
                      pc[c] = "send", self[c].contents \notin {NULL, NoSize},
                      self[c].newline, ~self[c].found_ioctl_cmd, ~self[c].failed,
                      ~Terminating, robbed = {}
               PROVE  /\ IsPrefix(self[c].contents, files[path])
                      /\ PartOf(c, self[c].contents) = PartOf(c, Packet(c))
    BY Zenon DEF ReplyIsFileWithPacket
  <1>1. InFile(c, self[c].contents)
    BY DEF ReplyInv, Replied
  <1>2. Underway(c)
    BY DEF ReplyInv, Delivered, Working, Smooth
  <1>3. PICK q \in 0..Len(Packet(c)) : UnderwayFrom(c, q)
    BY <1>2 DEF Underway
  <1>4. Got(c) = PartOf(c, Packet(c))
    <2>1. q = Len(Packet(c)) /\ Got(c) = PartOf(c, SubSeq(Stream[c], 1, q))
      BY <1>3 DEF UnderwayFrom
    <2> QED
      BY <2>1, PacketBounds
  <1>5. Got(c) = PartOf(c, files[path])
    <2>1. FileText = files[path] /\ InHand(c) = <<>>
      BY <1>1 DEF InFile, FileText, InHand
    <2>2. PartOf(c, <<>>) = <<>> /\ PartOf(c, FileText) \in Text
      BY FileTextTyped, PartText, CleanStamp, PartEmpty DEF ReplyInv
    <2>3. PartOf(c, FileText) \o <<>> = PartOf(c, FileText)
      BY <2>2, ConcatEmptySeq DEF Text
    <2> QED
      BY <2>1, <2>2, <2>3 DEF Got
  <1> QED
    BY <1>1, <1>4, <1>5 DEF InFile

(* For any number of clients, packets and descriptors: the reply to a      *)
(* client that sent a packet is the beginning of the file and has all of   *)
(* that packet, and of what only this client sends nothing else, whatever  *)
(* timestamps and packets of others are written between its append and its *)
(* read; unless a write or the read failed, a signal came or a descriptor  *)
(* was closed by a thread that does not own it.                            *)
THEOREM RepliesWithPacket == FileSpec => []ReplyIsFileWithPacket
  <1>1. ReplyInv /\ [FileNext]_allVars => ReplyInv'
    BY ReplyNext, ReplyStutters
  <1> QED
    BY <1>1, ReplyHolds, ReplyInit, PTL DEF FileSpec
=============================================================================
