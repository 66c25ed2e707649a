----------------------------- MODULE FileServer -----------------------------
(***************************************************************************)
(* The server server/aesdsocket.c in the build without                     *)
(* USE_AESD_CHAR_DEVICE: packets are kept in /var/tmp/aesdsocketdata, a    *)
(* timer thread adds a timestamp every ten seconds, and the signal         *)
(* handlers remove the file, while the other threads go on.                *)
(*                                                                         *)
(* Connections, threads and descriptors are those of AesdSocket, whose     *)
(* device is not used here.  A stream of kind "dev" is one of the file.    *)
(* server_socket and global_file have descriptors outside of Fd.           *)
(***************************************************************************)
EXTENDS AesdSocket

CONSTANTS
    Timer,          \* the timer thread
    Stamp,          \* the text of a timestamp
    NoSize,         \* read_file has failed and left -1 in fsize
    MaxStamps       \* bound: how often the timer thread wakes up

ASSUME TimerAssumption == Timer \notin Client \cup {NoClient}
ASSUME StampAssumption ==
    /\ Stamp \in Seq(ToSet(Stamp)) /\ Len(Stamp) <= BUFSIZ
    /\ \E i \in 1..Len(Stamp) : Stamp[i] = NL
ASSUME StampsAssumption == MaxStamps \in Nat

VARIABLES
    files, path,    \* the contents of files, and which is FILE_NAME, or 0
    inode,          \* the file behind the stream each thread has opened
    global_file,    \* whether it is not NULL
    timer, timer_fd,\* the timer thread: next step, local variable file
    stamps          \* number of times it woke up, for MaxStamps

fileVars == <<files, path, inode, global_file, timer, timer_fd, stamps>>
allVars  == <<vars, fileVars>>

Owner == Client \cup {Timer}

FileInit ==
    /\ Init
    /\ files = <<>> /\ path = 0
    /\ inode = [o \in Owner |-> 0]
    /\ global_file = FALSE
    /\ timer = "none" /\ timer_fd = 0
    /\ stamps = 0

(* Fault: the file is not created. *)
OpenAppend_NoCreate == UNCHANGED <<files, path>>

(* Fault: the file is opened with "w+". *)
OpenAppend_Truncates ==
    /\ path' = IF path = 0 THEN Len(files) + 1 ELSE path
    /\ files' = IF path = 0 THEN Append(files, <<>>) ELSE [files EXCEPT ![path] = <<>>]

(* fopen(FILE_NAME, "a+"): the file is created if there is none. *)
OpenAppend ==
    /\ path' = IF path = 0 THEN Len(files) + 1 ELSE path
    /\ files' = IF path = 0 THEN Append(files, <<>>) ELSE files

(* Fault: what is written does not reach the file. *)
Appended_Nothing(i, s) == files

(* File i has text s at its end. *)
Appended(i, s) == [files EXCEPT ![i] = @ \o s]

(* The process ends and fs is what its files hold: one without a name is   *)
(* gone with it.                                                           *)
FilesKept(fs) ==
    /\ files' = IF path = 0 THEN <<>> ELSE <<fs[path]>>
    /\ path' = IF path = 0 THEN 0 ELSE 1
    /\ inode' = [o \in Owner |-> 0]
    /\ global_file' = FALSE
    /\ timer' = "none" /\ timer_fd' = 0
    /\ UNCHANGED stamps

FileCrash == Crash /\ FilesKept(files)
-----------------------------------------------------------------------------
(* main up to its loop.  fopen may fail, which is not looked at. *)
FileStart ==
    /\ Start
    /\ \/ OpenAppend /\ global_file' = TRUE
       \/ Faults /\ global_file' = FALSE /\ UNCHANGED <<files, path>>
    /\ timer' = "lock"
    /\ UNCHANGED <<inode, timer_fd, stamps>>

(* The port is taken or the timer thread cannot be created: main returns,  *)
(* and has created the file.                                               *)
StartFails ==
    /\ Faults
    /\ server = "down" /\ runs < MaxRuns
    /\ runs' = runs + 1
    /\ OpenAppend
    /\ UNCHANGED <<server, device, fds, file_mutex, mainVars, info, threads, network, robbed>>
    /\ UNCHANGED <<inode, global_file, timer, timer_fd, stamps>>
-----------------------------------------------------------------------------
(* handle_sigterm and handle_sigint, on the main thread, wherever it is.   *)
Terminating == main \in {"remove", "exit"}

(* server_socket and global_file are closed, which no other thread uses,   *)
(* and the file is unlinked.                                               *)
Signal ==
    /\ Signals
    /\ server = "up" /\ ~Terminating
    /\ global_file
    /\ main' = "remove"
    /\ path' = 0
    /\ client' = [c \in Client |-> IF client[c] = "waiting" THEN "gone" ELSE client[c]]
    /\ UNCHANGED <<process, device, fds, file_mutex, accepted, thread_list, cursor, info, threads, sent, answered, crossed, robbed>>
    /\ UNCHANGED <<files, inode, global_file, timer, timer_fd, stamps>>

(* fclose(NULL). *)
SignalCrashes ==
    /\ Signals
    /\ server = "up" /\ ~Terminating
    /\ ~global_file
    /\ FileCrash

(* remove, of the same name. *)
RemoveAgain ==
    /\ main = "remove" /\ main' = "exit"
    /\ path' = 0
    /\ UNCHANGED <<process, device, fds, file_mutex, accepted, thread_list, cursor, info, threads, network, robbed>>
    /\ UNCHANGED <<files, inode, global_file, timer, timer_fd, stamps>>

(* The texts that are not yet written, or in part only. *)
Unwritten(o) ==
    IF o = Timer THEN timer = "write" /\ fds[timer_fd].kind = "dev"
                 ELSE pc[o] = "write" /\ fds[file[o]].kind = "dev"
TextOf(o) == IF o = Timer THEN Stamp ELSE self[o].newString

(* exit, which flushes open streams. *)
Exit ==
    /\ main = "exit"
    /\ Ended
    /\ UNCHANGED device
    /\ \/ FilesKept(files)
       \/ \E o \in Owner : /\ Unwritten(o)
                           /\ \E k \in Pieces(TextOf(o)) :
                                 FilesKept(Appended(inode[o], Piece(TextOf(o), k)))
-----------------------------------------------------------------------------
(* The timer thread: add_timestamp_to_file, and sleep. *)
TimerLock ==
    /\ timer = "lock"
    /\ Acquire(Timer)
    /\ FreeFds # {}
    /\ fds' = Opened("dev", Timer)
    /\ timer_fd' = Min(FreeFds)
    /\ OpenAppend
    /\ inode' = [inode EXCEPT ![Timer] = path']
    /\ timer' = "write"
    /\ UNCHANGED <<process, device, mainVars, info, threads, network, robbed>>
    /\ UNCHANGED <<global_file, stamps>>

(* fopen fails: fprintf to NULL. *)
TimerLockFails ==
    /\ timer = "lock"
    /\ file_mutex = NoClient
    /\ Faults \/ FreeFds = {}
    /\ FileCrash

(* A timestamp fits the stream's buffer. *)
TimerWrite ==
    LET d == fds[timer_fd]
    IN  /\ timer = "write"
        /\ \/ files' = IF d.kind = "dev" THEN Appended(inode[d.owner], Stamp) ELSE files
           \/ Faults /\ d.kind = "dev" /\ UNCHANGED files
        /\ answered' = IF d.kind = "sock" THEN answered \cup {d.owner} ELSE answered
        /\ timer' = "unlock"
        /\ UNCHANGED <<process, device, fds, file_mutex, mainVars, info, threads, client, sent, crossed, robbed>>
        /\ UNCHANGED <<path, inode, global_file, timer_fd, stamps>>

TimerUnlock ==
    /\ timer = "unlock"
    /\ close(timer_fd, Timer)
    /\ Release
    /\ timer_fd' = 0
    /\ timer' = "sleep"
    /\ UNCHANGED <<process, device, mainVars, info, threads, network>>
    /\ UNCHANGED <<files, path, inode, global_file, stamps>>

TimerWake ==
    /\ timer = "sleep" /\ stamps < MaxStamps
    /\ stamps' = stamps + 1
    /\ timer' = "lock"
    /\ UNCHANGED vars
    /\ UNCHANGED <<files, path, inode, global_file, timer_fd>>
-----------------------------------------------------------------------------
(* handle_connection, where it uses the file. *)
FileLockAppend(c) ==
    /\ LockAppend(c)
    /\ IF CommandFound(c) THEN UNCHANGED <<files, path, inode>>
       ELSE OpenAppend /\ inode' = [inode EXCEPT ![c] = path']
    /\ UNCHANGED <<global_file, timer, timer_fd, stamps>>

FileWrite(c) ==
    LET d == fds[file[c]]
        s == self[c].newString
    IN  /\ pc[c] = "write"
        /\ \/ d.kind = "dev" /\ \E k \in Pieces(s) :
                 /\ files' = Appended(inode[d.owner], Piece(s, k))
                 /\ self' = [self EXCEPT ![c].newString = Rest(s, k)]
                 /\ Goto(c, IF k = Len(s) THEN "unlock" ELSE "write")
           \/ /\ d.kind = "dev" => Faults
              /\ UNCHANGED files
              /\ self' = [self EXCEPT ![c].newString = <<>>, ![c].failed = TRUE]
              /\ Goto(c, "unlock")
        /\ answered' = IF d.kind = "sock" THEN answered \cup {d.owner} ELSE answered
        /\ UNCHANGED <<process, device, fds, file_mutex, mainVars, info, client_socket, file, client, sent, crossed, robbed>>
        /\ UNCHANGED <<path, inode, global_file, timer, timer_fd, stamps>>

(* read_file: lock and open. *)
FileLockRead(c) ==
    /\ pc[c] = "lockread"
    /\ Acquire(c)
    /\ FreeFds # {} /\ path # 0
    /\ fds' = Opened("dev", c)
    /\ file' = [file EXCEPT ![c] = Min(FreeFds)]
    /\ inode' = [inode EXCEPT ![c] = path]
    /\ Goto(c, "fread")
    /\ UNCHANGED <<process, device, mainVars, info, client_socket, self, network, robbed>>
    /\ UNCHANGED <<files, path, global_file, timer, timer_fd, stamps>>

(* There is no memory for newString, no stream, or no file to read. *)
FileLockFails(c) ==
    /\ pc[c] \in {"lock", "lockread"}
    /\ file_mutex = NoClient
    /\ \/ Faults
       \/ FreeFds = {} /\ (pc[c] = "lock" => ~CommandFound(c))
       \/ path = 0 /\ pc[c] = "lockread"
    /\ FileCrash

(* Fault: the second fseek is missing. *)
ReadWhole_NoRewind(s) == <<>>

(* ftell at the end, and fread from the beginning. *)
ReadWhole(s) == s

(* The whole file is read: nobody writes while file_mutex is held. *)
FileFread(c) ==
    /\ pc[c] = "fread"
    /\ fds[file[c]].kind = "dev"
    /\ self' = [self EXCEPT ![c].contents = ReadWhole(files[inode[fds[file[c]].owner]])]
    /\ Goto(c, "closeread")
    /\ UNCHANGED <<process, device, fds, file_mutex, mainVars, info, client_socket, file, network, robbed, fileVars>>

(* malloc or fread fails, or the descriptor does not name the file any     *)
(* more and ftell returns -1: NULL is returned with the mutex locked.  On  *)
(* a socket fread waits for the end of the client's data.  With fsize 0,   *)
(* sendto does not look at the contents.                                   *)
ReadFileFails(c) ==
    LET d     == fds[file[c]]
        empty == d.kind = "dev" /\ files[inode[d.owner]] = <<>>
    IN  /\ pc[c] = "fread"
        /\ d.kind = "dev" => Faults
        /\ d.kind = "sock" => client[d.owner] = "gone"
        /\ sent' = IF d.kind = "sock" THEN [sent EXCEPT ![d.owner] = <<>>] ELSE sent
        /\ crossed' = IF d.kind = "sock" THEN crossed \cup {d.owner} ELSE crossed
        /\ close(file[c], c)
        /\ self' = [self EXCEPT ![c].contents =
                       IF empty THEN <<>> ELSE IF d.kind = "dev" THEN NULL ELSE NoSize]
        /\ file' = [file EXCEPT ![c] = 0]
        /\ Goto(c, "send")
        /\ UNCHANGED <<process, device, file_mutex, mainVars, info, client_socket, client, answered, fileVars>>

(* sendto and the comparison with fsize.  Of an empty file nothing has to  *)
(* be sent; -1 equals the -1 of a sendto that fails.                       *)
FileSend(c) ==
    LET s == self[c].contents
    IN  /\ pc[c] = "send"
        /\ IF s = NoSize THEN UNCHANGED <<answered, fds, robbed>>
           ELSE IF Socket(c).kind = "sock" /\ s # NULL
           THEN /\ answered' = answered \cup {Socket(c).owner}
                /\ UNCHANGED <<fds, robbed>>
           ELSE close(client_socket[c], c) /\ UNCHANGED answered
        /\ Goto(c, "close")
        /\ UNCHANGED <<process, device, file_mutex, mainVars, info, locals, client, sent, crossed, fileVars>>

FileBrokenPipe(c) == BrokenPipe(c) /\ FilesKept(files)
-----------------------------------------------------------------------------
(* What the two builds have in common leaves the file alone. *)
Common(A) == A /\ UNCHANGED fileVars

FileHandler(c) ==
    \/ Common(Recv(c)) \/ Common(Received(c)) \/ Common(EndOfStream(c))
    \/ FileLockAppend(c) \/ FileWrite(c) \/ Common(Unlock(c))
    \/ FileLockRead(c) \/ FileFread(c) \/ ReadFileFails(c) \/ Common(CloseRead(c))
    \/ FileSend(c) \/ Common(Close(c)) \/ Common(Flag(c))

TimerThread == TimerLock \/ TimerWrite \/ TimerUnlock \/ TimerWake

FileMain == Common(Main) \/ RemoveAgain \/ Exit

FileEnvironment ==
    \/ FileStart \/ StartFails \/ Signal \/ SignalCrashes \/ TimerLockFails
    \/ \E c \in Client : \/ Common(Connect(c) /\ ~Terminating) \/ Common(HangUp(c))
                         \/ Common(MainAcceptFails(c))
                         \/ FileLockFails(c) \/ FileBrokenPipe(c)

FileNext == FileMain \/ TimerThread \/ FileEnvironment \/ \E c \in Client : FileHandler(c)

FileSpec == FileInit /\ [][FileNext]_allVars

(* As in AesdSocket; the timer thread sleeps between two timestamps, so    *)
(* that a thread waiting for the mutex finds it free.                      *)
FileFairness ==
    /\ WF_allVars(FileMain) /\ WF_allVars(TimerThread)
    /\ \A c \in Client : WF_allVars(FileHandler(c))

FileFairSpec == FileSpec /\ FileFairness
-----------------------------------------------------------------------------
TimerLocking == timer \in {"write", "unlock"}

(* The variables of this build have their types, and an open stream has a  *)
(* file behind it, with or without a name.                                 *)
FileTypeOK ==
    /\ path \in 0..Len(files)
    /\ inode \in [Owner -> 0..Len(files)]
    /\ global_file \in BOOLEAN
    /\ timer \in {"none", "lock", "write", "unlock", "sleep"}
    /\ timer_fd \in {0} \cup Fd /\ (timer_fd # 0) = TimerLocking
    /\ stamps \in 0..MaxStamps
    /\ fds \in [Fd -> [kind : {"sock", "dev"}, owner : Owner] \cup {Free}]
    /\ \A f \in Fd : fds[f].kind = "dev" => inode[fds[f].owner] # 0

(* file_mutex keeps handle_connection, read_file and add_timestamp_to_file *)
(* apart: who has the file open has the mutex, and so has everybody        *)
(* between lock and unlock.                                                *)
OneWriterAtATime ==
    /\ \A f \in Fd : fds[f].kind = "dev" => file_mutex = fds[f].owner
    /\ \A c \in Client : Locking(c) => file_mutex = c
    /\ TimerLocking => file_mutex = Timer

(* What of text s only client c sends. *)
PartOf(c, s) == Only(s, Own(c) \ ToSet(Stamp))

(* Timestamps do not cut a packet that arrives at once, although a packet  *)
(* longer than the stream's buffer is written in pieces: what the file has *)
(* of it is one piece from its beginning, and there only once, over        *)
(* crashes and restarts too.                                               *)
TimestampsStayOutside ==
    path # 0 =>
        \A c \in Client \ Split : \E k \in 0..Len(Packet(c)) :
            LET f == files[path]
                p == SubSeq(Packet(c), 1, k)
            IN  /\ PartOf(c, f) = PartOf(c, p)
                /\ \E i \in 0..(Len(f) - k) : SubSeq(f, i + 1, i + k) = p

(* The file is opened for appending everywhere: what it holds stays at its *)
(* beginning, through crashes and restarts, until a signal handler removes *)
(* the file.                                                               *)
Removing == main' # main /\ main' \in {"remove", "exit"}
FileOnlyGrows ==
    [][path # 0 /\ ~Removing => path' # 0 /\ IsPrefix(files[path], files'[path'])]_allVars

(* The reply to a client that sent a packet is what the file held when it  *)
(* was read, and has all of that packet, whatever the timer and other      *)
(* threads write in between; unless a write or the read failed, a signal   *)
(* came or a descriptor was closed by a thread that does not own it.       *)
ReplyIsFileWithPacket ==
    \A c \in Client \ crossed :
        /\ pc[c] = "send" /\ self[c].contents \notin {NULL, NoSize}
        /\ self[c].newline /\ ~self[c].found_ioctl_cmd /\ ~self[c].failed
        /\ ~Terminating /\ robbed = {}
        => /\ IsPrefix(self[c].contents, files[path])
           /\ PartOf(c, self[c].contents) = PartOf(c, Packet(c))

(* read_file has failed and left the mutex locked. *)
Abandoned == file_mutex \in Client /\ ~Locking(file_mutex)

(* The timer thread writes its timestamp whenever it wakes up, although    *)
(* threads that serve clients compete for the mutex; unless read_file left *)
(* it locked, or waits for a client because its descriptor was closed by   *)
(* another thread, or the process ends.                                    *)
TimestampsGoOn ==
    timer = "lock" ~> timer = "sleep" \/ server = "down" \/ Abandoned \/ robbed # {}
=============================================================================
