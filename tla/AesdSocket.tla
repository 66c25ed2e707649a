----------------------------- MODULE AesdSocket -----------------------------
(***************************************************************************)
(* The server server/aesdsocket.c in the build that uses /dev/aesdchar: a  *)
(* main thread that accepts connections, one thread per connection that    *)
(* stores the client's packet on the device and sends the contents of the  *)
(* device back, and the signals that end the process.                      *)
(*                                                                         *)
(* Sockets and open streams are named by descriptors.  The process has one *)
(* table of them, a new descriptor takes the lowest free number, and a     *)
(* call acts on whatever its number names at that moment.                  *)
(*                                                                         *)
(* The device is the abstract one of LineLog, which the driver implements  *)
(* (CharDriver, property LineSpec).  The text "AESDCHAR_IOCSEEKTO:" is two *)
(* characters, SeekHead and SeekTail, because a TCP stream may be cut      *)
(* inside it; a digit is its value.  Clients send no null characters, and  *)
(* no spaces or signs before a number.                                     *)
(***************************************************************************)
EXTENDS Integers, FiniteSets, FiniteSetsExt, SequencesExt, TextOps

CONSTANTS
    Client,             \* clients; each connects once, thread c serves it
    Stream,             \* Stream[c]: what client c sends
    Stored,             \* the lines on the device at the first start
    Capacity,           \* AESDCHAR_MAX_WRITE_OPERATIONS_SUPPORTED
    BUFFER_SIZE,
    BUFSIZ,             \* the size of a stream's buffer
    NL,                 \* the newline character
    SeekHead, SeekTail, \* "AESDCHAR_IOCSEEKTO:"
    Comma,
    Junk,               \* what write_cmd, write_cmd_offset may hold unset
    Split,              \* the clients whose data may arrive in pieces
    Impatient,          \* the clients that may hang up
    Signals,            \* whether SIGTERM and SIGINT are sent
    Faults,             \* whether memory, threads or the device's memory run out
    MaxFd,              \* descriptors the process may have besides its own
    MaxRuns,            \* bound: how often the server is started
    NoClient, NULL

ASSUME ClientAssumption == NoClient \notin Client
ASSUME StreamAssumption ==
    /\ Stream \in [Client -> Seq(UNION {ToSet(Stream[c]) : c \in Client})]
    /\ \A c \in Client : \E i \in 1..Len(Stream[c]) : Stream[c][i] = NL
ASSUME StoredAssumption ==
    /\ Stored \in Seq(Seq(UNION {ToSet(Stored[i]) : i \in DOMAIN Stored}))
    /\ Len(Stored) <= Capacity
ASSUME JunkAssumption == Junk \subseteq Nat /\ NULL \notin Nat
ASSUME SizeAssumption ==
    /\ Capacity \in Nat \ {0} /\ BUFFER_SIZE \in Nat \ {0} /\ BUFSIZ \in Nat \ {0}
    /\ MaxFd \in Nat \ {0} /\ MaxRuns \in Nat
    /\ {Signals, Faults} \subseteq BOOLEAN
    /\ Split \subseteq Client /\ Impatient \subseteq Client

VARIABLES
    server, runs,       \* "down" or "up"; how often started, for MaxRuns
    lines, partial,     \* the device, see LineLog
    wedged,             \* the lock of the device was left locked
    fds,                \* the descriptor table
    file_mutex,
    main, accepted,     \* main's next step, the connection it works on
    thread_list, cursor,\* the list, and what cleanup_threads has yet to visit
    info,               \* struct ThreadInfo by thread, NULL when not allocated
    pc, client_socket, file, self,  \* the threads: next step, the descriptors of
                        \* the locals client_socket and file, other locals
    client, sent, answered, \* clients: state, bytes under way, who was sent any reply
    robbed,             \* history: whose descriptors somebody else closed
    crossed             \* history: whose data a thread of somebody else got

process  == <<server, runs>>
device   == <<lines, partial, wedged>>
locals   == <<client_socket, file, self>>
threads  == <<pc, locals>>
mainVars == <<main, accepted, thread_list, cursor>>
network  == <<client, sent, answered, crossed>>
vars == <<process, device, fds, file_mutex, mainVars, info, threads, network, robbed>>

Device == INSTANCE LineLog WITH Payloads <- {}
-----------------------------------------------------------------------------
(* Descriptors. *)
Fd == 1..MaxFd
ThreadInfo == [client_socket : Fd, complete : BOOLEAN]
ASSUME NullAssumption == NULL \notin ThreadInfo
Free == [kind |-> "free", owner |-> NoClient]
FreeFds == {f \in Fd : fds[f] = Free}

(* accept, fopen: the lowest free number names a new description. *)
Opened(kind, c) == [fds EXCEPT ![Min(FreeFds)] = [kind |-> kind, owner |-> c]]

(* close of f on behalf of connection c. *)
close(f, c) ==
    /\ fds' = [fds EXCEPT ![f] = Free]
    /\ robbed' = IF fds[f].owner \in {c, NoClient} THEN robbed
                                                  ELSE robbed \cup {fds[f].owner}

(* All that goes with the process when it ends; the peers see the end of   *)
(* their connections.                                                      *)
Ended ==
    /\ server' = "down"
    /\ fds' = [f \in Fd |-> Free]
    /\ file_mutex' = NoClient
    /\ main' = "accept" /\ accepted' = NoClient
    /\ thread_list' = <<>> /\ cursor' = <<>>
    /\ info' = [c \in Client |-> NULL]
    /\ pc' = [c \in Client |-> "none"]
    /\ client_socket' = [c \in Client |-> 0] /\ file' = [c \in Client |-> 0]
    /\ self' = [c \in Client |-> NULL]
    /\ client' = [c \in Client |-> IF client[c] \in {"waiting", "open"} THEN "gone" ELSE client[c]]
    /\ robbed' = {}
    /\ UNCHANGED <<runs, sent, answered, crossed>>

(* A null pointer is used, or SIGPIPE arrives: the kernel ends the process *)
(* and nothing buffered is written.                                        *)
Crash == Ended /\ UNCHANGED device
-----------------------------------------------------------------------------
(* Parsing of what was received. *)

(* extract_data_up_to_newline *)
NewlineAt(buf) == {i \in 1..Len(buf) : buf[i] = NL}
new_line_found(buf) == NewlineAt(buf) # {}

(* Fault: the copy does not stop at the newline. *)
extract_PastNewline(buf) == buf

extract_data_up_to_newline(buf) ==
    IF new_line_found(buf) THEN SubSeq(buf, 1, Min(NewlineAt(buf))) ELSE buf

(* strstr: where the search string begins. *)
Matches(s) == {i \in 1..(Len(s) - 1) : s[i] = SeekHead /\ s[i + 1] = SeekTail}

(* sscanf, "%d": the digits at i, as many as there are, and their value. *)
DigitsAt(s, i) ==
    LET run == {n \in 0..(Len(s) + 1 - i) : \A j \in i..(i + n - 1) : s[j] \in 0..9}
    IN  SubSeq(s, i, i + Max(run) - 1)
Decimal(digits) == FoldLeft(LAMBDA n, d : n * 10 + d, 0, digits)

(* sscanf, "%d,%d", after the first match: each variable is assigned when  *)
(* its number is there, and keeps the value it had otherwise.              *)
ScannedArgs(s, before) ==
    LET at  == Min(Matches(s)) + 2
        cmd == IF at <= Len(s) THEN DigitsAt(s, at) ELSE <<>>
        sep == at + Len(cmd)
        off == IF cmd # <<>> /\ sep < Len(s) /\ s[sep] = Comma THEN DigitsAt(s, sep + 1) ELSE <<>>
    IN  [write_cmd        |-> IF cmd # <<>> THEN Decimal(cmd) ELSE before.write_cmd,
         write_cmd_offset |-> IF off # <<>> THEN Decimal(off) ELSE before.write_cmd_offset]

Unset == [write_cmd |-> NULL, write_cmd_offset |-> NULL]

(* What a variable may hold. *)
Held(v) == IF v = NULL THEN Junk ELSE {v}

(* Fault: the command is shifted by three bits. *)
encoded_value_ShiftsThree(write_cmd, write_cmd_offset) == write_cmd * 8 + write_cmd_offset

(* (write_cmd << 4) | write_cmd_offset, bit by bit.  The driver copies the *)
(* low byte only, so the model keeps the low byte of the result.           *)
OrBit(m, n, b) == IF (m \div b) % 2 = 1 \/ (n \div b) % 2 = 1 THEN b ELSE 0
encoded_value(write_cmd, write_cmd_offset) ==
    LET or(b) == OrBit(write_cmd * 16, write_cmd_offset, b)
    IN  or(1) + or(2) + or(4) + or(8) + or(16) + or(32) + or(64) + or(128)

(* Where byte off of line cmd, both counted from 0, is on the device.  A   *)
(* line the device does not have begins at its end.                        *)
Contents == FlattenSeq(lines)
PositionOf(cmd, off) == Len(FlattenSeq(SubSeq(lines, 1, Min({cmd, Len(lines)})))) + off

(* Fault: reading starts one byte late. *)
ReadFrom_NextByte(pos) == SubSeq(Contents, pos + 2, Min({pos + BUFFER_SIZE, Len(Contents)}))

(* What fread returns that starts at pos. *)
ReadFrom(pos) == SubSeq(Contents, pos + 1, Min({pos + BUFFER_SIZE, Len(Contents)}))
-----------------------------------------------------------------------------
(* The locals of a thread; newString is what of the text is yet to be      *)
(* written, uncut and failed are history: whether the piece that had the   *)
(* command had the newline too, and whether some text of the thread did    *)
(* not reach the device.                                                   *)
NoLocals ==
    [conn |-> NoClient, newString |-> <<>>, newline |-> FALSE,
     found_ioctl_cmd |-> FALSE, args |-> Unset, uncut |-> FALSE,
     failed |-> FALSE, pos |-> 0, contents |-> <<>>]

Init ==
    /\ server = "down" /\ runs = 0
    /\ lines = Stored /\ partial = <<>> /\ wedged = FALSE
    /\ fds = [f \in Fd |-> Free]
    /\ file_mutex = NoClient
    /\ main = "accept" /\ accepted = NoClient
    /\ thread_list = <<>> /\ cursor = <<>>
    /\ info = [c \in Client |-> NULL]
    /\ pc = [c \in Client |-> "none"]
    /\ client_socket = [c \in Client |-> 0] /\ file = [c \in Client |-> 0]
    /\ self = [c \in Client |-> NULL]
    /\ client = [c \in Client |-> "new"]
    /\ sent = Stream
    /\ answered = {}
    /\ robbed = {}
    /\ crossed = {}

Goto(c, step) == pc' = [pc EXCEPT ![c] = step]

(* main up to listen.  A start that fails before it leaves nothing behind. *)
Start ==
    /\ server = "down" /\ runs < MaxRuns
    /\ server' = "up"
    /\ runs' = runs + 1
    /\ UNCHANGED <<device, fds, file_mutex, mainVars, info, threads, network, robbed>>

(* fprintf and fclose pass the first k characters of a text to write():    *)
(* all of a text that fits the stream's buffer; a longer one goes in       *)
(* pieces, cut where the C library cuts it.                                *)
Pieces(s) == IF Len(s) <= BUFSIZ THEN {Len(s)} ELSE 1..Len(s)
Piece(s, k) == SubSeq(s, 1, k)
Rest(s, k) == SubSeq(s, k + 1, Len(s))

(* handle_sigterm, handle_sigint: exit.  It flushes the streams that are   *)
(* open: a thread that writes its text may find it written.                *)
Terminate ==
    /\ Signals
    /\ server = "up"
    /\ Ended
    /\ UNCHANGED wedged
    /\ \/ UNCHANGED <<lines, partial>>
       \/ \E c \in Client :
             /\ pc[c] = "write" /\ fds[file[c]].kind = "dev" /\ ~wedged
             /\ \E k \in Pieces(self[c].newString) : Device!Accept(Piece(self[c].newString, k), k)
-----------------------------------------------------------------------------
(* The clients. *)
Connect(c) ==
    /\ server = "up" /\ client[c] = "new"
    /\ client' = [client EXCEPT ![c] = "waiting"]
    /\ UNCHANGED <<process, device, fds, file_mutex, mainVars, info, threads, sent, answered, crossed, robbed>>

(* A client that ends may have sent a part of its data only. *)
HangUp(c) ==
    /\ c \in Impatient
    /\ client[c] = "open"
    /\ client' = [client EXCEPT ![c] = "gone"]
    /\ \E k \in 0..Len(sent[c]) : sent' = [sent EXCEPT ![c] = SubSeq(@, 1, k)]
    /\ UNCHANGED <<process, device, fds, file_mutex, mainVars, info, threads, answered, crossed, robbed>>
-----------------------------------------------------------------------------
(* The main thread. *)

(* accept, and the thread's info filled in. *)
MainAccept(c) ==
    /\ server = "up" /\ main = "accept"
    /\ client[c] = "waiting" /\ FreeFds # {}
    /\ client' = [client EXCEPT ![c] = "open"]
    /\ fds' = Opened("sock", c)
    /\ info' = [info EXCEPT ![c] = [client_socket |-> Min(FreeFds), complete |-> FALSE]]
    /\ main' = "create" /\ accepted' = c
    /\ UNCHANGED <<process, device, file_mutex, thread_list, cursor, threads, sent, answered, crossed, robbed>>

(* There is no memory for the info: the connection is closed again. *)
MainAcceptFails(c) ==
    /\ Faults
    /\ server = "up" /\ main = "accept"
    /\ client[c] = "waiting" /\ FreeFds # {}
    /\ client' = [client EXCEPT ![c] = "gone"]
    /\ UNCHANGED <<process, device, fds, file_mutex, mainVars, info, threads, sent, answered, crossed, robbed>>

(* pthread_create, whose result is not looked at. *)
MainCreate ==
    /\ server = "up" /\ main = "create"
    /\ \/ /\ Goto(accepted, "recv")
          /\ client_socket' = [client_socket EXCEPT ![accepted] = info[accepted].client_socket]
          /\ file' = [file EXCEPT ![accepted] = 0]
          /\ self' = [self EXCEPT ![accepted] = NoLocals]
       \/ Faults /\ UNCHANGED threads
    /\ main' = "insert"
    /\ UNCHANGED <<process, device, fds, file_mutex, accepted, thread_list, cursor, info, network, robbed>>

MainInsert ==
    /\ server = "up" /\ main = "insert"
    /\ thread_list' = <<accepted>> \o thread_list
    /\ cursor' = <<accepted>> \o thread_list
    /\ main' = "cleanup" /\ accepted' = NoClient
    /\ UNCHANGED <<process, device, fds, file_mutex, info, threads, network, robbed>>

(* Fault: the head of the list is removed, not the element. *)
Without_Head(c) == Tail(thread_list)

(* SLIST_REMOVE *)
Without(c) == RemoveFirst(thread_list, c)

(* cleanup_threads at one element of the list.  pthread_join waits for the *)
(* thread to be past its last step.                                        *)
Reap(c) ==
    /\ pc[c] = "exit"
    /\ close(info[c].client_socket, c)
    /\ thread_list' = Without(c)
    /\ info' = [info EXCEPT ![c] = NULL]
    /\ UNCHANGED <<process, device, file_mutex, accepted, threads, network>>

CleanupThreads ==
    /\ server = "up" /\ main = "cleanup"
    /\ IF info[Head(cursor)].complete
       THEN Reap(Head(cursor))
       ELSE UNCHANGED <<process, device, fds, file_mutex, accepted, thread_list, info, threads, network, robbed>>
    /\ cursor' = Tail(cursor)
    /\ main' = IF Tail(cursor) = <<>> THEN "accept" ELSE "cleanup"
-----------------------------------------------------------------------------
(* handle_connection. *)
Socket(c) == fds[client_socket[c]]

(* recvfrom begins.  A call under way keeps the connection it began with,  *)
(* whatever happens to the descriptor; one on no socket fails.             *)
Recv(c) ==
    /\ pc[c] = "recv"
    /\ IF Socket(c).kind = "sock"
       THEN /\ Goto(c, "receiving")
            /\ self' = [self EXCEPT ![c].conn = Socket(c).owner]
       ELSE /\ Goto(c, "lockread")
            /\ UNCHANGED self
    /\ UNCHANGED <<process, device, fds, file_mutex, mainVars, info, client_socket, file, network, robbed>>

Available(o) == Min({Len(sent[o]), BUFFER_SIZE})

(* recvfrom returns k bytes.  What follows a newline among them is lost.   *)
Received(c) ==
    LET o == self[c].conn
    IN  /\ pc[c] = "receiving"
        /\ sent[o] # <<>>
        /\ \E k \in IF o \in Split THEN 1..Available(o) ELSE {Available(o)} :
              LET buf == SubSeq(sent[o], 1, k)
              IN  /\ sent' = [sent EXCEPT ![o] = SubSeq(@, k + 1, Len(@))]
                  /\ self' = [self EXCEPT ![c].newString = extract_data_up_to_newline(buf),
                                          ![c].newline = new_line_found(buf)]
        /\ crossed' = IF o = c THEN crossed ELSE crossed \cup {o}
        /\ Goto(c, "lock")
        /\ UNCHANGED <<process, device, fds, file_mutex, mainVars, info, client_socket, file, client, answered, robbed>>

(* recvfrom returns 0: the client has closed its end. *)
EndOfStream(c) ==
    LET o == self[c].conn
    IN  /\ pc[c] = "receiving"
        /\ sent[o] = <<>> /\ client[o] = "gone"
        /\ Goto(c, "lockread")
        /\ UNCHANGED <<process, device, fds, file_mutex, mainVars, info, locals, network, robbed>>

(* Fault: the mutex is taken although it is locked. *)
Acquire_NoWait(c) == file_mutex' = c

Acquire(c) == file_mutex = NoClient /\ file_mutex' = c

(* The packet is searched for the ioctl command; found_ioctl_cmd is never  *)
(* reset.  Unless it is set the device is opened and the packet formatted  *)
(* for the stream.                                                         *)
CommandFound(c) == self[c].found_ioctl_cmd \/ Matches(self[c].newString) # {}

LockAppend(c) ==
    LET s     == self[c].newString
        found == CommandFound(c)
        args  == IF Matches(s) # {} THEN ScannedArgs(s, self[c].args) ELSE self[c].args
        uncut == IF Matches(s) # {} THEN self[c].newline ELSE self[c].uncut
    IN  /\ pc[c] = "lock"
        /\ found \/ FreeFds # {}
        /\ Acquire(c)
        /\ self' = [self EXCEPT ![c].found_ioctl_cmd = found, ![c].args = args, ![c].uncut = uncut]
        /\ file' = [file EXCEPT ![c] = IF found THEN 0 ELSE Min(FreeFds)]
        /\ fds' = IF found THEN fds ELSE Opened("dev", c)
        /\ Goto(c, IF found THEN "unlock" ELSE "write")
        /\ UNCHANGED <<process, device, mainVars, info, client_socket, network, robbed>>

(* There is no memory for newString, which strstr reads, or no memory or   *)
(* no descriptor for the stream, which fprintf, fileno or fread use.       *)
LockFails(c) ==
    /\ pc[c] \in {"lock", "lockread"}
    /\ file_mutex = NoClient
    /\ Faults \/ FreeFds = {}
    /\ pc[c] = "lock" /\ CommandFound(c) => Faults
    /\ Crash

(* fprintf and fclose write a piece of the text to what the descriptor     *)
(* names.  When the device fails the error is not looked at and the rest   *)
(* of the text is dropped; on a socket, it goes to a client.               *)
Write(c) ==
    LET d == fds[file[c]]
        s == self[c].newString
    IN  /\ pc[c] = "write"
        /\ d.kind = "dev" => ~wedged
        /\ \/ d.kind = "dev" /\ \E k \in Pieces(s) :
                 /\ Device!Accept(Piece(s, k), k)
                 /\ self' = [self EXCEPT ![c].newString = Rest(s, k)]
                 /\ Goto(c, IF k = Len(s) THEN "unlock" ELSE "write")
           \/ /\ d.kind = "dev" => Faults
              /\ UNCHANGED <<lines, partial>>
              /\ self' = [self EXCEPT ![c].newString = <<>>, ![c].failed = TRUE]
              /\ Goto(c, "unlock")
        /\ answered' = IF d.kind = "sock" THEN answered \cup {d.owner} ELSE answered
        /\ UNCHANGED <<process, wedged, fds, file_mutex, mainVars, info, client_socket, file, client, sent, crossed, robbed>>

(* Fault: the mutex stays locked. *)
Release_Forgotten == UNCHANGED file_mutex

Release == file_mutex' = NoClient

(* Fault: the loop goes on after a newline. *)
AfterPacket_NoBreak(c) == "recv"

AfterPacket(c) == IF self[c].newline THEN "lockread" ELSE "recv"

(* fclose closes the descriptor, if the packet was written; newString is   *)
(* freed, the mutex unlocked; a newline ends the loop.                     *)
Unlock(c) ==
    /\ pc[c] = "unlock"
    /\ IF file[c] # 0 THEN close(file[c], c) ELSE UNCHANGED <<fds, robbed>>
    /\ Release
    /\ file' = [file EXCEPT ![c] = 0]
    /\ self' = [self EXCEPT ![c].newString = <<>>]
    /\ Goto(c, AfterPacket(c))
    /\ UNCHANGED <<process, device, mainVars, info, client_socket, network>>

(* read_char_device: lock and open. *)
LockRead(c) ==
    /\ pc[c] = "lockread"
    /\ Acquire(c)
    /\ FreeFds # {}
    /\ fds' = Opened("dev", c)
    /\ file' = [file EXCEPT ![c] = Min(FreeFds)]
    /\ self' = [self EXCEPT ![c].pos = 0]
    /\ Goto(c, IF self[c].found_ioctl_cmd THEN "ioctl" ELSE "fread")
    /\ UNCHANGED <<process, device, mainVars, info, client_socket, network, robbed>>

(* The ioctl, as the driver decodes it.  A command out of its range leaves *)
(* the lock of the device locked (CharDriver, IoctlFind).                  *)
Ioctl(c) ==
    /\ pc[c] = "ioctl"
    /\ IF fds[file[c]].kind # "dev" THEN UNCHANGED <<wedged, self>>
       ELSE \E m \in Held(self[c].args.write_cmd), n \in Held(self[c].args.write_cmd_offset) :
               LET cmd == (encoded_value(m, n) \div 16) % 16
                   off == encoded_value(m, n) % 16
               IN  /\ ~wedged
                   /\ wedged' = (cmd >= Capacity)
                   /\ self' = IF cmd >= Capacity THEN self
                              ELSE [self EXCEPT ![c].pos = PositionOf(cmd, off)]
    /\ Goto(c, "fread")
    /\ UNCHANGED <<process, lines, partial, fds, file_mutex, mainVars, info, client_socket, file, network, robbed>>

(* fread, from the device to its end or until the buffer is full: nobody   *)
(* else writes while file_mutex is held.  On a closed descriptor it fails; *)
(* on a socket it waits for the end of the client's data.                  *)
Fread(c) ==
    LET d == fds[file[c]]
        o == d.owner
    IN  /\ pc[c] = "fread"
        /\ CASE d.kind = "dev" ->
                  /\ ~wedged
                  /\ self' = [self EXCEPT ![c].contents = ReadFrom(self[c].pos)]
                  /\ UNCHANGED <<sent, crossed>>
             [] d.kind = "sock" ->
                  /\ client[o] = "gone" \/ Len(sent[o]) >= BUFFER_SIZE
                  /\ self' = [self EXCEPT ![c].contents =
                                 SubSeq(sent[o], 1, Min({BUFFER_SIZE, Len(sent[o])}))]
                  /\ sent' = [sent EXCEPT ![o] = SubSeq(@, BUFFER_SIZE + 1, Len(@))]
                  /\ crossed' = crossed \cup {o}
             [] OTHER ->
                  /\ self' = [self EXCEPT ![c].contents = <<>>]
                  /\ UNCHANGED <<sent, crossed>>
        /\ Goto(c, "closeread")
        /\ UNCHANGED <<process, device, fds, file_mutex, mainVars, info, client_socket, file, client, answered, robbed>>

(* malloc fails: the stream is closed and the mutex stays locked. *)
FreadFails(c) ==
    /\ Faults
    /\ pc[c] = "fread"
    /\ close(file[c], c)
    /\ file' = [file EXCEPT ![c] = 0]
    /\ self' = [self EXCEPT ![c].contents = NULL]
    /\ Goto(c, "send")
    /\ UNCHANGED <<process, device, file_mutex, mainVars, info, client_socket, network>>

CloseRead(c) ==
    /\ pc[c] = "closeread"
    /\ close(file[c], c)
    /\ Release
    /\ file' = [file EXCEPT ![c] = 0]
    /\ Goto(c, "send")
    /\ UNCHANGED <<process, device, mainVars, info, client_socket, self, network>>

(* sendto, to the connection the descriptor names.  It fails without a     *)
(* socket and without contents, and then the descriptor is closed.  When   *)
(* there are no contents fsize is unset and may equal what sendto returns. *)
Send(c) ==
    LET ok == Socket(c).kind = "sock" /\ self[c].contents # NULL
    IN  /\ pc[c] = "send"
        /\ \/ /\ ok
              /\ answered' = answered \cup {Socket(c).owner}
              /\ UNCHANGED <<fds, robbed>>
           \/ /\ ~ok
              /\ close(client_socket[c], c)
              /\ UNCHANGED answered
           \/ /\ self[c].contents = NULL
              /\ UNCHANGED <<fds, robbed, answered>>
        /\ Goto(c, "close")
        /\ UNCHANGED <<process, device, file_mutex, mainVars, info, locals, client, sent, crossed>>

(* The client has reset the connection: SIGPIPE, which is not handled. *)
BrokenPipe(c) ==
    /\ pc[c] = "send"
    /\ Socket(c).kind = "sock" /\ client[Socket(c).owner] = "gone"
    /\ Crash

(* Fault: the thread leaves the descriptor to cleanup_threads. *)
Close_Forgotten(c) ==
    /\ pc[c] = "close"
    /\ Goto(c, "flag")
    /\ UNCHANGED <<process, device, fds, file_mutex, mainVars, info, locals, network, robbed>>

Close(c) ==
    /\ pc[c] = "close"
    /\ close(client_socket[c], c)
    /\ self' = [self EXCEPT ![c].contents = <<>>]
    /\ Goto(c, "flag")
    /\ UNCHANGED <<process, device, file_mutex, mainVars, info, client_socket, file, network>>

Flag(c) ==
    /\ pc[c] = "flag"
    /\ info' = [info EXCEPT ![c] = [client_socket |-> @.client_socket, complete |-> TRUE]]
    /\ Goto(c, "exit")
    /\ client_socket' = [client_socket EXCEPT ![c] = 0]
    /\ self' = [self EXCEPT ![c] = NULL]
    /\ UNCHANGED <<process, device, fds, file_mutex, mainVars, file, network, robbed>>
-----------------------------------------------------------------------------
Handler(c) ==
    \/ Recv(c) \/ Received(c) \/ EndOfStream(c)
    \/ LockAppend(c) \/ Write(c) \/ Unlock(c)
    \/ LockRead(c) \/ Ioctl(c) \/ Fread(c) \/ FreadFails(c) \/ CloseRead(c)
    \/ Send(c) \/ Close(c) \/ Flag(c)

Main == MainCreate \/ MainInsert \/ CleanupThreads \/ \E c \in Client : MainAccept(c)

Environment ==
    \/ Start \/ Terminate
    \/ \E c \in Client : \/ Connect(c) \/ HangUp(c) \/ MainAcceptFails(c)
                         \/ LockFails(c) \/ BrokenPipe(c)

Next == Main \/ Environment \/ \E c \in Client : Handler(c)

Spec == Init /\ [][Next]_vars

(* A thread that can go on does; the network delivers what was sent.  The  *)
(* mutex need not be fair: a thread locks it only as often as data of its  *)
(* client arrives, and that is finite.                                     *)
Fairness == WF_vars(Main) /\ \A c \in Client : WF_vars(Handler(c))

FairSpec == Spec /\ Fairness
-----------------------------------------------------------------------------
Steps == {"none", "recv", "receiving", "lock", "write", "unlock", "lockread",
          "ioctl", "fread", "closeread", "send", "close", "flag", "exit"}

(* The steps at which a thread has a stream of the device open, and those  *)
(* at which it has the mutex.                                              *)
Streaming(c) ==
    \/ pc[c] \in {"write", "ioctl", "fread", "closeread"}
    \/ pc[c] = "unlock" /\ file[c] # 0
Locking(c) == Streaming(c) \/ pc[c] = "unlock"

(* Every variable has its type, a running thread has an info that is not   *)
(* yet freed nor complete (handle_connection writes to it at its end), and *)
(* the list holds exactly the infos that exist, each once.                 *)
TypeOK ==
    /\ server \in {"up", "down"} /\ runs \in 0..MaxRuns /\ wedged \in BOOLEAN
    /\ Len(lines) <= Capacity
    /\ fds \in [Fd -> [kind : {"sock", "dev"}, owner : Client] \cup {Free}]
    /\ file_mutex \in Client \cup {NoClient}
    /\ main \in {"accept", "create", "insert", "cleanup"}
    /\ (main = "cleanup") = (cursor # <<>>)
    /\ (accepted # NoClient) = (main \in {"create", "insert"})
    /\ pc \in [Client -> Steps]
    /\ client \in [Client -> {"new", "waiting", "open", "gone"}]
    /\ info \in [Client -> ThreadInfo \cup {NULL}]
    /\ robbed \subseteq Client
    /\ IsInjective(thread_list)
    /\ \A c \in Client :
          /\ info[c] # NULL <=> c \in ToSet(thread_list) \cup ({accepted} \ {NoClient})
          /\ pc[c] \notin {"none", "exit"} => info[c] # NULL /\ ~info[c].complete

(* file_mutex keeps the streams of the threads apart: only the thread that *)
(* has it has the device open, and no two are between lock and unlock.     *)
OneStreamAtATime ==
    /\ \A f \in Fd : fds[f].kind = "dev" => file_mutex = fds[f].owner
    /\ \A c \in Client : Locking(c) => file_mutex = c

(* pthread_create has failed for a connection: nobody serves it, and its   *)
(* socket and info are kept until the process ends.                        *)
Leaked(c) == Faults /\ pc[c] = "none" /\ c \in ToSet(thread_list)

(* As long as no descriptor was closed by a thread that does not own it,   *)
(* a thread's descriptors are its own, and none but the leaked ones        *)
(* outlives its use: a socket is open from accept until its thread is      *)
(* done, a stream until the mutex is released or memory for the reply is   *)
(* missing.                                                                *)
DescriptorsAccountedFor ==
    robbed = {} =>
        \A c \in Client : \A f \in Fd :
            LET socket == fds[f] = [kind |-> "sock", owner |-> c]
                mine   == info[c] # NULL /\ info[c].client_socket = f
                served == c = accepted \/ pc[c] \notin {"none", "flag", "exit"}
            IN  /\ socket => mine /\ (served \/ Leaked(c))
                /\ mine /\ pc[c] \notin {"close", "flag", "exit"} => socket
                /\ fds[f] = [kind |-> "dev", owner |-> c] <=> Streaming(c) /\ file[c] = f

(* The packet of a client: what it sends up to its first newline. *)
Packet(c) == SubSeq(Stream[c], 1, Min(NewlineAt(Stream[c])))

(* The characters only client c sends. *)
Own(c) == ToSet(Stream[c]) \ UNION {ToSet(Stream[d]) : d \in Client \ {c}}

(* Packets are appended by each thread independently: the packet of a      *)
(* client whose data arrives at once is stored at once, if the stream's    *)
(* buffer holds it.  A line that has a byte of it ends with the whole      *)
(* packet, whatever pieces of others, of longer packets too, are before    *)
(* it.                                                                     *)
WholePacketsStayWhole ==
    \A c \in Client \ (Split \cup Impatient) : \A i \in 1..Len(lines) :
        /\ Len(Packet(c)) <= BUFSIZ
        /\ ToSet(lines[i]) \cap Own(c) # {}
        => IsSuffix(Packet(c), lines[i])

(* What of s only client c sends. *)
OwnPart(c, s) == Only(s, Own(c))

(* handle_connection stores the bytes of a client in the order they were   *)
(* sent and none of them twice, over signals, restarts and writes that     *)
(* fail, as long as no other thread receives some of them through a        *)
(* descriptor that was closed and opened again.  Once it has left the loop *)
(* the packet is stored without a gap and to its end, save what newer      *)
(* lines have displaced, if no write of its thread failed.                 *)
PacketsStored ==
    \A c \in Client \ crossed :
        LET stored == OwnPart(c, Contents \o partial)
            packet == OwnPart(c, Packet(c))
        IN  /\ IsSubsequence(stored, packet)
            /\ /\ pc[c] \in {"lockread", "fread", "closeread", "send"}
               /\ self[c].newline /\ ~self[c].found_ioctl_cmd
               /\ robbed = {} /\ ~self[c].failed
               => IsSuffix(stored, packet)

(* The reply a client is sent has all that the device still holds of its   *)
(* own packet, although other threads write between its append and its     *)
(* read; unless the buffer was too small, a write of its thread failed or  *)
(* memory for the reply was missing.                                       *)
ReplyHasOwnPacket ==
    \A c \in Client \ crossed :
        /\ pc[c] = "send" /\ robbed = {} /\ ~self[c].failed
        /\ self[c].newline /\ ~self[c].found_ioctl_cmd
        /\ self[c].contents # NULL /\ Len(self[c].contents) < BUFFER_SIZE
        => IsSuffix(OwnPart(c, Contents), OwnPart(c, self[c].contents))

(* The numbers in the packet of a client. *)
Asked(c) == ScannedArgs(Packet(c), Unset)

(* read_char_device after a seek command reads from the byte the client    *)
(* asked for, wherever the stream was cut before the command, if the rest  *)
(* of the packet came in one piece with the command.  (A cut inside the    *)
(* numbers leaves them short or unset.)  The device must have that byte,   *)
(* and the offset fit the four bits it is encoded in.                      *)
SeekReadsFromTarget ==
    [][\A c \in Client \ crossed :
          LET cmd == Asked(c).write_cmd
              off == Asked(c).write_cmd_offset
          IN  /\ pc[c] = "fread" /\ pc'[c] = "closeread" /\ robbed = {}
              /\ self[c].found_ioctl_cmd /\ self[c].uncut
              /\ Cardinality(Matches(Packet(c))) = 1
              /\ cmd \in 0..(Len(lines) - 1)
              /\ off \in 0..(Min({16, Len(lines[cmd + 1])}) - 1)
              => self'[c].contents = ReadFrom(PositionOf(cmd, off))]_vars

(* A thread processes its client's packet and echoes the response: when it *)
(* is done with a client that sent a packet and is still there, the client *)
(* has had a response.                                                     *)
AnsweredWhenDone ==
    \A c \in Client : pc[c] = "exit" /\ client[c] = "open" => c \in answered

(* Every client that connects is answered, unless the server is ended, a   *)
(* seek out of range has locked up the device or a descriptor was closed   *)
(* by a thread that does not own it.                                       *)
EveryPacketAnswered ==
    \A c \in Client :
        client[c] = "waiting" ~> c \in answered \/ server = "down" \/ wedged \/ robbed # {}
=============================================================================
