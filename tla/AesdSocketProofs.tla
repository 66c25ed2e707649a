-------------------------- MODULE AesdSocketProofs --------------------------
(* Proofs about AesdSocket, for any number of clients and descriptors.     *)
EXTENDS AesdSocket, TextProofs, FiniteSetTheorems

(* The low byte holds the line and the offset when each fits four bits. *)
LEMMA EncodedOffset ==
    ASSUME NEW m \in 0..15, NEW n \in 0..15
    PROVE  OrBit(m * 16, n, 1) + OrBit(m * 16, n, 2) + OrBit(m * 16, n, 4) + OrBit(m * 16, n, 8) = n
<1>1. /\ ((m * 16) \div 1) % 2 = 0 /\ ((m * 16) \div 2) % 2 = 0
      /\ ((m * 16) \div 4) % 2 = 0 /\ ((m * 16) \div 8) % 2 = 0
  BY SMT
<1>2. OrBit(m * 16, n, 1) = n % 2 /\ OrBit(m * 16, n, 2) = 2 * ((n \div 2) % 2)
  BY <1>1, SMT DEF OrBit
<1>3. OrBit(m * 16, n, 4) = 4 * ((n \div 4) % 2) /\ OrBit(m * 16, n, 8) = 8 * ((n \div 8) % 2)
  BY <1>1, SMT DEF OrBit
<1>4. (n % 2) + 2 * ((n \div 2) % 2) + 4 * ((n \div 4) % 2) + 8 * ((n \div 8) % 2) = n
  BY SMT
<1>. QED BY <1>2, <1>3, <1>4

LEMMA EncodedLine ==
    ASSUME NEW m \in 0..15, NEW n \in 0..15
    PROVE  OrBit(m * 16, n, 16) + OrBit(m * 16, n, 32) + OrBit(m * 16, n, 64)
             + OrBit(m * 16, n, 128) = m * 16
<1>1. /\ (n \div 16) % 2 = 0 /\ (n \div 32) % 2 = 0
      /\ (n \div 64) % 2 = 0 /\ (n \div 128) % 2 = 0
  BY SMT
<1>2. /\ OrBit(m * 16, n, 16) = 16 * (((m * 16) \div 16) % 2)
      /\ OrBit(m * 16, n, 32) = 32 * (((m * 16) \div 32) % 2)
  BY <1>1, SMT DEF OrBit
<1>3. /\ OrBit(m * 16, n, 64) = 64 * (((m * 16) \div 64) % 2)
      /\ OrBit(m * 16, n, 128) = 128 * (((m * 16) \div 128) % 2)
  BY <1>1, SMT DEF OrBit
<1>4. 16 * (((m * 16) \div 16) % 2) + 32 * (((m * 16) \div 32) % 2)
        + 64 * (((m * 16) \div 64) % 2) + 128 * (((m * 16) \div 128) % 2) = m * 16
  BY SMT
<1>. QED BY <1>2, <1>3, <1>4

LEMMA Encoded ==
    ASSUME NEW m, m \in 0..15, NEW n, n \in 0..15
    PROVE  /\ (encoded_value(m, n) \div 16) % 16 = m
           /\ encoded_value(m, n) % 16 = n
<1>. DEFINE or(b) == OrBit(m * 16, n, b)
<1>1. m \in 0..15 /\ n \in 0..15
  OBVIOUS
<1>2. encoded_value(m, n) = or(1) + or(2) + or(4) + or(8) + or(16) + or(32) + or(64) + or(128)
  BY DEF encoded_value
<1>3. \A b \in Nat : or(b) \in Nat
  BY DEF OrBit
<1>4. or(1) + or(2) + or(4) + or(8) = n
  BY <1>1, EncodedOffset
<1>5. or(16) + or(32) + or(64) + or(128) = m * 16
  BY <1>1, EncodedLine
<1>6. /\ or(1) \in Nat /\ or(2) \in Nat /\ or(4) \in Nat /\ or(8) \in Nat
      /\ or(16) \in Nat /\ or(32) \in Nat /\ or(64) \in Nat /\ or(128) \in Nat
  BY <1>3
<1>. HIDE DEF or
<1>7. encoded_value(m, n) = m * 16 + n
  BY <1>1, <1>2, <1>4, <1>5, <1>6
<1>8. ((m * 16 + n) \div 16) % 16 = m /\ (m * 16 + n) % 16 = n
  BY <1>1, SMT
<1>. QED BY <1>7, <1>8

-----------------------------------------------------------------------------
USE ClientAssumption, SizeAssumption

(* The part of the types that the proofs below need. *)
DescriptorsTyped ==
    /\ fds \in [Fd -> [kind : {"free", "sock", "dev"}, owner : Client \cup {NoClient}]]
    /\ file_mutex \in Client \cup {NoClient}
    /\ pc \in [Client -> Steps]
    /\ file \in [Client -> {0} \cup Fd]

(* A stream of the device is the one its owner's local variable names. *)
StreamsNamed ==
    \A f \in Fd : fds[f].kind = "dev" =>
        /\ fds[f].owner \in Client
        /\ Streaming(fds[f].owner)
        /\ file[fds[f].owner] = f

(* main creates a thread for a connection that has none. *)
OneThreadPerClient ==
    /\ client \in [Client -> {"new", "waiting", "open", "gone"}]
    /\ \A c \in Client : client[c] \in {"new", "waiting"} => pc[c] = "none"
    /\ main = "create" => /\ accepted \in Client
                          /\ pc[accepted] = "none"
                          /\ client[accepted] \in {"open", "gone"}

StreamInv == DescriptorsTyped /\ StreamsNamed /\ OneThreadPerClient /\ OneStreamAtATime

LEMMA MinValue ==
    ASSUME NEW S \in SUBSET Nat, S # {}
    PROVE  Min(S) \in S /\ \A y \in S : Min(S) <= y
<1>. DEFINE Less == {p \in Nat \X Nat : p[1] < p[2]}
<1>1. IsWellFoundedOn(Less, Nat)
  BY NatLessThanWellFounded DEF OpToRel
<1>2. \A m, n \in Nat : m < n => <<m, n>> \in Less
  BY Zenon
<1>. HIDE DEF Less
<1>3. PICK x \in S : \A y \in S : ~(<<y, x>> \in Less)
  <2>1. \E x \in S : \A y \in S : ~(<<y, x>> \in Less)
    BY <1>1, WFMin
  <2>. QED BY <2>1
<1>4. \A y \in S : ~(y < x)
  BY <1>2, <1>3, Zenon
<1>5. \A y \in S : x <= y
  BY <1>4
<1>. QED BY <1>5 DEF Min

(* accept and fopen find the lowest free descriptor. *)
LEMMA MinFree ==
    ASSUME FreeFds # {}
    PROVE  Min(FreeFds) \in FreeFds
<1>1. FreeFds \subseteq Nat
  BY DEF FreeFds, Fd
<1>. QED BY <1>1, MinValue

(* Some descriptors are closed, and no other changes. *)
Shrinks == fds' \in [Fd -> [kind : {"free", "sock", "dev"}, owner : Client \cup {NoClient}]]
           /\ \A f \in Fd : fds'[f] \in {fds[f], Free}

LEMMA CloseShrinks ==
    ASSUME DescriptorsTyped, NEW f, NEW c, close(f, c)
    PROVE  Shrinks /\ (f \in Fd => fds'[f] = Free)
BY DEF DescriptorsTyped, close, Shrinks, Free

LEMMA OpenedTyped ==
    ASSUME DescriptorsTyped, FreeFds # {}, NEW c \in Client, NEW k \in {"sock", "dev"},
           fds' = Opened(k, c)
    PROVE  /\ fds' \in [Fd -> [kind : {"free", "sock", "dev"}, owner : Client \cup {NoClient}]]
           /\ Min(FreeFds) \in Fd
           /\ fds[Min(FreeFds)] = Free
           /\ fds'[Min(FreeFds)] = [kind |-> k, owner |-> c]
           /\ \A f \in Fd : f # Min(FreeFds) => fds'[f] = fds[f]
<1>1. Min(FreeFds) \in Fd /\ fds[Min(FreeFds)] = Free
  BY MinFree DEF FreeFds
<1>2. [kind |-> k, owner |-> c] \in [kind : {"free", "sock", "dev"}, owner : Client \cup {NoClient}]
  OBVIOUS
<1>. QED BY <1>1, <1>2 DEF DescriptorsTyped, Opened
-----------------------------------------------------------------------------
(* The steps of a thread, by what they do to the mutex and the streams.    *)
(* A thread of which there is none takes no step.                          *)
Moves(c, s) ==
    /\ pc[c] # "none" /\ s \in Steps \ {"none"}
    /\ Goto(c, s)
    /\ UNCHANGED <<main, accepted, client>>

Inside == {"write", "ioctl", "fread", "closeread", "unlock"}

(* A thread's move concerns neither a connection without a thread nor the  *)
(* next one.                                                               *)
LEMMA MovesThreads ==
    ASSUME StreamInv, NEW c \in Client, NEW s, Moves(c, s)
    PROVE  OneThreadPerClient' /\ pc' \in [Client -> Steps]
BY DEF StreamInv, DescriptorsTyped, OneThreadPerClient, Moves, Goto

(* Outside of the mutex. *)
LEMMA OutsideStep ==
    ASSUME StreamInv, NEW c \in Client, NEW s, Moves(c, s),
           pc[c] \notin Inside, s \notin Inside, Shrinks, UNCHANGED <<file_mutex, file>>
    PROVE  StreamInv'
<1>1. OneThreadPerClient' /\ DescriptorsTyped'
  BY MovesThreads DEF StreamInv, DescriptorsTyped, Shrinks
<1>2. \A d \in Client : (Streaming(d)' <=> Streaming(d)) /\ (Locking(d)' <=> Locking(d))
  BY DEF StreamInv, DescriptorsTyped, Moves, Goto, Streaming, Locking, Inside
<1>3. \A f \in Fd : fds'[f].kind = "dev" => fds'[f] = fds[f]
  BY DEF Shrinks, Free
<1>4. StreamsNamed'
  BY <1>2, <1>3 DEF StreamInv, StreamsNamed
<1>5. OneStreamAtATime'
  BY <1>2, <1>3 DEF StreamInv, OneStreamAtATime
<1>. QED BY <1>1, <1>4, <1>5 DEF StreamInv

(* Under the mutex, with the stream open. *)
LEMMA InsideStep ==
    ASSUME StreamInv, NEW c \in Client, NEW s, Moves(c, s),
           pc[c] \in Inside \ {"unlock"}, s \in Inside, UNCHANGED <<fds, file_mutex, file>>
    PROVE  StreamInv'
<1>1. OneThreadPerClient' /\ DescriptorsTyped'
  BY MovesThreads DEF StreamInv, DescriptorsTyped
<1>2. \A d \in Client : Locking(d)' <=> Locking(d)
  BY DEF StreamInv, DescriptorsTyped, Moves, Goto, Streaming, Locking, Inside
<1>3. \A d \in Client : Streaming(d) /\ file[d] # 0 => Streaming(d)'
  BY DEF StreamInv, DescriptorsTyped, Moves, Goto, Streaming, Inside
<1>4. 0 \notin Fd
  BY DEF Fd
<1>5. StreamsNamed'
  BY <1>3, <1>4 DEF StreamInv, StreamsNamed
<1>6. OneStreamAtATime'
  BY <1>2 DEF StreamInv, OneStreamAtATime
<1>. QED BY <1>1, <1>5, <1>6 DEF StreamInv

(* Nobody is inside when the mutex is free. *)
LEMMA FreeMutex ==
    ASSUME StreamInv, file_mutex = NoClient
    PROVE  /\ \A d \in Client : ~Locking(d)
           /\ \A f \in Fd : fds[f].kind # "dev"
BY DEF StreamInv, OneStreamAtATime, StreamsNamed

(* The mutex is locked, and the device opened or not. *)
LEMMA EnterStep ==
    ASSUME StreamInv, NEW c \in Client, NEW s \in Inside, NEW n, Moves(c, s), Acquire(c),
           file' = [file EXCEPT ![c] = n],
           \/ n = 0 /\ s = "unlock" /\ UNCHANGED fds
           \/ n = Min(FreeFds) /\ FreeFds # {} /\ fds' = Opened("dev", c)
    PROVE  StreamInv'
<1>1. file_mutex = NoClient /\ file_mutex' = c
  BY DEF Acquire
<1>2. n \in {0} \cup Fd
  BY OpenedTyped DEF StreamInv
<1>3. OneThreadPerClient' /\ DescriptorsTyped'
  <2>1. fds' \in [Fd -> [kind : {"free", "sock", "dev"}, owner : Client \cup {NoClient}]]
    BY OpenedTyped DEF StreamInv, DescriptorsTyped
  <2>. QED BY <1>1, <1>2, <2>1, MovesThreads DEF StreamInv, DescriptorsTyped
<1>4. \A d \in Client : Locking(d)' => d = c
  BY <1>1, FreeMutex DEF StreamInv, DescriptorsTyped, Moves, Goto, Streaming, Locking
<1>5. \A f \in Fd : fds'[f].kind = "dev" =>
          f = n /\ n # 0 /\ FreeFds # {} /\ fds'[f] = [kind |-> "dev", owner |-> c]
  <2>1. 0 \notin Fd
    BY DEF Fd
  <2>2. \A f \in Fd : fds[f].kind # "dev"
    BY <1>1, FreeMutex
  <2>3. CASE UNCHANGED fds
    BY <2>2, <2>3
  <2>4. CASE n = Min(FreeFds) /\ FreeFds # {} /\ fds' = Opened("dev", c)
    <3>1. /\ n \in Fd
          /\ fds'[n] = [kind |-> "dev", owner |-> c]
          /\ \A f \in Fd : f # n => fds'[f] = fds[f]
      BY <2>4, OpenedTyped DEF StreamInv
    <3>. QED BY <2>1, <2>2, <2>4, <3>1
  <2>. QED BY <2>3, <2>4
<1>6. StreamsNamed'
  BY <1>5 DEF StreamInv, DescriptorsTyped, StreamsNamed, Streaming, Moves, Goto, Inside
<1>7. OneStreamAtATime'
  BY <1>1, <1>4, <1>5 DEF OneStreamAtATime
<1>. QED BY <1>3, <1>6, <1>7 DEF StreamInv

(* The stream is closed, and the mutex unlocked or not. *)
LEMMA LeaveStep ==
    ASSUME StreamInv, NEW c \in Client, NEW s, Moves(c, s),
           pc[c] \in Inside, s \notin Inside,
           Shrinks, file[c] \in Fd => fds'[file[c]] = Free,
           file' = [file EXCEPT ![c] = 0], file_mutex' \in {file_mutex, NoClient}
    PROVE  StreamInv'
<1>1. OneThreadPerClient' /\ DescriptorsTyped'
  BY MovesThreads DEF StreamInv, DescriptorsTyped, Shrinks
<1>2. Locking(c) /\ file_mutex = c
  BY DEF StreamInv, OneStreamAtATime, Inside, Locking, Streaming
<1>3. \A d \in Client : ~Locking(d)'
  BY <1>2 DEF StreamInv, OneStreamAtATime, DescriptorsTyped, Moves, Goto, Inside, Locking, Streaming
<1>4. \A f \in Fd : fds'[f].kind # "dev"
  <2>. SUFFICES ASSUME NEW f \in Fd, fds'[f].kind = "dev" PROVE FALSE
    OBVIOUS
  <2>1. fds'[f] = fds[f] /\ fds'[f] # Free
    BY DEF Shrinks, Free
  <2>2. fds[f].owner = c /\ file[c] = f
    BY <1>2, <2>1 DEF StreamInv, StreamsNamed, OneStreamAtATime
  <2>. QED BY <2>1, <2>2
<1>5. StreamsNamed' /\ OneStreamAtATime'
  BY <1>3, <1>4 DEF StreamsNamed, OneStreamAtATime
<1>. QED BY <1>1, <1>5 DEF StreamInv

LEMMA WriteGoto ==
    ASSUME NEW c \in Client, Write(c)
    PROVE  \E s \in {"write", "unlock"} : Goto(c, s)
<1>1. \A t \in {"write", "unlock"} : Goto(c, t) => \E s \in {"write", "unlock"} : Goto(c, s)
  BY Zenon
<1>. QED BY <1>1 DEF Write

LEMMA AppendGoto ==
    ASSUME NEW c \in Client, LockAppend(c)
    PROVE  \E s \in {"write", "unlock"} : Goto(c, s)
<1>. DEFINE t == IF CommandFound(c) THEN "unlock" ELSE "write"
<1>1. Goto(c, t)
  BY Zenon DEF LockAppend
<1>2. t \in {"write", "unlock"}
  OBVIOUS
<1>. QED BY <1>1, <1>2

(* What LockAppend does to the locals. *)
AppendArgs(c) ==
    IF Matches(self[c].newString) # {} THEN ScannedArgs(self[c].newString, self[c].args)
                                       ELSE self[c].args
AppendUncut(c) == IF Matches(self[c].newString) # {} THEN self[c].newline ELSE self[c].uncut

LEMMA AppendLocals ==
    ASSUME NEW c \in Client, LockAppend(c)
    PROVE  self' = [self EXCEPT ![c].found_ioctl_cmd = CommandFound(c),
                                ![c].args = AppendArgs(c), ![c].uncut = AppendUncut(c)]
BY Zenon DEF LockAppend, AppendArgs, AppendUncut

(* handle_connection takes only these kinds of steps. *)
LEMMA HandlerInv ==
    ASSUME StreamInv, NEW c \in Client, Handler(c)
    PROVE  StreamInv'
<1>. USE DEF Moves, Inside, Steps
<1>0. fds' = fds /\ DescriptorsTyped => Shrinks
  BY DEF Shrinks, DescriptorsTyped
<1>1. CASE Recv(c)
  <2>1. PICK s \in {"receiving", "lockread"} : Goto(c, s)
    BY <1>1, Zenon DEF Recv
  <2>2. pc[c] = "recv" /\ UNCHANGED <<fds, file_mutex, file, main, accepted, client>>
    BY <1>1, Zenon DEF Recv, mainVars, network
  <2>. QED BY <1>0, <2>1, <2>2, OutsideStep DEF StreamInv
<1>2. CASE Received(c)
  <2>1. /\ pc[c] = "receiving" /\ Goto(c, "lock")
        /\ UNCHANGED <<fds, file_mutex, file, main, accepted, client>>
    BY <1>2, Zenon DEF Received, mainVars
  <2>. QED BY <1>0, <2>1, OutsideStep DEF StreamInv
<1>3. CASE EndOfStream(c)
  <2>1. /\ pc[c] = "receiving" /\ Goto(c, "lockread")
        /\ UNCHANGED <<fds, file_mutex, file, main, accepted, client>>
    BY <1>3, Zenon DEF EndOfStream, mainVars, network, locals
  <2>. QED BY <1>0, <2>1, OutsideStep DEF StreamInv
<1>4. CASE LockAppend(c)
  <2>1. /\ pc[c] = "lock" /\ Acquire(c)
        /\ UNCHANGED <<main, accepted, client>>
    BY <1>4, Zenon DEF LockAppend, mainVars, network
  <2>2. CASE CommandFound(c)
    <3>1. file' = [file EXCEPT ![c] = 0] /\ fds' = fds /\ Goto(c, "unlock")
      BY <1>4, <2>2, Zenon DEF LockAppend
    <3>. QED BY <2>1, <3>1, EnterStep
  <2>3. CASE ~CommandFound(c)
    <3>1. file' = [file EXCEPT ![c] = Min(FreeFds)] /\ FreeFds # {}
      BY <1>4, <2>3, Zenon DEF LockAppend
    <3>2. fds' = Opened("dev", c) /\ Goto(c, "write")
      BY <1>4, <2>3, Zenon DEF LockAppend
    <3>. QED BY <2>1, <3>1, <3>2, EnterStep
  <2>. QED BY <2>2, <2>3
<1>5. CASE Write(c)
  <2>1. /\ pc[c] = "write"
        /\ UNCHANGED <<fds, file_mutex, file, main, accepted, client>>
    BY <1>5, Zenon DEF Write, mainVars
  <2>2. PICK s \in {"write", "unlock"} : Goto(c, s)
    BY <1>5, WriteGoto
  <2>. QED BY <2>1, <2>2, InsideStep
<1>6. CASE Unlock(c)
  <2>1. /\ pc[c] = "unlock" /\ Goto(c, AfterPacket(c)) /\ Release
        /\ file' = [file EXCEPT ![c] = 0]
        /\ UNCHANGED <<main, accepted, client>>
    BY <1>6, Zenon DEF Unlock, mainVars, network
  <2>2. IF file[c] # 0 THEN close(file[c], c) ELSE UNCHANGED <<fds, robbed>>
    BY <1>6, Zenon DEF Unlock
  <2>3. AfterPacket(c) \in {"recv", "lockread"}
    BY DEF AfterPacket
  <2>4. Shrinks /\ (file[c] \in Fd => fds'[file[c]] = Free)
    <3>1. 0 \notin Fd
      BY DEF Fd
    <3>. QED BY <1>0, <2>2, <3>1, CloseShrinks DEF StreamInv
  <2>. QED BY <2>1, <2>3, <2>4, LeaveStep DEF Release
<1>7. CASE LockRead(c)
  <2>. DEFINE s == IF self[c].found_ioctl_cmd THEN "ioctl" ELSE "fread"
  <2>1. /\ pc[c] = "lockread" /\ Acquire(c) /\ FreeFds # {}
        /\ fds' = Opened("dev", c) /\ Goto(c, s)
        /\ file' = [file EXCEPT ![c] = Min(FreeFds)]
        /\ UNCHANGED <<main, accepted, client>>
    BY <1>7, Zenon DEF LockRead, mainVars, network
  <2>2. s \in {"ioctl", "fread"}
    OBVIOUS
  <2>. HIDE DEF s
  <2>. QED BY <2>1, <2>2, EnterStep
<1>8. CASE Ioctl(c)
  <2>1. /\ pc[c] = "ioctl" /\ Goto(c, "fread")
        /\ UNCHANGED <<fds, file_mutex, file, main, accepted, client>>
    BY <1>8, Zenon DEF Ioctl, mainVars, network
  <2>. QED BY <2>1, InsideStep
<1>9. CASE Fread(c)
  <2>1. /\ pc[c] = "fread" /\ Goto(c, "closeread")
        /\ UNCHANGED <<fds, file_mutex, file, main, accepted, client>>
    BY <1>9, Zenon DEF Fread, mainVars
  <2>. QED BY <2>1, InsideStep
<1>10. CASE FreadFails(c) \/ CloseRead(c)
  <2>1. /\ pc[c] \in {"fread", "closeread"} /\ Goto(c, "send") /\ close(file[c], c)
        /\ file' = [file EXCEPT ![c] = 0]
        /\ UNCHANGED <<main, accepted, client>>
    BY <1>10, Zenon DEF FreadFails, CloseRead, mainVars, network
  <2>2. file_mutex' \in {file_mutex, NoClient}
    BY <1>10, Zenon DEF FreadFails, CloseRead, Release
  <2>3. Shrinks /\ (file[c] \in Fd => fds'[file[c]] = Free)
    BY <2>1, CloseShrinks DEF StreamInv
  <2>. QED BY <2>1, <2>2, <2>3, LeaveStep
<1>11. CASE Send(c) \/ Close(c)
  <2>1. PICK s \in {"close", "flag"} : Goto(c, s)
    BY <1>11, Zenon DEF Send, Close
  <2>2. /\ pc[c] \in {"send", "close"}
        /\ UNCHANGED <<file_mutex, file, main, accepted, client>>
    BY <1>11, Zenon DEF Send, Close, mainVars, network, locals
  <2>3. close(client_socket[c], c) \/ UNCHANGED fds
    BY <1>11, Zenon DEF Send, Close
  <2>4. Shrinks
    BY <1>0, <2>3, CloseShrinks DEF StreamInv
  <2>. QED BY <2>1, <2>2, <2>4, OutsideStep
<1>12. CASE Flag(c)
  <2>1. /\ pc[c] = "flag" /\ Goto(c, "exit")
        /\ UNCHANGED <<fds, file_mutex, file, main, accepted, client>>
    BY <1>12, Zenon DEF Flag, mainVars, network
  <2>. QED BY <1>0, <2>1, OutsideStep DEF StreamInv
<1>. QED
  BY <1>1, <1>2, <1>3, <1>4, <1>5, <1>6, <1>7, <1>8, <1>9, <1>10, <1>11, <1>12 DEF Handler
-----------------------------------------------------------------------------
(* The main thread opens and closes sockets, and starts a thread where     *)
(* there is none.                                                          *)
LEMMA MainInv ==
    ASSUME StreamInv, Main
    PROVE  StreamInv'
<1>1. CASE MainCreate
  <2>1. UNCHANGED <<fds, file_mutex, accepted, client>> /\ main = "create" /\ main' = "insert"
    BY <1>1, Zenon DEF MainCreate, network
  <2>2. accepted \in Client /\ pc[accepted] = "none" /\ client[accepted] \in {"open", "gone"}
    BY <2>1 DEF StreamInv, OneThreadPerClient
  <2>3. \/ Goto(accepted, "recv") /\ file' = [file EXCEPT ![accepted] = 0]
        \/ UNCHANGED <<pc, file>>
    BY <1>1, Zenon DEF MainCreate, threads, locals
  <2>4. DescriptorsTyped' /\ OneThreadPerClient'
    BY <2>1, <2>2, <2>3 DEF StreamInv, DescriptorsTyped, OneThreadPerClient, Goto, Steps
  <2>5. \A d \in Client : /\ Streaming(d) => Streaming(d)' /\ file'[d] = file[d]
                          /\ Locking(d)' => Locking(d)
    BY <2>2, <2>3 DEF StreamInv, DescriptorsTyped, Streaming, Locking, Goto
  <2>6. StreamsNamed' /\ OneStreamAtATime'
    BY <2>1, <2>5 DEF StreamInv, StreamsNamed, OneStreamAtATime
  <2>. QED BY <2>4, <2>6 DEF StreamInv
<1>2. CASE MainInsert
  <2>1. UNCHANGED <<fds, file_mutex, pc, file, client>> /\ main' = "cleanup"
    BY <1>2, Zenon DEF MainInsert, threads, locals, network
  <2>. QED BY <2>1 DEF StreamInv, DescriptorsTyped, StreamsNamed, OneThreadPerClient,
                       OneStreamAtATime, Streaming, Locking
<1>3. CASE CleanupThreads
  <2>1. UNCHANGED <<file_mutex, accepted, pc, file, client>> /\ main' # "create"
    BY <1>3, Zenon DEF CleanupThreads, Reap, threads, locals, network
  <2>2. UNCHANGED fds \/ \E f, c : close(f, c)
    BY <1>3, Zenon DEF CleanupThreads, Reap
  <2>3. Shrinks
    BY <2>2, CloseShrinks DEF Shrinks, StreamInv, DescriptorsTyped
  <2>4. \A f \in Fd : fds'[f].kind = "dev" => fds'[f] = fds[f]
    BY <2>3 DEF Shrinks, Free
  <2>5. \A d \in Client : (Streaming(d)' <=> Streaming(d)) /\ (Locking(d)' <=> Locking(d))
    BY <2>1 DEF Streaming, Locking
  <2>. QED BY <2>1, <2>3, <2>4, <2>5 DEF StreamInv, DescriptorsTyped, StreamsNamed,
                       OneThreadPerClient, OneStreamAtATime, Shrinks
<1>4. CASE \E c \in Client : MainAccept(c)
  <2>1. PICK c \in Client : MainAccept(c)
    BY <1>4
  <2>2. /\ UNCHANGED <<file_mutex, pc, file>> /\ main' = "create" /\ accepted' = c
        /\ client[c] = "waiting" /\ client' = [client EXCEPT ![c] = "open"]
        /\ FreeFds # {} /\ fds' = Opened("sock", c)
    BY <2>1, Zenon DEF MainAccept, threads, locals
  <2>3. \A f \in Fd : fds'[f].kind = "dev" => fds'[f] = fds[f]
    <3>1. \A f \in Fd : fds'[f] = fds[f] \/ fds'[f] = [kind |-> "sock", owner |-> c]
      BY <2>2, OpenedTyped DEF StreamInv
    <3>. QED BY <3>1
  <2>4. DescriptorsTyped' /\ OneThreadPerClient'
    BY <2>2, OpenedTyped DEF StreamInv, DescriptorsTyped, OneThreadPerClient
  <2>5. \A d \in Client : (Streaming(d)' <=> Streaming(d)) /\ (Locking(d)' <=> Locking(d))
    BY <2>2 DEF Streaming, Locking
  <2>. QED BY <2>2, <2>3, <2>4, <2>5 DEF StreamInv, StreamsNamed, OneStreamAtATime
<1>. QED BY <1>1, <1>2, <1>3, <1>4 DEF Main

(* The process ends, and with it threads, streams and the mutex. *)
LEMMA EndedInv ==
    ASSUME StreamInv, Ended
    PROVE  StreamInv'
<1>1. DescriptorsTyped' /\ StreamsNamed'
  BY DEF Ended, DescriptorsTyped, StreamsNamed, Free, Steps
<1>2. OneThreadPerClient'
  BY DEF StreamInv, Ended, OneThreadPerClient
<1>3. OneStreamAtATime'
  BY DEF Ended, OneStreamAtATime, Streaming, Locking, Free
<1>. QED BY <1>1, <1>2, <1>3 DEF StreamInv

LEMMA EnvironmentInv ==
    ASSUME StreamInv, Environment
    PROVE  StreamInv'
<1>1. CASE Ended
  BY <1>1, EndedInv
<1>2. CASE UNCHANGED <<fds, file_mutex, pc, file, main, accepted>>
           /\ \/ UNCHANGED client
              \/ \E c \in Client : /\ client[c] = "new"
                                   /\ client' = [client EXCEPT ![c] = "waiting"]
              \/ \E c \in Client : /\ client[c] \in {"waiting", "open"}
                                   /\ client' = [client EXCEPT ![c] = "gone"]
  BY <1>2 DEF StreamInv, DescriptorsTyped, StreamsNamed, OneThreadPerClient,
              OneStreamAtATime, Streaming, Locking
<1>3. CASE Start
  BY <1>2, <1>3, Zenon DEF Start, threads, locals, mainVars, network
<1>4. CASE Terminate
  BY <1>1, <1>4, Zenon DEF Terminate
<1>5. ASSUME NEW c \in Client, Connect(c) \/ HangUp(c) \/ MainAcceptFails(c)
      PROVE  StreamInv'
  BY <1>2, <1>5, Zenon DEF Connect, HangUp, MainAcceptFails, threads, locals, mainVars
<1>6. ASSUME NEW c \in Client, LockFails(c) \/ BrokenPipe(c)
      PROVE  StreamInv'
  BY <1>1, <1>6, Zenon DEF LockFails, BrokenPipe, Crash
<1>. QED BY <1>3, <1>4, <1>5, <1>6, Zenon DEF Environment

LEMMA StreamInit == Init => StreamInv
<1>. SUFFICES ASSUME Init PROVE StreamInv
  OBVIOUS
<1>1. DescriptorsTyped /\ StreamsNamed
  BY DEF Init, DescriptorsTyped, StreamsNamed, Free, Steps
<1>2. OneThreadPerClient
  BY DEF Init, OneThreadPerClient
<1>3. OneStreamAtATime
  BY DEF Init, OneStreamAtATime, Streaming, Locking, Free
<1>. QED BY <1>1, <1>2, <1>3 DEF StreamInv

LEMMA StreamNext ==
    ASSUME StreamInv, [Next]_vars
    PROVE  StreamInv'
<1>1. CASE Main \/ Environment
  BY <1>1, MainInv, EnvironmentInv
<1>2. CASE \E c \in Client : Handler(c)
  BY <1>2, HandlerInv
<1>3. CASE UNCHANGED vars
  <2>1. UNCHANGED <<fds, file_mutex, pc, file, main, accepted, client>>
    BY <1>3, Zenon DEF vars, threads, locals, mainVars, network
  <2>. QED BY <2>1 DEF StreamInv, DescriptorsTyped, StreamsNamed, OneThreadPerClient,
                       OneStreamAtATime, Streaming, Locking
<1>. QED BY <1>1, <1>2, <1>3, Zenon DEF Next

(* However many threads serve clients, and although a thread may close a   *)
(* descriptor of another one: file_mutex keeps their streams of the device *)
(* apart.                                                                  *)
THEOREM StreamsApart == Spec => []OneStreamAtATime
<1>1. StreamInv => OneStreamAtATime
  BY DEF StreamInv
<1>. QED BY <1>1, StreamInit, StreamNext, PTL DEF Spec
-----------------------------------------------------------------------------
(* Which descriptors are open, and by whom. *)
Description == [kind : {"sock", "dev"}, owner : Client] \cup {Free}

(* A thread at work has an info, which names its socket. *)
ThreadsInformed ==
    /\ fds \in [Fd -> Description]
    /\ info \in [Client -> ThreadInfo \cup {NULL}]
    /\ client_socket \in [Client -> {0} \cup Fd]
    /\ \A c \in Client : pc[c] \notin {"none", "exit"} =>
          info[c] # NULL /\ info[c].client_socket = client_socket[c]
    /\ \A c \in Client : client[c] \in {"new", "waiting"} => info[c] = NULL
    /\ main = "create" => info[accepted] # NULL

(* Whose a descriptor is, for one client and one descriptor. *)
Mine(c, f) == info[c] # NULL /\ info[c].client_socket = f
Account(c, f) ==
    /\ fds[f] = [kind |-> "sock", owner |-> c] => Mine(c, f) /\ pc[c] \notin {"flag", "exit"}
    /\ Mine(c, f) /\ pc[c] \notin {"close", "flag", "exit"} =>
          fds[f] = [kind |-> "sock", owner |-> c]
    /\ fds[f] = [kind |-> "dev", owner |-> c] <=> Streaming(c) /\ file[c] = f

Accounted == robbed = {} => \A c \in Client, f \in Fd : Account(c, f)

Accounts == StreamInv /\ ThreadsInformed /\ Accounted

(* Closing keeps the descriptions known, forgets no robbery, and if there  *)
(* is none, frees a descriptor of the thread's own or a free one.          *)
LEMMA CloseKnown ==
    ASSUME fds \in [Fd -> Description], NEW f \in {0} \cup Fd, NEW c, close(f, c)
    PROVE  /\ fds' \in [Fd -> Description]
           /\ \A g \in Fd : g # f => fds'[g] = fds[g]
           /\ f \in Fd => fds'[f] = Free
           /\ robbed' = {} => robbed = {} /\ (f \in Fd => fds[f].owner \in {c, NoClient})
<1>1. Free \in Description
  BY DEF Description
<1>2. fds' = [fds EXCEPT ![f] = Free]
  BY DEF close
<1>3. robbed' = {} => robbed = {} /\ fds[f].owner \in {c, NoClient}
  BY DEF close
<1>. QED BY <1>1, <1>2, <1>3

LEMMA OpenKnown ==
    ASSUME fds \in [Fd -> Description], NEW k \in {"sock", "dev"}, NEW c \in Client,
           FreeFds # {}, fds' = Opened(k, c)
    PROVE  /\ fds' \in [Fd -> Description]
           /\ Min(FreeFds) \in Fd /\ fds[Min(FreeFds)] = Free
           /\ fds'[Min(FreeFds)] = [kind |-> k, owner |-> c]
           /\ \A f \in Fd : f # Min(FreeFds) => fds'[f] = fds[f]
<1>1. Min(FreeFds) \in Fd /\ fds[Min(FreeFds)] = Free
  BY MinFree DEF FreeFds
<1>2. [kind |-> k, owner |-> c] \in Description
  BY DEF Description
<1>. QED BY <1>1, <1>2 DEF Opened

(* A step of a thread that has an info and keeps it. *)
Proceeds(c, s) ==
    /\ Moves(c, s) /\ pc[c] # "exit"
    /\ fds' \in [Fd -> Description]
    /\ UNCHANGED info
    /\ UNCHANGED client_socket

LEMMA ProceedsInformed ==
    ASSUME Accounts, NEW c \in Client, NEW s, Proceeds(c, s)
    PROVE  /\ ThreadsInformed'
           /\ \A d \in Client, f \in Fd : Mine(d, f)' <=> Mine(d, f)
           /\ \A d \in Client : d # c => pc'[d] = pc[d]
           /\ pc'[c] = s
BY DEF Accounts, StreamInv, DescriptorsTyped, ThreadsInformed, Proceeds, Moves, Goto, Mine

(* The descriptors stay as they are. *)
LEMMA KeepsDescriptors ==
    ASSUME Accounts, NEW c \in Client, NEW s, Proceeds(c, s),
           UNCHANGED <<fds, robbed>>,
           \A d \in Client \ {c} : file'[d] = file[d],
           \A f \in Fd : Streaming(c)' /\ file'[c] = f <=> Streaming(c) /\ file[c] = f,
           s \notin {"flag", "exit"}, pc[c] \notin {"close", "flag"}
    PROVE  ThreadsInformed' /\ Accounted'
<1>1. ThreadsInformed'
  BY ProceedsInformed
<1>2. \A d \in Client : d # c => (Streaming(d)' <=> Streaming(d))
  BY ProceedsInformed DEF Streaming
<1>3. ASSUME NEW d \in Client, NEW f \in Fd, Account(d, f)
      PROVE  Account(d, f)'
  <2>1. Mine(d, f)' <=> Mine(d, f)
    BY ProceedsInformed
  <2>2. Streaming(d)' /\ file'[d] = f <=> Streaming(d) /\ file[d] = f
    BY <1>2
  <2>3. pc'[d] \in {"flag", "exit"} <=> pc[d] \in {"flag", "exit"}
    BY ProceedsInformed DEF Proceeds
  <2>4. pc[d] \in {"close", "flag", "exit"} => pc'[d] \in {"close", "flag", "exit"}
    BY ProceedsInformed DEF Proceeds
  <2>. QED BY <1>3, <2>1, <2>2, <2>3, <2>4 DEF Account
<1>. QED BY <1>1, <1>3, Zenon DEF Accounts, Accounted

(* A stream is opened. *)
LEMMA OpensStream ==
    ASSUME Accounts, NEW c \in Client, NEW s, Proceeds(c, s),
           FreeFds # {}, fds' = Opened("dev", c), UNCHANGED robbed,
           file' = [file EXCEPT ![c] = Min(FreeFds)],
           pc[c] \in {"lock", "lockread"}, s \in {"write", "ioctl", "fread"}
    PROVE  ThreadsInformed' /\ Accounted'
<1>. DEFINE n == Min(FreeFds)
<1>1. ThreadsInformed'
  BY ProceedsInformed
<1>2. /\ n \in Fd /\ fds[n] = Free /\ fds'[n] = [kind |-> "dev", owner |-> c]
      /\ \A f \in Fd : f # n => fds'[f] = fds[f]
  BY OpenKnown DEF Accounts, ThreadsInformed
<1>. HIDE DEF n
<1>3. \A d \in Client : d # c => (Streaming(d)' <=> Streaming(d)) /\ file'[d] = file[d]
  BY ProceedsInformed DEF Streaming, Accounts, StreamInv, DescriptorsTyped
<1>4. Streaming(c)' /\ file'[c] = n /\ ~Streaming(c)
  BY ProceedsInformed DEF Streaming, Accounts, StreamInv, DescriptorsTyped, n
<1>5. ASSUME NEW d \in Client, NEW f \in Fd, Account(d, f)
      PROVE  Account(d, f)'
  <2>1. Mine(d, f)' <=> Mine(d, f)
    BY ProceedsInformed
  <2>2. /\ pc'[d] \in {"flag", "exit"} <=> pc[d] \in {"flag", "exit"}
        /\ pc'[d] \in {"close", "flag", "exit"} <=> pc[d] \in {"close", "flag", "exit"}
    BY ProceedsInformed
  <2>3. f = n => fds[f] # [kind |-> "sock", owner |-> d] /\ fds[f] # [kind |-> "dev", owner |-> d]
    BY <1>2 DEF Free
  <2>4. f = n => fds'[f] # [kind |-> "sock", owner |-> d]
    BY <1>2
  <2>5. fds'[f] = [kind |-> "dev", owner |-> d] <=> Streaming(d)' /\ file'[d] = f
    <3>1. CASE d = c /\ f = n
      BY <3>1, <1>2, <1>4
    <3>2. CASE d # c /\ f = n
      <4>1. fds'[f] # [kind |-> "dev", owner |-> d]
        BY <3>2, <1>2
      <4>. QED BY <3>2, <4>1, <1>3, <1>5, <2>3 DEF Account
    <3>3. CASE f # n
      BY <3>3, <1>2, <1>3, <1>4, <1>5 DEF Account
    <3>. QED BY <3>1, <3>2, <3>3
  <2>6. fds'[f] = [kind |-> "sock", owner |-> d] <=> fds[f] = [kind |-> "sock", owner |-> d]
    BY <1>2, <2>3, <2>4
  <2>. QED BY <1>5, <2>1, <2>2, <2>5, <2>6 DEF Account
<1>. QED BY <1>1, <1>5, Zenon DEF Accounts, Accounted

(* A thread closes the descriptor n: its stream or its socket. *)
LEMMA ClosesOwn ==
    ASSUME Accounts, NEW c \in Client, NEW s, Proceeds(c, s),
           NEW n \in {0} \cup Fd, close(n, c),
           \A d \in Client \ {c} : file'[d] = file[d],
           ~Streaming(c)',
           \/ n = file[c] /\ Streaming(c) /\ s \in {"recv", "lockread", "send"}
           \/ n = client_socket[c] /\ ~Streaming(c) /\ s \in {"close", "flag"}
    PROVE  ThreadsInformed' /\ Accounted'
<1>1. ThreadsInformed'
  BY ProceedsInformed
<1>2. \A d \in Client : d # c => (Streaming(d)' <=> Streaming(d))
  BY ProceedsInformed DEF Streaming
<1>3. /\ \A g \in Fd : g # n => fds'[g] = fds[g]
      /\ n \in Fd => fds'[n] = Free
      /\ robbed' = {} => robbed = {} /\ (n \in Fd => fds[n].owner \in {c, NoClient})
  BY CloseKnown DEF Accounts, ThreadsInformed
<1>4. info[c] # NULL /\ info[c].client_socket = client_socket[c]
  BY DEF Accounts, ThreadsInformed, Proceeds, Moves
<1>5. ASSUME robbed' = {}, NEW d \in Client, NEW f \in Fd, Account(d, f), Account(c, f)
      PROVE  Account(d, f)'
  <2>1. Mine(d, f)' <=> Mine(d, f)
    BY ProceedsInformed
  <2>2. d # c => fds'[f] = [kind |-> "sock", owner |-> d] <=> fds[f] = [kind |-> "sock", owner |-> d]
    BY <1>3, <1>5 DEF Free
  <2>3. d # c => fds'[f] = [kind |-> "dev", owner |-> d] <=> fds[f] = [kind |-> "dev", owner |-> d]
    BY <1>3, <1>5 DEF Free
  <2>4. CASE d # c
    <3>1. pc'[d] = pc[d] /\ file'[d] = file[d]
      BY <2>4, ProceedsInformed
    <3>. QED BY <1>2, <1>5, <2>1, <2>2, <2>3, <2>4, <3>1 DEF Account
  <2>5. CASE d = c
    <3>1. fds'[f] # [kind |-> "dev", owner |-> c]
      BY <1>3, <1>5 DEF Account, Free
    <3>2. CASE n = file[c] /\ Streaming(c) /\ s \in {"recv", "lockread", "send"}
      <4>0. pc[c] \notin {"close", "flag", "exit"}
        BY <3>2 DEF Streaming
      <4>1. Mine(c, f) => f # n
        BY <1>5, <3>2, <4>0 DEF Account
      <4>. QED BY <1>3, <1>5, <2>1, <2>5, <3>1, <3>2, <4>0, <4>1, ProceedsInformed DEF Account, Free
    <3>3. CASE n = client_socket[c] /\ ~Streaming(c) /\ s \in {"close", "flag"}
      <4>1. fds'[f] # [kind |-> "sock", owner |-> c]
        BY <1>3, <1>4, <1>5, <3>3 DEF Account, Mine, Free
      <4>. QED BY <2>5, <3>1, <3>3, <4>1, ProceedsInformed DEF Account
    <3>. QED BY <3>2, <3>3
  <2>. QED BY <2>4, <2>5
<1>. QED BY <1>1, <1>3, <1>5, Zenon DEF Accounts, Accounted

LEMMA HandlerAccounts ==
    ASSUME Accounts, NEW c \in Client, Handler(c)
    PROVE  ThreadsInformed' /\ Accounted'
<1>. USE DEF Moves, Steps, Proceeds
<1>0. /\ fds' = fds => fds' \in [Fd -> Description]
      /\ file[c] \in {0} \cup Fd /\ client_socket[c] \in {0} \cup Fd /\ 0 \notin Fd
      /\ fds \in [Fd -> Description] /\ DescriptorsTyped
      /\ \A n : file' = [file EXCEPT ![c] = n] =>
            file'[c] = n /\ \A d \in Client \ {c} : file'[d] = file[d]
      /\ \A s \in Steps : Goto(c, s) => pc'[c] = s
  BY DEF Accounts, StreamInv, DescriptorsTyped, ThreadsInformed, Fd, Goto
<1>1. CASE Recv(c) \/ Received(c) \/ EndOfStream(c)
  <2>1. PICK s \in {"receiving", "lockread", "lock"} : Goto(c, s)
    BY <1>1, Zenon DEF Recv, Received, EndOfStream
  <2>2. /\ pc[c] \in {"recv", "receiving"}
        /\ UNCHANGED <<fds, robbed, file, info, client_socket, main, accepted, client>>
    BY <1>1, Zenon DEF Recv, Received, EndOfStream, mainVars, network, locals
  <2>3. ~Streaming(c) /\ ~Streaming(c)'
    BY <1>0, <2>1, <2>2 DEF Streaming
  <2>. QED BY <1>0, <2>1, <2>2, <2>3, KeepsDescriptors
<1>2. CASE LockAppend(c)
  <2>1. /\ pc[c] = "lock"
        /\ UNCHANGED <<robbed, info, client_socket, main, accepted, client>>
    BY <1>2, Zenon DEF LockAppend, mainVars, network
  <2>2. CASE CommandFound(c)
    <3>1. file' = [file EXCEPT ![c] = 0] /\ fds' = fds /\ Goto(c, "unlock")
      BY <1>2, <2>2, Zenon DEF LockAppend
    <3>2. ~Streaming(c) /\ ~Streaming(c)'
      BY <1>0, <2>1, <3>1 DEF Streaming
    <3>. QED BY <1>0, <2>1, <3>1, <3>2, KeepsDescriptors
  <2>3. CASE ~CommandFound(c)
    <3>1. file' = [file EXCEPT ![c] = Min(FreeFds)] /\ FreeFds # {}
      BY <1>2, <2>3, Zenon DEF LockAppend
    <3>2. fds' = Opened("dev", c) /\ Goto(c, "write")
      BY <1>2, <2>3, Zenon DEF LockAppend
    <3>. QED BY <1>0, <2>1, <3>1, <3>2, OpenKnown, OpensStream
  <2>. QED BY <2>2, <2>3
<1>3. CASE Write(c) \/ Ioctl(c) \/ Fread(c)
  <2>1. PICK s \in {"write", "unlock", "fread", "closeread"} : Goto(c, s)
    BY <1>3, WriteGoto, Zenon DEF Ioctl, Fread
  <2>2. /\ pc[c] \in {"write", "ioctl", "fread"}
        /\ UNCHANGED <<fds, robbed, file, info, client_socket, main, accepted, client>>
    BY <1>3, Zenon DEF Write, Ioctl, Fread, mainVars, network, locals
  <2>3. \A f \in Fd : file[c] = f => Streaming(c) /\ Streaming(c)'
    BY <1>0, <2>1, <2>2 DEF Streaming
  <2>. QED BY <1>0, <2>1, <2>2, <2>3, KeepsDescriptors
<1>4. CASE Unlock(c)
  <2>1. /\ pc[c] = "unlock" /\ Goto(c, AfterPacket(c))
        /\ file' = [file EXCEPT ![c] = 0]
        /\ UNCHANGED <<info, client_socket, main, accepted, client>>
    BY <1>4, Zenon DEF Unlock, mainVars, network
  <2>2. IF file[c] # 0 THEN close(file[c], c) ELSE UNCHANGED <<fds, robbed>>
    BY <1>4, Zenon DEF Unlock
  <2>3. AfterPacket(c) \in {"recv", "lockread"}
    BY DEF AfterPacket
  <2>4. ~Streaming(c)'
    BY <1>0, <2>1, <2>3 DEF Streaming
  <2>5. CASE file[c] # 0
    <3>1. Streaming(c) /\ close(file[c], c)
      BY <2>1, <2>2, <2>5 DEF Streaming
    <3>. QED BY <1>0, <2>1, <2>3, <2>4, <3>1, CloseKnown, ClosesOwn
  <2>6. CASE file[c] = 0
    <3>1. ~Streaming(c) /\ UNCHANGED <<fds, robbed>>
      BY <2>1, <2>2, <2>6 DEF Streaming
    <3>. QED BY <1>0, <2>1, <2>3, <2>4, <3>1, KeepsDescriptors
  <2>. QED BY <2>5, <2>6
<1>5. CASE LockRead(c)
  <2>1. /\ pc[c] = "lockread" /\ FreeFds # {}
        /\ fds' = Opened("dev", c)
        /\ file' = [file EXCEPT ![c] = Min(FreeFds)]
        /\ UNCHANGED <<robbed, info, client_socket, main, accepted, client>>
    BY <1>5, Zenon DEF LockRead, mainVars, network
  <2>2. PICK s \in {"ioctl", "fread"} : Goto(c, s)
    BY <1>5, Zenon DEF LockRead
  <2>. QED BY <1>0, <2>1, <2>2, OpenKnown, OpensStream
<1>6. CASE FreadFails(c) \/ CloseRead(c)
  <2>1. /\ pc[c] \in {"fread", "closeread"} /\ Goto(c, "send") /\ close(file[c], c)
        /\ file' = [file EXCEPT ![c] = 0]
        /\ UNCHANGED <<info, client_socket, main, accepted, client>>
    BY <1>6, Zenon DEF FreadFails, CloseRead, mainVars, network
  <2>2. Streaming(c) /\ ~Streaming(c)'
    BY <1>0, <2>1 DEF Streaming
  <2>. QED BY <1>0, <2>1, <2>2, CloseKnown, ClosesOwn
<1>7. CASE Send(c)
  <2>1. /\ pc[c] = "send" /\ Goto(c, "close")
        /\ UNCHANGED <<file, info, client_socket, main, accepted, client>>
    BY <1>7, Zenon DEF Send, mainVars, locals
  <2>2. UNCHANGED <<fds, robbed>> \/ close(client_socket[c], c)
    BY <1>7, Zenon DEF Send
  <2>3. ~Streaming(c) /\ ~Streaming(c)'
    BY <1>0, <2>1 DEF Streaming
  <2>4. CASE UNCHANGED <<fds, robbed>>
    BY <1>0, <2>1, <2>3, <2>4, KeepsDescriptors
  <2>5. CASE close(client_socket[c], c)
    BY <1>0, <2>1, <2>3, <2>5, CloseKnown, ClosesOwn
  <2>. QED BY <2>2, <2>4, <2>5
<1>8. CASE Close(c)
  <2>1. /\ pc[c] = "close" /\ Goto(c, "flag") /\ close(client_socket[c], c)
        /\ UNCHANGED <<file, info, client_socket, main, accepted, client>>
    BY <1>8, Zenon DEF Close, mainVars, network
  <2>2. ~Streaming(c) /\ ~Streaming(c)'
    BY <1>0, <2>1 DEF Streaming
  <2>. QED BY <1>0, <2>1, <2>2, CloseKnown, ClosesOwn
<1>9. CASE Flag(c)
  <2>1. /\ pc[c] = "flag" /\ Goto(c, "exit")
        /\ info' = [info EXCEPT ![c] =
                       [client_socket |-> info[c].client_socket, complete |-> TRUE]]
        /\ client_socket' = [client_socket EXCEPT ![c] = 0]
        /\ UNCHANGED <<fds, robbed, file, main, accepted, client>>
    BY <1>9, Zenon DEF Flag, mainVars, network
  <2>2. info[c] \in ThreadInfo
    BY <2>1, NullAssumption DEF Accounts, ThreadsInformed
  <2>3. [client_socket |-> info[c].client_socket, complete |-> TRUE] \in ThreadInfo
    BY <2>2 DEF ThreadInfo
  <2>4. /\ pc'[c] = "exit"
        /\ \A d \in Client :
              /\ info'[d] # NULL <=> info[d] # NULL
              /\ info[d] # NULL => info'[d].client_socket = info[d].client_socket
              /\ d # c => info'[d] = info[d] /\ pc'[d] = pc[d]
              /\ d # c => client_socket'[d] = client_socket[d]
    BY <2>1, <2>2, <2>3, NullAssumption DEF Accounts, ThreadsInformed, StreamInv,
       DescriptorsTyped, Goto
  <2>5. ThreadsInformed'
    <3>1. /\ info' \in [Client -> ThreadInfo \cup {NULL}]
          /\ client_socket' \in [Client -> {0} \cup Fd]
          /\ fds' \in [Fd -> Description]
      BY <2>1, <2>3 DEF Accounts, ThreadsInformed
    <3>2. \A d \in Client : pc'[d] \notin {"none", "exit"} =>
              info'[d] # NULL /\ info'[d].client_socket = client_socket'[d]
      BY <2>4 DEF Accounts, ThreadsInformed
    <3>3. \A d \in Client : client'[d] \in {"new", "waiting"} => info'[d] = NULL
      BY <2>1, <2>4 DEF Accounts, ThreadsInformed
    <3>4. main' = "create" => info'[accepted'] # NULL
      BY <2>1, <2>4 DEF Accounts, StreamInv, OneThreadPerClient, ThreadsInformed
    <3>. QED BY <3>1, <3>2, <3>3, <3>4 DEF ThreadsInformed
  <2>6. \A d \in Client : Streaming(d)' <=> Streaming(d)
    <3>1. ~Streaming(c) /\ ~Streaming(c)'
      BY <2>1, <2>4 DEF Streaming
    <3>2. \A d \in Client : d # c => (Streaming(d)' <=> Streaming(d))
      BY <2>1, <2>4 DEF Streaming
    <3>. QED BY <3>1, <3>2
  <2>7. ASSUME NEW d \in Client, NEW f \in Fd, Account(d, f)
        PROVE  Account(d, f)'
    <3>1. Mine(d, f)' <=> Mine(d, f)
      BY <2>4 DEF Mine
    <3>2. /\ pc'[d] \in {"flag", "exit"} <=> pc[d] \in {"flag", "exit"}
          /\ pc'[d] \in {"close", "flag", "exit"} <=> pc[d] \in {"close", "flag", "exit"}
      BY <2>1, <2>4
    <3>. QED BY <2>1, <2>6, <2>7, <3>1, <3>2 DEF Account
  <2>. QED BY <2>1, <2>5, <2>7, Zenon DEF Accounts, Accounted
<1>. QED BY <1>1, <1>2, <1>3, <1>4, <1>5, <1>6, <1>7, <1>8, <1>9 DEF Handler

LEMMA MainAccounts ==
    ASSUME Accounts, Main
    PROVE  ThreadsInformed' /\ Accounted'
<1>0. StreamInv /\ ThreadsInformed /\ Accounted
  BY DEF Accounts
<1>1. CASE MainCreate
  <2>1. /\ UNCHANGED <<fds, robbed, info, accepted, client>>
        /\ main = "create" /\ main' = "insert"
    BY <1>1, Zenon DEF MainCreate, network
  <2>2. accepted \in Client /\ pc[accepted] = "none" /\ info[accepted] # NULL
    BY <1>0, <2>1 DEF StreamInv, OneThreadPerClient, ThreadsInformed
  <2>3. \/ /\ Goto(accepted, "recv") /\ file' = [file EXCEPT ![accepted] = 0]
           /\ client_socket' = [client_socket EXCEPT ![accepted] = info[accepted].client_socket]
        \/ UNCHANGED <<pc, file, client_socket>>
    BY <1>1, Zenon DEF MainCreate, threads, locals
  <2>4. info[accepted] \in ThreadInfo
    BY <1>0, <2>2 DEF ThreadsInformed
  <2>5. ThreadsInformed'
    <3>. DEFINE S == info[accepted].client_socket
    <3>1. S \in Fd
      BY <2>4 DEF ThreadInfo
    <3>2. CASE UNCHANGED <<pc, file, client_socket>>
      BY <1>0, <2>1, <3>2 DEF ThreadsInformed
    <3>3. CASE Goto(accepted, "recv") /\ client_socket' = [client_socket EXCEPT ![accepted] = S]
      <4>1. /\ client_socket' \in [Client -> {0} \cup Fd] /\ client_socket'[accepted] = S
            /\ \A d \in Client : d # accepted => client_socket'[d] = client_socket[d] /\ pc'[d] = pc[d]
        BY <1>0, <2>2, <3>1, <3>3 DEF StreamInv, DescriptorsTyped, ThreadsInformed, Goto
      <4>. QED BY <1>0, <2>1, <2>2, <4>1 DEF ThreadsInformed
    <3>. QED BY <2>3, <3>2, <3>3
  <2>6. \A d \in Client :
           /\ Streaming(d)' <=> Streaming(d)
           /\ Streaming(d) => file'[d] = file[d]
           /\ pc'[d] # pc[d] => pc[d] = "none" /\ pc'[d] = "recv"
    <3>1. CASE UNCHANGED <<pc, file, client_socket>>
      BY <3>1 DEF Streaming
    <3>2. CASE Goto(accepted, "recv") /\ file' = [file EXCEPT ![accepted] = 0]
      <4>1. /\ pc'[accepted] = "recv"
            /\ \A d \in Client : d # accepted => pc'[d] = pc[d] /\ file'[d] = file[d]
        BY <1>0, <2>2, <3>2 DEF StreamInv, DescriptorsTyped, Goto
      <4>2. \A d \in Client : d = accepted => ~Streaming(d) /\ ~Streaming(d)'
        BY <2>1, <2>2, <4>1 DEF Streaming
      <4>3. \A d \in Client : d # accepted => (Streaming(d)' <=> Streaming(d))
        BY <4>1 DEF Streaming
      <4>. QED BY <2>2, <4>1, <4>2, <4>3
    <3>. QED BY <2>3, <3>1, <3>2
  <2>7. \A d \in Client, f \in Fd : Mine(d, f)' <=> Mine(d, f)
    BY <2>1 DEF Mine
  <2>8. \A d \in Client, f \in Fd : Account(d, f) => Account(d, f)'
    BY <2>1, <2>6, <2>7 DEF Account
  <2>. QED BY <1>0, <2>1, <2>5, <2>8, Zenon DEF Accounted
<1>2. CASE MainInsert
  <2>1. UNCHANGED <<fds, robbed, info, pc, file, client_socket, client>> /\ main' = "cleanup"
    BY <1>2, Zenon DEF MainInsert, threads, locals, network
  <2>2. ThreadsInformed'
    BY <1>0, <2>1 DEF ThreadsInformed
  <2>3. \A d \in Client, f \in Fd : Account(d, f)' <=> Account(d, f)
    BY <2>1 DEF Account, Mine, Streaming
  <2>. QED BY <1>0, <2>1, <2>2, <2>3, Zenon DEF Accounted
<1>3. CASE CleanupThreads
  <2>. DEFINE c == Head(cursor)
              n == info[c].client_socket
  <2>1. UNCHANGED <<accepted, pc, file, client_socket, client>> /\ main' # "create"
    BY <1>3, Zenon DEF CleanupThreads, Reap, threads, locals, network
  <2>2. \/ UNCHANGED <<fds, robbed, info>>
        \/ pc[c] = "exit" /\ close(n, c) /\ info' = [info EXCEPT ![c] = NULL]
    BY <1>3, Zenon DEF CleanupThreads, Reap
  <2>. HIDE DEF n, c
  <2>3. \A d \in Client : Streaming(d)' <=> Streaming(d)
    BY <2>1 DEF Streaming
  <2>4. CASE UNCHANGED <<fds, robbed, info>>
    <3>1. ThreadsInformed'
      BY <1>0, <2>1, <2>4 DEF ThreadsInformed
    <3>2. \A d \in Client, f \in Fd : Account(d, f)' <=> Account(d, f)
      BY <2>1, <2>3, <2>4 DEF Account, Mine
    <3>. QED BY <1>0, <2>4, <3>1, <3>2, Zenon DEF Accounted
  <2>5. CASE pc[c] = "exit" /\ close(n, c) /\ info' = [info EXCEPT ![c] = NULL]
    <3>1. /\ fds' = [fds EXCEPT ![n] = Free]
          /\ robbed' = {} => robbed = {} /\ fds[n].owner \in {c, NoClient}
      BY <2>5 DEF close
    <3>2. fds' \in [Fd -> Description]
      BY <1>0, <3>1 DEF ThreadsInformed, Description
    <3>3. ThreadsInformed'
      BY <1>0, <2>1, <2>5, <3>2 DEF ThreadsInformed
    <3>4. ASSUME robbed' = {}, n \in Fd, \A d \in Client, f \in Fd : Account(d, f)
          PROVE  fds[n] = Free
      <4>. SUFFICES ASSUME fds[n] # Free PROVE FALSE
        OBVIOUS
      <4>1. fds[n] \in [kind : {"sock", "dev"}, owner : Client]
        BY <1>0, <3>4 DEF ThreadsInformed, Description
      <4>2. c \in Client /\ fds[n].owner = c
        BY <3>1, <3>4, <4>1
      <4>3. fds[n] = [kind |-> "sock", owner |-> c] \/ fds[n] = [kind |-> "dev", owner |-> c]
        BY <4>1, <4>2
      <4>4. ~Streaming(c)
        BY <2>5 DEF Streaming
      <4>. QED BY <2>5, <3>4, <4>2, <4>3, <4>4 DEF Account
    <3>5. ASSUME robbed' = {}, \A d \in Client, f \in Fd : Account(d, f),
                 NEW d \in Client, NEW f \in Fd
          PROVE  Account(d, f)'
      <4>1. fds' = fds
        BY <1>0, <3>1, <3>4, <3>5 DEF ThreadsInformed
      <4>2. Account(d, f) /\ (Streaming(d)' <=> Streaming(d))
        BY <2>3, <3>5
      <4>3. d # c => (Mine(d, f)' <=> Mine(d, f))
        BY <1>0, <2>5 DEF Mine, ThreadsInformed
      <4>4. d = c => ~Mine(d, f)'
        BY <1>0, <2>5 DEF Mine, ThreadsInformed
      <4>. QED BY <2>1, <2>5, <4>1, <4>2, <4>3, <4>4 DEF Account
    <3>. QED BY <1>0, <3>1, <3>3, <3>5, Zenon DEF Accounted
  <2>. QED BY <2>2, <2>4, <2>5
<1>4. CASE \E c \in Client : MainAccept(c)
  <2>. DEFINE n == Min(FreeFds)
  <2>1. PICK c \in Client : MainAccept(c)
    BY <1>4
  <2>2. /\ UNCHANGED <<robbed, pc, file, client_socket>> /\ main' = "create" /\ accepted' = c
        /\ client[c] = "waiting" /\ client' = [client EXCEPT ![c] = "open"]
        /\ FreeFds # {} /\ fds' = Opened("sock", c)
        /\ info' = [info EXCEPT ![c] = [client_socket |-> n, complete |-> FALSE]]
    BY <2>1, Zenon DEF MainAccept, threads, locals
  <2>3. /\ fds' \in [Fd -> Description]
        /\ n \in Fd /\ fds[n] = Free /\ fds'[n] = [kind |-> "sock", owner |-> c]
        /\ \A f \in Fd : f # n => fds'[f] = fds[f]
    BY <1>0, <2>2, OpenKnown DEF ThreadsInformed
  <2>. HIDE DEF n
  <2>4. info[c] = NULL /\ pc[c] = "none"
    BY <1>0, <2>2 DEF ThreadsInformed, StreamInv, OneThreadPerClient
  <2>5. [client_socket |-> n, complete |-> FALSE] \in ThreadInfo
    BY <2>3 DEF ThreadInfo
  <2>6. ThreadsInformed'
    <3>1. /\ info' \in [Client -> ThreadInfo \cup {NULL}] /\ info'[c] # NULL
          /\ \A d \in Client : d # c => info'[d] = info[d]
      BY <1>0, <2>2, <2>5, NullAssumption DEF ThreadsInformed
    <3>. QED BY <1>0, <2>2, <2>3, <2>4, <3>1 DEF ThreadsInformed, StreamInv, OneThreadPerClient
  <2>7. /\ \A f \in Fd : Mine(c, f)' <=> f = n
        /\ \A d \in Client, f \in Fd : d # c => (Mine(d, f)' <=> Mine(d, f))
    BY <1>0, <2>2, <2>3, <2>5, NullAssumption DEF Mine, ThreadsInformed
  <2>8. \A d \in Client : Streaming(d)' <=> Streaming(d)
    BY <2>2 DEF Streaming
  <2>9. ASSUME NEW d \in Client, NEW f \in Fd, Account(d, f)
        PROVE  Account(d, f)'
    <3>1. fds[n] # [kind |-> "sock", owner |-> d] /\ fds[n] # [kind |-> "dev", owner |-> d]
      BY <2>3 DEF Free
    <3>2. d # c => fds'[n] # [kind |-> "sock", owner |-> d]
      BY <2>3
    <3>3. fds'[n] # [kind |-> "dev", owner |-> d]
      BY <2>3
    <3>4. ~Mine(c, f)
      BY <2>4 DEF Mine
    <3>. QED BY <2>2, <2>3, <2>4, <2>7, <2>8, <2>9, <3>1, <3>2, <3>3, <3>4 DEF Account
  <2>. QED BY <1>0, <2>2, <2>6, <2>9, Zenon DEF Accounted
<1>. QED BY <1>1, <1>2, <1>3, <1>4 DEF Main

LEMMA EndedAccounts ==
    ASSUME Ended
    PROVE  ThreadsInformed' /\ Accounted'
<1>1. ThreadsInformed'
  BY DEF Ended, ThreadsInformed, Description
<1>2. \A d \in Client, f \in Fd : Account(d, f)'
  BY DEF Ended, Account, Mine, Streaming, Free
<1>. QED BY <1>1, <1>2, Zenon DEF Accounted

LEMMA EnvironmentAccounts ==
    ASSUME Accounts, Environment
    PROVE  ThreadsInformed' /\ Accounted'
<1>1. CASE Ended
  BY <1>1, EndedAccounts
<1>2. CASE UNCHANGED <<fds, robbed, info, pc, file, client_socket, main, accepted>>
           /\ \/ UNCHANGED client
              \/ \E c \in Client : /\ client[c] = "new"
                                   /\ client' = [client EXCEPT ![c] = "waiting"]
              \/ \E c \in Client : client' = [client EXCEPT ![c] = "gone"]
  <2>1. ThreadsInformed'
    BY <1>2 DEF Accounts, StreamInv, OneThreadPerClient, ThreadsInformed
  <2>2. \A d \in Client, f \in Fd : Account(d, f)' <=> Account(d, f)
    BY <1>2 DEF Account, Mine, Streaming
  <2>. QED BY <1>2, <2>1, <2>2, Zenon DEF Accounts, Accounted
<1>3. CASE Start
  BY <1>2, <1>3, Zenon DEF Start, threads, locals, mainVars, network
<1>4. CASE Terminate
  BY <1>1, <1>4, Zenon DEF Terminate
<1>5. ASSUME NEW c \in Client, Connect(c) \/ HangUp(c) \/ MainAcceptFails(c)
      PROVE  ThreadsInformed' /\ Accounted'
  BY <1>2, <1>5, Zenon DEF Connect, HangUp, MainAcceptFails, threads, locals, mainVars
<1>6. ASSUME NEW c \in Client, LockFails(c) \/ BrokenPipe(c)
      PROVE  ThreadsInformed' /\ Accounted'
  BY <1>1, <1>6, Zenon DEF LockFails, BrokenPipe, Crash
<1>. QED BY <1>3, <1>4, <1>5, <1>6, Zenon DEF Environment

LEMMA AccountsInit == Init => Accounts
<1>. SUFFICES ASSUME Init PROVE Accounts
  OBVIOUS
<1>1. ThreadsInformed
  BY DEF Init, ThreadsInformed, Description
<1>2. \A d \in Client, f \in Fd : Account(d, f)
  BY DEF Init, Account, Mine, Streaming, Free
<1>. QED BY <1>1, <1>2, StreamInit, Zenon DEF Accounts, Accounted

LEMMA AccountsNext ==
    ASSUME Accounts, [Next]_vars
    PROVE  Accounts'
<1>1. StreamInv'
  BY StreamNext DEF Accounts
<1>2. CASE Main \/ Environment
  BY <1>1, <1>2, MainAccounts, EnvironmentAccounts DEF Accounts
<1>3. CASE \E c \in Client : Handler(c)
  BY <1>1, <1>3, HandlerAccounts DEF Accounts
<1>4. CASE UNCHANGED vars
  <2>1. UNCHANGED <<fds, robbed, info, pc, file, client_socket, main, accepted, client>>
    BY <1>4, Zenon DEF vars, threads, locals, mainVars, network
  <2>2. ThreadsInformed'
    BY <2>1 DEF Accounts, ThreadsInformed
  <2>3. \A d \in Client, f \in Fd : Account(d, f)' <=> Account(d, f)
    BY <2>1 DEF Account, Mine, Streaming
  <2>. QED BY <1>1, <2>1, <2>2, <2>3, Zenon DEF Accounts, Accounted
<1>. QED BY <1>2, <1>3, <1>4, Zenon DEF Next

-----------------------------------------------------------------------------
(* The list of threads. *)

(* The list holds the infos of the threads that were created, and what     *)
(* cleanup_threads has yet to visit is in the list.                        *)
ListKept ==
    /\ thread_list \in Seq(Client) /\ IsInjective(thread_list)
    /\ cursor \in Seq(Client) /\ IsInjective(cursor)
    /\ ToSet(cursor) \subseteq ToSet(thread_list)
    /\ main \in {"accept", "create", "insert", "cleanup"}
    /\ main = "cleanup" <=> cursor # <<>>
    /\ accepted \in Client \cup {NoClient}
    /\ accepted # NoClient <=> main \in {"create", "insert"}
    /\ accepted \notin ToSet(thread_list)
    /\ \A c \in Client : info[c] # NULL <=> c \in ToSet(thread_list) \/ c = accepted

(* A thread at work has not said that it is complete. *)
NotComplete ==
    /\ \A c \in Client : pc[c] \notin {"none", "exit"} => ~info[c].complete
    /\ main = "create" => ~info[accepted].complete

(* A thread that uses a stream has opened one. *)
StreamOpen ==
    \A c \in Client : pc[c] \in {"write", "ioctl", "fread", "closeread"} => file[c] # 0

(* What is not about threads. *)
ProcessTyped ==
    /\ server \in {"up", "down"} /\ runs \in 0..MaxRuns /\ wedged \in BOOLEAN
    /\ lines \in Seq(ToSet(lines)) /\ Len(lines) <= Capacity
    /\ robbed \subseteq Client

ServerInv == Accounts /\ ListKept /\ NotComplete /\ StreamOpen /\ ProcessTyped

LEMMA InSet ==
    ASSUME NEW S, NEW s \in Seq(S)
    PROVE  /\ \A x : x \in ToSet(s) <=> \E i \in 1..Len(s) : s[i] = x
           /\ IsInjective(s) <=> \A i, j \in 1..Len(s) : s[i] = s[j] => i = j
BY DEF ToSet, IsInjective

(* SLIST_INSERT_HEAD *)
LEMMA InsertHead ==
    ASSUME NEW s \in Seq(Client), IsInjective(s), NEW x \in Client, x \notin ToSet(s)
    PROVE  /\ <<x>> \o s \in Seq(Client) /\ <<x>> \o s # <<>>
           /\ IsInjective(<<x>> \o s)
           /\ ToSet(<<x>> \o s) = ToSet(s) \cup {x}
<1>. DEFINE t == <<x>> \o s
<1>1. /\ t \in Seq(Client) /\ Len(t) = Len(s) + 1 /\ Len(s) \in Nat
      /\ t[1] = x /\ \A i \in 1..Len(s) : t[i + 1] = s[i]
  OBVIOUS
<1>. SUFFICES t \in Seq(Client) /\ t # <<>> /\ IsInjective(t) /\ ToSet(t) = ToSet(s) \cup {x}
  OBVIOUS
<1>. HIDE DEF t
<1>2. t # <<>>
  BY <1>1
<1>3. \A i \in 1..Len(t) : i = 1 \/ (i - 1 \in 1..Len(s) /\ t[i] = s[i - 1])
  BY <1>1
<1>4. \A i \in 1..Len(s) : s[i] # x
  BY InSet
<1>5. IsInjective(t)
  <2>1. ASSUME NEW i \in 1..Len(t), NEW j \in 1..Len(t), t[i] = t[j]
        PROVE  i = j
    <3>1. CASE i # 1 /\ j # 1
      <4>1. s[i - 1] = s[j - 1] /\ i - 1 \in 1..Len(s) /\ j - 1 \in 1..Len(s)
        BY <1>3, <2>1, <3>1
      <4>2. i - 1 = j - 1
        BY <4>1, InSet
      <4>. QED BY <1>1, <4>2
    <3>2. CASE i = 1
      BY <1>1, <1>3, <1>4, <2>1, <3>2
    <3>3. CASE j = 1
      BY <1>1, <1>3, <1>4, <2>1, <3>3
    <3>. QED BY <3>1, <3>2, <3>3
  <2>. QED BY <1>1, <2>1, InSet
<1>6. ASSUME NEW y
      PROVE  y \in ToSet(t) <=> y \in ToSet(s) \cup {x}
  <2>1. y \in ToSet(t) => y \in ToSet(s) \cup {x}
    BY <1>1, <1>3, InSet
  <2>2. y = x => y \in ToSet(t)
    <3>1. 1 \in 1..Len(t)
      BY <1>1
    <3>. QED BY <1>1, <3>1, InSet
  <2>3. y \in ToSet(s) => y \in ToSet(t)
    <3>. SUFFICES ASSUME y \in ToSet(s) PROVE y \in ToSet(t)
      OBVIOUS
    <3>1. PICK i \in 1..Len(s) : s[i] = y
      BY InSet
    <3>2. i + 1 \in 1..Len(t) /\ t[i + 1] = y
      BY <1>1, <3>1
    <3>. QED BY <1>1, <3>2, InSet
  <2>. QED BY <2>1, <2>2, <2>3
<1>. QED BY <1>1, <1>2, <1>5, <1>6

(* SLIST_REMOVE: the element at position i goes. *)
LEMMA RemoveOne ==
    ASSUME NEW s \in Seq(Client), IsInjective(s), NEW x \in ToSet(s)
    PROVE  /\ RemoveFirst(s, x) \in Seq(Client)
           /\ IsInjective(RemoveFirst(s, x))
           /\ ToSet(RemoveFirst(s, x)) = ToSet(s) \ {x}
<1>. DEFINE I == {i \in 1..Len(s) : s[i] = x}
            k == Min(I)
            t == RemoveAt(s, k)
<1>1. \E i \in 1..Len(s) : s[i] = x
  BY InSet
<1>2. I \in SUBSET Nat /\ I # {}
  BY <1>1
<1>3. k \in 1..Len(s) /\ s[k] = x
  BY <1>2, MinValue
<1>4. RemoveFirst(s, x) = t
  BY <1>1, <1>2 DEF RemoveFirst, SelectInSeq
<1>. HIDE DEF k, I
<1>5. /\ t \in Seq(Client) /\ Len(t) = Len(s) - 1 /\ Len(s) \in Nat
      /\ \A i \in 1..(Len(s) - 1) : t[i] = IF i < k THEN s[i] ELSE s[i + 1]
  <2>. DEFINE a == SubSeq(s, 1, k - 1)
              b == SubSeq(s, k + 1, Len(s))
  <2>1. /\ a \in Seq(Client) /\ Len(a) = k - 1
        /\ \A i \in 1..(k - 1) : a[i] = s[i]
    <3>1. \A i \in 1..(k - 1) : s[i] \in Client
      BY <1>3
    <3>2. k - 1 \in Int /\ (1 <= k - 1 => (k - 1) - 1 + 1 = k - 1) /\ (~(1 <= k - 1) => k - 1 = 0)
      BY <1>3
    <3>. QED BY <1>3, <3>1, <3>2, SubSeqProperties
  <2>2. /\ b \in Seq(Client) /\ Len(b) = Len(s) - k
        /\ \A i \in 1..(Len(s) - k) : b[i] = s[k + i]
    <3>1. \A i \in (k + 1)..Len(s) : s[i] \in Client
      BY <1>3
    <3>. QED BY <1>3, <3>1, SubSeqProperties
  <2>3. t = a \o b
    BY DEF RemoveAt
  <2>. HIDE DEF a, b, t
  <2>4. /\ t \in Seq(Client) /\ Len(t) = Len(a) + Len(b)
        /\ \A i \in 1..(Len(a) + Len(b)) : t[i] = IF i <= Len(a) THEN a[i] ELSE b[i - Len(a)]
    <3>1. a \in Seq(Client) /\ b \in Seq(Client)
      BY <2>1, <2>2
    <3>2. /\ a \o b \in Seq(Client) /\ Len(a \o b) = Len(a) + Len(b)
          /\ \A i \in 1..(Len(a) + Len(b)) :
                (a \o b)[i] = IF i <= Len(a) THEN a[i] ELSE b[i - Len(a)]
      BY <3>1, ConcatProperties
    <3>. QED BY <2>3, <3>2
  <2>5. Len(a) + Len(b) = Len(s) - 1
    BY <1>3, <2>1, <2>2
  <2>6. ASSUME NEW i \in 1..(Len(s) - 1)
        PROVE  t[i] = IF i < k THEN s[i] ELSE s[i + 1]
    <3>1. CASE i < k
      <4>1. t[i] = a[i] /\ i \in 1..(k - 1)
        BY <1>3, <2>1, <2>4, <2>5, <3>1
      <4>. QED BY <2>1, <3>1, <4>1
    <3>2. CASE ~(i < k)
      <4>1. t[i] = b[i - Len(a)]
        BY <1>3, <2>1, <2>4, <2>5, <3>2
      <4>2. i - Len(a) \in 1..(Len(s) - k) /\ k + (i - Len(a)) = i + 1
        BY <1>3, <2>1, <3>2, SMTT(30)
      <4>3. b[i - Len(a)] = s[k + (i - Len(a))]
        BY <2>2, <4>2
      <4>. QED BY <3>2, <4>1, <4>2, <4>3
    <3>. QED BY <3>1, <3>2
  <2>. QED BY <2>4, <2>5, <2>6
<1>. HIDE DEF t
<1>6. ASSUME NEW i \in 1..Len(t), NEW j \in 1..Len(t), t[i] = t[j]
      PROVE  i = j
  <2>. DEFINE f(n) == IF n < k THEN n ELSE n + 1
  <2>1. f(i) \in 1..Len(s) /\ f(j) \in 1..Len(s) /\ t[i] = s[f(i)] /\ t[j] = s[f(j)]
    BY <1>3, <1>5
  <2>2. f(i) = f(j)
    <3>. HIDE DEF f
    <3>. QED BY <1>6, <2>1, InSet, ZenonT(40)
  <2>. QED BY <1>3, <1>5, <2>2
<1>7. ASSUME NEW y
      PROVE  y \in ToSet(t) <=> y \in ToSet(s) /\ y # x
  <2>1. ASSUME y \in ToSet(t)
        PROVE  y \in ToSet(s) /\ y # x
    <3>1. PICK i \in 1..Len(t) : t[i] = y
      BY <1>5, <2>1, InSet
    <3>2. PICK n \in 1..Len(s) : n # k /\ s[n] = y
      BY <1>3, <1>5, <3>1
    <3>. QED BY <1>3, <3>2, InSet
  <2>2. ASSUME y \in ToSet(s), y # x
        PROVE  y \in ToSet(t)
    <3>1. PICK n \in 1..Len(s) : s[n] = y
      BY <2>2, InSet
    <3>2. n # k
      BY <1>3, <2>2, <3>1
    <3>3. CASE n < k
      <4>1. n \in 1..Len(t) /\ t[n] = y
        BY <1>3, <1>5, <3>1, <3>3
      <4>. QED BY <1>5, <4>1, InSet
    <3>4. CASE n > k
      <4>1. n - 1 \in 1..Len(t) /\ t[n - 1] = s[(n - 1) + 1] /\ (n - 1) + 1 = n
        BY <1>3, <1>5, <3>4
      <4>2. t[n - 1] = y
        BY <3>1, <4>1
      <4>. QED BY <1>5, <4>1, <4>2, InSet
    <3>. QED BY <1>3, <3>2, <3>3, <3>4
  <2>. QED BY <2>1, <2>2
<1>8. IsInjective(t) /\ ToSet(t) = ToSet(s) \ {x}
  BY <1>5, <1>6, <1>7, InSet, SMTT(30)
<1>. QED BY <1>4, <1>5, <1>8

(* cleanup_threads goes on to the next element. *)
LEMMA NextElement ==
    ASSUME NEW s \in Seq(Client), IsInjective(s), s # <<>>
    PROVE  /\ Head(s) \in Client /\ Head(s) \in ToSet(s)
           /\ Tail(s) \in Seq(Client) /\ IsInjective(Tail(s))
           /\ ToSet(Tail(s)) \subseteq ToSet(s) \ {Head(s)}
<1>. DEFINE t == Tail(s)
<1>1. /\ t \in Seq(Client) /\ Len(t) = Len(s) - 1 /\ Len(s) \in Nat \ {0}
      /\ \A i \in 1..Len(t) : t[i] = s[i + 1]
      /\ Head(s) = s[1] /\ s[1] \in Client
  OBVIOUS
<1>. HIDE DEF t
<1>2. Head(s) \in ToSet(s)
  <2>1. 1 \in 1..Len(s)
    BY <1>1
  <2>. QED BY <1>1, <2>1, InSet
<1>3. ASSUME NEW i \in 1..Len(t), NEW j \in 1..Len(t), t[i] = t[j]
      PROVE  i = j
  <2>1. i + 1 \in 1..Len(s) /\ j + 1 \in 1..Len(s) /\ s[i + 1] = s[j + 1]
    BY <1>1, <1>3
  <2>2. i + 1 = j + 1
    BY <2>1, InSet
  <2>. QED BY <1>1, <2>2
<1>4. ASSUME NEW y \in ToSet(t)
      PROVE  y \in ToSet(s) /\ y # Head(s)
  <2>1. PICK i \in 1..Len(t) : t[i] = y
    BY <1>1, InSet
  <2>2. i + 1 \in 1..Len(s) /\ 1 \in 1..Len(s) /\ i + 1 # 1 /\ s[i + 1] = y
    BY <1>1, <2>1
  <2>3. s[i + 1] # s[1]
    BY <2>2, InSet
  <2>. QED BY <1>1, <2>2, <2>3, InSet
<1>5. IsInjective(t) /\ ToSet(t) \subseteq ToSet(s) \ {Head(s)}
  BY <1>1, <1>3, <1>4, InSet
<1>. QED BY <1>1, <1>2, <1>5 DEF t

(* The device keeps at most Capacity lines. *)
LEMMA AcceptLines ==
    ASSUME lines \in Seq(ToSet(lines)), Len(lines) <= Capacity, NEW w, NEW k, Device!Accept(w, k)
    PROVE  lines' \in Seq(ToSet(lines')) /\ Len(lines') <= Capacity
<1>. DEFINE bytes == partial \o SubSeq(w, 1, k)
            S == ToSet(lines) \cup {bytes}
<1>1. lines \in Seq(S) /\ bytes \in S /\ Len(lines) \in Nat
  OBVIOUS
<1>2. \/ lines' = lines
      \/ Len(lines) < Capacity /\ lines' = Append(lines, bytes)
      \/ ~(Len(lines) < Capacity) /\ lines' = Append(Tail(lines), bytes)
  BY DEF Device!Accept
<1>. HIDE DEF bytes, S
<1>3. CASE lines' = lines
  BY <1>3
<1>4. ASSUME NEW t \in Seq(S), Len(t) < Capacity, lines' = Append(t, bytes)
      PROVE  lines' \in Seq(ToSet(lines')) /\ Len(lines') <= Capacity
  <2>1. lines' \in Seq(S) /\ Len(lines') = Len(t) + 1 /\ Len(t) \in Nat
    BY <1>1, <1>4, AppendProperties
  <2>. DEFINE u == lines'
  <2>2. u \in Seq(S)
    BY <2>1
  <2>. HIDE DEF u
  <2>3. u \in Seq(ToSet(u))
    BY <2>2 DEF ToSet
  <2>. QED BY <1>4, <2>1, <2>3 DEF u
<1>5. CASE Len(lines) < Capacity /\ lines' = Append(lines, bytes)
  BY <1>1, <1>4, <1>5
<1>6. CASE ~(Len(lines) < Capacity) /\ lines' = Append(Tail(lines), bytes)
  <2>1. Tail(lines) \in Seq(S) /\ Len(Tail(lines)) < Capacity
    BY <1>1, <1>6
  <2>. QED BY <1>4, <1>6, <2>1
<1>. QED BY <1>2, <1>3, <1>5, <1>6

(* A step of a thread, which concerns the list only when it is done. *)
LEMMA HandlerList ==
    ASSUME ServerInv, NEW c \in Client, Handler(c)
    PROVE  ListKept' /\ NotComplete'
<1>0. Accounts /\ ListKept /\ NotComplete /\ pc \in [Client -> Steps] /\ DOMAIN info = Client
  BY DEF ServerInv, Accounts, StreamInv, DescriptorsTyped, ThreadsInformed
<1>1. UNCHANGED <<main, accepted, thread_list, cursor>>
  BY Zenon DEF Handler, Recv, Received, EndOfStream, LockAppend, Write, Unlock, LockRead, Ioctl,
               Fread, FreadFails, CloseRead, Send, Close, Flag, mainVars
<1>2. CASE Flag(c)
  <2>1. /\ pc[c] = "flag" /\ pc' = [pc EXCEPT ![c] = "exit"]
        /\ info' = [info EXCEPT ![c] = [client_socket |-> @.client_socket, complete |-> TRUE]]
    BY <1>2, Zenon DEF Flag, Goto
  <2>2. info[c] \in ThreadInfo
    BY <1>0, <2>1 DEF Accounts, ThreadsInformed
  <2>3. info'[c] # NULL /\ \A d \in Client : d # c => info'[d] = info[d] /\ pc'[d] = pc[d]
    <3>1. [client_socket |-> info[c].client_socket, complete |-> TRUE] \in ThreadInfo
      BY <2>2 DEF ThreadInfo
    <3>. QED BY <1>0, <2>1, <3>1, NullAssumption
  <2>4. info[c] # NULL
    BY <2>2, NullAssumption
  <2>5. main = "create" => accepted # c
    BY <1>0, <2>1 DEF Accounts, StreamInv, OneThreadPerClient
  <2>6. ListKept'
    BY <1>0, <1>1, <2>3, <2>4 DEF ListKept
  <2>7. \A d \in Client : pc'[d] \notin {"none", "exit"} => ~info'[d].complete
    BY <1>0, <2>1, <2>3 DEF NotComplete
  <2>8. main' = "create" => ~info'[accepted'].complete
    BY <1>0, <1>1, <2>3, <2>5 DEF NotComplete, ListKept
  <2>. QED BY <2>6, <2>7, <2>8 DEF NotComplete
<1>3. CASE ~Flag(c)
  <2>1. UNCHANGED info
    BY <1>3, Zenon DEF Handler, Recv, Received, EndOfStream, LockAppend, Write, Unlock, LockRead, Ioctl,
                       Fread, FreadFails, CloseRead, Send, Close
  <2>2. pc[c] \notin {"none", "exit"}
    BY <1>3 DEF Handler, Recv, Received, EndOfStream, LockAppend, Write, Unlock, LockRead, Ioctl,
                Fread, FreadFails, CloseRead, Send, Close
  <2>3. \E s : Goto(c, s)
    BY <1>3, WriteGoto, Zenon DEF Handler, Recv, Received, EndOfStream, LockAppend, Unlock, LockRead,
                                  Ioctl, Fread, FreadFails, CloseRead, Send, Close
  <2>4. \A d \in Client : pc'[d] \notin {"none", "exit"} => pc[d] \notin {"none", "exit"}
    BY <1>0, <2>2, <2>3 DEF Goto
  <2>5. ListKept'
    BY <1>1, <2>1, <1>0 DEF ListKept
  <2>. QED BY <1>0, <1>1, <2>1, <2>4, <2>5 DEF NotComplete
<1>. QED BY <1>2, <1>3

LEMMA MainList ==
    ASSUME ServerInv, Main
    PROVE  ListKept' /\ NotComplete'
<1>0. Accounts /\ ListKept /\ NotComplete /\ pc \in [Client -> Steps] /\ DOMAIN info = Client
  BY DEF ServerInv, Accounts, StreamInv, DescriptorsTyped, ThreadsInformed
<1>1. CASE MainCreate
  <2>1. UNCHANGED <<info, accepted, thread_list, cursor>> /\ main = "create" /\ main' = "insert"
    BY <1>1, Zenon DEF MainCreate
  <2>2. pc' = pc \/ pc' = [pc EXCEPT ![accepted] = "recv"]
    BY <1>1, Zenon DEF MainCreate, Goto, threads
  <2>3. ListKept'
    BY <1>0, <2>1 DEF ListKept
  <2>. QED BY <1>0, <2>1, <2>2, <2>3 DEF NotComplete
<1>2. CASE MainInsert
  <2>1. /\ UNCHANGED <<info, pc>> /\ main = "insert" /\ main' = "cleanup" /\ accepted' = NoClient
        /\ thread_list' = <<accepted>> \o thread_list /\ cursor' = <<accepted>> \o thread_list
    BY <1>2, Zenon DEF MainInsert, threads
  <2>2. accepted \in Client
    BY <1>0, <2>1 DEF ListKept
  <2>3. /\ thread_list' \in Seq(Client) /\ thread_list' # <<>> /\ IsInjective(thread_list')
        /\ ToSet(thread_list') = ToSet(thread_list) \cup {accepted}
    BY <1>0, <2>1, <2>2, InsertHead DEF ListKept
  <2>4. cursor' = thread_list'
    BY <2>1
  <2>5. ListKept'
    <3>1. NoClient \notin ToSet(thread_list')
      BY <2>3, InSet
    <3>2. \A c \in Client : info'[c] # NULL <=> c \in ToSet(thread_list') \/ c = accepted'
      BY <1>0, <2>1, <2>3 DEF ListKept
    <3>. QED BY <2>1, <2>3, <2>4, <3>1, <3>2 DEF ListKept
  <2>. QED BY <1>0, <2>1, <2>5 DEF NotComplete
<1>3. CASE CleanupThreads
  <2>. DEFINE c == Head(cursor)
  <2>1. /\ main = "cleanup" /\ cursor' = Tail(cursor) /\ UNCHANGED <<pc, accepted>>
        /\ main' = IF Tail(cursor) = <<>> THEN "accept" ELSE "cleanup"
    BY <1>3, Zenon DEF CleanupThreads, Reap, threads
  <2>2. /\ cursor \in Seq(Client) /\ IsInjective(cursor) /\ cursor # <<>>
        /\ accepted = NoClient
    BY <1>0, <2>1 DEF ListKept
  <2>3. /\ c \in Client /\ c \in ToSet(cursor)
        /\ cursor' \in Seq(Client) /\ IsInjective(cursor')
        /\ ToSet(cursor') \subseteq ToSet(cursor) \ {c}
    BY <2>1, <2>2, NextElement
  <2>4. /\ main' \in {"accept", "cleanup"}
        /\ main' = "cleanup" <=> cursor' # <<>>
    BY <2>1
  <2>5. CASE UNCHANGED <<info, thread_list>>
    <3>1. ListKept'
      BY <1>0, <2>1, <2>2, <2>3, <2>4, <2>5 DEF ListKept
    <3>. QED BY <1>0, <2>1, <2>4, <2>5, <3>1 DEF NotComplete
  <2>6. CASE /\ pc[c] = "exit" /\ thread_list' = RemoveFirst(thread_list, c)
             /\ info' = [info EXCEPT ![c] = NULL]
    <3>. HIDE DEF c
    <3>1. c \in ToSet(thread_list)
      BY <1>0, <2>3 DEF ListKept
    <3>2. /\ thread_list' \in Seq(Client) /\ IsInjective(thread_list')
          /\ ToSet(thread_list') = ToSet(thread_list) \ {c}
      BY <1>0, <2>6, <3>1, RemoveOne DEF ListKept
    <3>3. \A d \in Client : info'[d] = IF d = c THEN NULL ELSE info[d]
      BY <1>0, <2>6
    <3>4. /\ ToSet(cursor') \subseteq ToSet(thread_list') /\ accepted' = NoClient
          /\ accepted' \notin ToSet(thread_list')
      BY <1>0, <2>1, <2>2, <2>3, <3>2 DEF ListKept
    <3>5. \A d \in Client : info'[d] # NULL <=> d \in ToSet(thread_list') \/ d = accepted'
      BY <1>0, <2>1, <2>2, <3>2, <3>3 DEF ListKept
    <3>6. ListKept'
      BY <2>3, <2>4, <3>2, <3>4, <3>5 DEF ListKept
    <3>7. \A d \in Client : pc'[d] \notin {"none", "exit"} => ~info'[d].complete
      BY <1>0, <2>1, <2>6, <3>3 DEF NotComplete
    <3>. QED BY <2>4, <3>6, <3>7 DEF NotComplete
  <2>7. \/ UNCHANGED <<info, thread_list>>
        \/ /\ pc[c] = "exit" /\ thread_list' = RemoveFirst(thread_list, c)
           /\ info' = [info EXCEPT ![c] = NULL]
    BY <1>3, Zenon DEF CleanupThreads, Reap, Without
  <2>. QED BY <2>5, <2>6, <2>7
<1>4. CASE \E c \in Client : MainAccept(c)
  <2>1. PICK c \in Client : MainAccept(c)
    BY <1>4
  <2>2. /\ UNCHANGED <<pc, thread_list, cursor>> /\ main = "accept" /\ main' = "create" /\ accepted' = c
        /\ client[c] = "waiting" /\ FreeFds # {}
        /\ info' = [info EXCEPT ![c] = [client_socket |-> Min(FreeFds), complete |-> FALSE]]
    BY <2>1, Zenon DEF MainAccept, threads
  <2>3. [client_socket |-> Min(FreeFds), complete |-> FALSE] \in ThreadInfo
    BY <2>2, MinFree DEF ThreadInfo, FreeFds
  <2>4. info[c] = NULL /\ pc[c] = "none"
    BY <1>0, <2>2 DEF Accounts, ThreadsInformed, StreamInv, OneThreadPerClient
  <2>5. /\ info'[c] # NULL /\ ~info'[c].complete
        /\ \A d \in Client : d # c => info'[d] = info[d]
    BY <1>0, <2>2, <2>3, NullAssumption
  <2>6. accepted = NoClient /\ c \notin ToSet(thread_list)
    BY <1>0, <2>2, <2>4 DEF ListKept
  <2>7. ListKept'
    <3>1. \A d \in Client : info'[d] # NULL <=> d \in ToSet(thread_list') \/ d = accepted'
      BY <1>0, <2>2, <2>5, <2>6 DEF ListKept
    <3>. QED BY <1>0, <2>2, <2>6, <3>1 DEF ListKept
  <2>8. NotComplete'
    BY <1>0, <2>2, <2>4, <2>5 DEF NotComplete
  <2>. QED BY <2>7, <2>8
<1>. QED BY <1>1, <1>2, <1>3, <1>4 DEF Main

LEMMA EndedList ==
    ASSUME Ended
    PROVE  ListKept' /\ NotComplete'
<1>1. /\ thread_list' = <<>> /\ cursor' = <<>> /\ main' = "accept" /\ accepted' = NoClient
      /\ \A c \in Client : info'[c] = NULL /\ pc'[c] = "none"
  BY DEF Ended
<1>2. <<>> \in Seq(Client) /\ IsInjective(<<>>) /\ ToSet(<<>>) = {}
  BY DEF IsInjective, ToSet
<1>. QED BY <1>1, <1>2 DEF ListKept, NotComplete

LEMMA EnvironmentList ==
    ASSUME ServerInv, Environment
    PROVE  ListKept' /\ NotComplete'
<1>1. CASE Ended
  BY <1>1, EndedList
<1>2. CASE UNCHANGED <<info, pc, main, accepted, thread_list, cursor>>
  BY <1>2 DEF ServerInv, ListKept, NotComplete
<1>3. CASE Start
  BY <1>2, <1>3, Zenon DEF Start, threads, mainVars
<1>4. CASE Terminate
  BY <1>1, <1>4, Zenon DEF Terminate
<1>5. ASSUME NEW c \in Client, Connect(c) \/ HangUp(c) \/ MainAcceptFails(c)
      PROVE  ListKept' /\ NotComplete'
  BY <1>2, <1>5, Zenon DEF Connect, HangUp, MainAcceptFails, threads, mainVars
<1>6. ASSUME NEW c \in Client, LockFails(c) \/ BrokenPipe(c)
      PROVE  ListKept' /\ NotComplete'
  BY <1>1, <1>6, Zenon DEF LockFails, BrokenPipe, Crash
<1>. QED BY <1>3, <1>4, <1>5, <1>6, Zenon DEF Environment

LEMMA ServerInit == Init => ServerInv
<1>. SUFFICES ASSUME Init PROVE ServerInv
  OBVIOUS
<1>1. <<>> \in Seq(Client) /\ IsInjective(<<>>) /\ ToSet(<<>>) = {}
  BY DEF IsInjective, ToSet
<1>2. ListKept /\ NotComplete /\ StreamOpen
  BY <1>1 DEF Init, ListKept, NotComplete, StreamOpen
<1>3. ProcessTyped
  <2>1. server = "down" /\ runs = 0 /\ wedged = FALSE /\ lines = Stored /\ robbed = {}
    BY DEF Init
  <2>2. wedged \in BOOLEAN
    BY <2>1, Zenon
  <2>3. runs \in 0..MaxRuns
    BY <2>1
  <2>4. lines \in Seq(ToSet(lines)) /\ Len(lines) <= Capacity
    BY <2>1, StoredAssumption DEF ToSet
  <2>. QED BY <2>1, <2>2, <2>3, <2>4 DEF ProcessTyped
<1>. QED BY <1>2, <1>3, AccountsInit DEF ServerInv

LEMMA StreamOpenNext ==
    ASSUME ServerInv, Next
    PROVE  StreamOpen'
<1>. DEFINE Using == {"write", "ioctl", "fread", "closeread"}
<1>0. /\ StreamOpen /\ ListKept /\ pc \in [Client -> Steps] /\ file \in [Client -> {0} \cup Fd]
      /\ 0 \notin Fd
  BY DEF ServerInv, Accounts, StreamInv, DescriptorsTyped, Fd
<1>1. ASSUME NEW c \in Client, NEW s, Goto(c, s),
             \A d \in Client \ {c} : file'[d] = file[d],
             s \in Using => file'[c] # 0
      PROVE  StreamOpen'
  BY <1>0, <1>1 DEF Goto, StreamOpen
<1>2. CASE UNCHANGED <<pc, file>>
  BY <1>0, <1>2 DEF StreamOpen
<1>3. CASE Ended
  BY <1>3 DEF Ended, StreamOpen
<1>4. CASE Main
  <2>1. CASE MainCreate /\ ~UNCHANGED <<pc, file>>
    <3>1. /\ main = "create" /\ Goto(accepted, "recv")
          /\ file' = [file EXCEPT ![accepted] = 0]
      BY <2>1, Zenon DEF MainCreate, threads, locals
    <3>2. PICK c \in Client : c = accepted
      BY <1>0, <3>1 DEF ListKept
    <3>. QED BY <1>0, <1>1, <3>1, <3>2
  <2>2. CASE ~MainCreate
    BY <1>2, <1>4, <2>2, Zenon DEF Main, MainInsert, CleanupThreads, Reap, MainAccept, threads, locals
  <2>. QED BY <1>2, <2>1, <2>2
<1>5. CASE Environment
  BY <1>2, <1>3, <1>5, Zenon DEF Environment, Start, Terminate, Connect, HangUp, MainAcceptFails,
     LockFails, BrokenPipe, Crash, threads, locals
<1>6. ASSUME NEW c \in Client, Handler(c)
      PROVE  StreamOpen'
  <2>1. CASE LockAppend(c) \/ LockRead(c)
    <3>1. PICK s : /\ Goto(c, s)
                   /\ \/ file' = [file EXCEPT ![c] = 0] /\ s = "unlock"
                      \/ file' = [file EXCEPT ![c] = Min(FreeFds)] /\ FreeFds # {}
      <4>1. CASE LockAppend(c)
        <5>1. CASE CommandFound(c)
          BY <4>1, <5>1, Zenon DEF LockAppend
        <5>2. CASE ~CommandFound(c)
          BY <4>1, <5>2, Zenon DEF LockAppend
        <5>. QED BY <5>1, <5>2
      <4>2. CASE LockRead(c)
        BY <4>2, Zenon DEF LockRead
      <4>. QED BY <2>1, <4>1, <4>2
    <3>2. FreeFds # {} => Min(FreeFds) \in Fd
      BY MinFree DEF FreeFds
    <3>3. s \in Using => file'[c] # 0
      BY <1>0, <3>1, <3>2
    <3>4. \A d \in Client \ {c} : file'[d] = file[d]
      BY <1>0, <3>1
    <3>. QED BY <1>1, <3>1, <3>3, <3>4
  <2>2. CASE Write(c) \/ Ioctl(c) \/ Fread(c)
    <3>1. pc[c] \in Using /\ UNCHANGED file
      BY <2>2 DEF Write, Ioctl, Fread
    <3>2. \E s : Goto(c, s)
      BY <2>2, WriteGoto, Zenon DEF Ioctl, Fread
    <3>. QED BY <1>0, <1>1, <3>1, <3>2 DEF StreamOpen
  <2>3. CASE ~(Write(c) \/ Ioctl(c) \/ Fread(c) \/ LockAppend(c) \/ LockRead(c))
    <3>1. /\ file' = file \/ file' = [file EXCEPT ![c] = 0]
          /\ \E s : s \notin Using /\ Goto(c, s)
      BY <1>6, <2>3
      DEF Handler, Recv, Received, EndOfStream, Unlock, FreadFails, CloseRead, Send, Close,
          Flag, AfterPacket, locals
    <3>. QED BY <1>0, <1>1, <3>1
  <2>. QED BY <2>1, <2>2, <2>3
<1>. QED BY <1>4, <1>5, <1>6 DEF Next

(* What a step does to the process and to the device. *)
DeviceStep ==
    /\ server' \in {server, "up", "down"}
    /\ runs' = runs \/ (runs < MaxRuns /\ runs' = runs + 1)
    /\ wedged' = wedged \/ \E cmd : wedged' = (cmd >= Capacity)
    /\ lines' = lines \/ \E w, k : Device!Accept(w, k)

LEMMA DeviceSteps ==
    ASSUME Next
    PROVE  DeviceStep
<1>1. CASE UNCHANGED <<process, device>>
  BY <1>1, Zenon DEF DeviceStep, process, device
<1>2. CASE Main
  BY <1>1, <1>2, Zenon DEF Main, MainCreate, MainInsert, CleanupThreads, Reap, MainAccept
<1>3. CASE Environment
  <2>1. CASE Start
    BY <2>1, Zenon DEF Start, DeviceStep, device
  <2>2. CASE Terminate
    BY <2>2, Zenon DEF Terminate, Ended, DeviceStep
  <2>3. CASE Crash
    BY <2>3, Zenon DEF Crash, Ended, DeviceStep, device
  <2>4. ASSUME NEW c \in Client, Connect(c) \/ HangUp(c) \/ MainAcceptFails(c)
        PROVE  DeviceStep
    BY <1>1, <2>4, Zenon DEF Connect, HangUp, MainAcceptFails
  <2>. QED BY <1>3, <2>1, <2>2, <2>3, <2>4, Zenon DEF Environment, LockFails, BrokenPipe
<1>4. ASSUME NEW c \in Client, Handler(c)
      PROVE  DeviceStep
  <2>1. CASE Write(c)
    BY <2>1, Zenon DEF Write, DeviceStep, process
  <2>2. CASE Ioctl(c)
    BY <2>2, Zenon DEF Ioctl, DeviceStep, process
  <2>3. CASE Recv(c) \/ Received(c) \/ EndOfStream(c) \/ LockAppend(c) \/ Unlock(c)
    BY <1>1, <2>3, Zenon DEF Recv, Received, EndOfStream, LockAppend, Unlock
  <2>4. CASE LockRead(c) \/ Fread(c) \/ FreadFails(c) \/ CloseRead(c)
    BY <1>1, <2>4, Zenon DEF LockRead, Fread, FreadFails, CloseRead
  <2>5. CASE Send(c) \/ Close(c) \/ Flag(c)
    BY <1>1, <2>5, Zenon DEF Send, Close, Flag
  <2>. QED BY <1>4, <2>1, <2>2, <2>3, <2>4, <2>5, Zenon DEF Handler
<1>. QED BY <1>2, <1>3, <1>4, Zenon DEF Next

LEMMA ProcessNext ==
    ASSUME ServerInv, Next
    PROVE  ProcessTyped'
<1>0. ProcessTyped /\ Accounts /\ DeviceStep
  BY DeviceSteps DEF ServerInv
<1>1. server' \in {"up", "down"} /\ runs' \in 0..MaxRuns
  BY <1>0 DEF ProcessTyped, DeviceStep
<1>2. wedged' \in BOOLEAN
  <2>1. CASE UNCHANGED wedged
    BY <1>0, <2>1, Zenon DEF ProcessTyped
  <2>2. ASSUME NEW cmd, wedged' = (cmd >= Capacity)
        PROVE  wedged' \in BOOLEAN
    <3>1. (cmd >= Capacity) \in BOOLEAN
      BY SMT
    <3>. QED BY <2>2, <3>1, Zenon
  <2>. QED BY <1>0, <2>1, <2>2, Zenon DEF DeviceStep
<1>3. lines' \in Seq(ToSet(lines')) /\ Len(lines') <= Capacity
  BY <1>0, AcceptLines DEF ProcessTyped, DeviceStep
<1>4. robbed' \subseteq Client
  <2>1. ASSUME NEW f \in Fd, NEW c, close(f, c)
        PROVE  robbed' \subseteq Client
    <3>1. fds[f].owner \in Client \cup {NoClient}
      BY <1>0 DEF Accounts, ThreadsInformed, Description, Free
    <3>. QED BY <1>0, <2>1, <3>1 DEF close, ProcessTyped
  <2>2. CASE UNCHANGED robbed
    BY <1>0, <2>2 DEF ProcessTyped
  <2>3. CASE Ended
    BY <2>3 DEF Ended
  <2>4. CASE Main
    <3>1. CASE CleanupThreads /\ ~UNCHANGED robbed
      <4>1. close(info[Head(cursor)].client_socket, Head(cursor)) /\ main = "cleanup"
        BY <3>1, Zenon DEF CleanupThreads, Reap
      <4>2. Head(cursor) \in Client /\ Head(cursor) \in ToSet(thread_list)
        BY <4>1, NextElement DEF ServerInv, ListKept
      <4>3. info[Head(cursor)] \in ThreadInfo
        BY <1>0, <4>2 DEF ServerInv, ListKept, Accounts, ThreadsInformed
      <4>4. info[Head(cursor)].client_socket \in Fd
        BY <4>3 DEF ThreadInfo
      <4>. QED BY <2>1, <4>1, <4>4
    <3>2. CASE ~CleanupThreads
      BY <2>2, <2>4, <3>2, Zenon DEF Main, MainCreate, MainInsert, MainAccept
    <3>. QED BY <2>2, <3>1, <3>2
  <2>5. CASE Environment
    BY <2>2, <2>3, <2>5, Zenon DEF Environment, Start, Terminate, Connect, HangUp, MainAcceptFails,
       LockFails, BrokenPipe, Crash
  <2>6. ASSUME NEW c \in Client, Handler(c)
        PROVE  robbed' \subseteq Client
    <3>1. CASE \E f \in Fd : close(f, c)
      BY <2>1, <3>1
    <3>2. CASE UNCHANGED robbed
      BY <2>2, <3>2
    <3>3. \/ UNCHANGED robbed
          \/ pc[c] \in {"fread", "closeread"} /\ close(file[c], c)
          \/ file[c] # 0 /\ close(file[c], c)
          \/ pc[c] \in {"send", "close"} /\ close(client_socket[c], c)
      BY <2>6, Zenon
      DEF Handler, Recv, Received, EndOfStream, LockAppend, Write, Unlock, LockRead, Ioctl, Fread,
          FreadFails, CloseRead, Send, Close, Flag
    <3>4. file[c] # 0 => file[c] \in Fd
      BY <1>0 DEF Accounts, StreamInv, DescriptorsTyped
    <3>5. pc[c] \in {"fread", "closeread"} => file[c] # 0
      BY DEF ServerInv, StreamOpen
    <3>6. pc[c] \in {"send", "close"} => client_socket[c] \in Fd
      BY <1>0 DEF Accounts, ThreadsInformed, ThreadInfo
    <3>. QED BY <3>1, <3>2, <3>3, <3>4, <3>5, <3>6
  <2>. QED BY <2>4, <2>5, <2>6 DEF Next
<1>. QED BY <1>1, <1>2, <1>3, <1>4 DEF ProcessTyped

LEMMA ServerNext ==
    ASSUME ServerInv, [Next]_vars
    PROVE  ServerInv'
<1>1. CASE Next
  <2>1. Accounts'
    BY <1>1, AccountsNext DEF ServerInv
  <2>2. ListKept' /\ NotComplete'
    BY <1>1, MainList, EnvironmentList, HandlerList DEF Next
  <2>. QED BY <1>1, <2>1, <2>2, StreamOpenNext, ProcessNext DEF ServerInv
<1>2. CASE UNCHANGED vars
  <2>1. /\ UNCHANGED <<server, runs, lines, wedged, fds, file_mutex, main, accepted, thread_list>>
        /\ UNCHANGED <<cursor, info, pc, client_socket, file, client, robbed>>
    BY <1>2, Zenon DEF vars, process, device, mainVars, threads, locals, network
  <2>2. Accounts'
    BY <1>2, AccountsNext DEF ServerInv
  <2>3. ProcessTyped'
    BY <2>1, Zenon DEF ServerInv, ProcessTyped
  <2>. QED BY <2>1, <2>2, <2>3 DEF ServerInv, ListKept, NotComplete, StreamOpen
<1>. QED BY <1>1, <1>2

(* Every variable has its type; a thread at work has an info that is       *)
(* neither freed nor complete, and the list holds exactly the infos that   *)
(* exist, each once: handle_connection never writes to an info that        *)
(* cleanup_threads has freed.                                              *)
THEOREM ServerTyped == Spec => []TypeOK
<1>1. ASSUME ServerInv
      PROVE  TypeOK
  <2>1. /\ server \in {"up", "down"} /\ runs \in 0..MaxRuns /\ wedged \in BOOLEAN
        /\ Len(lines) <= Capacity /\ robbed \subseteq Client
    BY <1>1, Zenon DEF ServerInv, ProcessTyped
  <2>2. /\ fds \in [Fd -> [kind : {"sock", "dev"}, owner : Client] \cup {Free}]
        /\ file_mutex \in Client \cup {NoClient} /\ pc \in [Client -> Steps]
        /\ client \in [Client -> {"new", "waiting", "open", "gone"}]
        /\ info \in [Client -> ThreadInfo \cup {NULL}]
    BY <1>1, Zenon DEF ServerInv, Accounts, StreamInv, DescriptorsTyped, OneThreadPerClient,
       ThreadsInformed, Description
  <2>3. /\ main \in {"accept", "create", "insert", "cleanup"} /\ IsInjective(thread_list)
        /\ (main = "cleanup") = (cursor # <<>>)
        /\ (accepted # NoClient) = (main \in {"create", "insert"})
    BY <1>1 DEF ServerInv, ListKept
  <2>4. ASSUME NEW c \in Client
        PROVE  /\ info[c] # NULL <=> c \in ToSet(thread_list) \cup ({accepted} \ {NoClient})
               /\ pc[c] \notin {"none", "exit"} => info[c] # NULL /\ ~info[c].complete
    BY <1>1 DEF ServerInv, ListKept, NotComplete, Accounts, ThreadsInformed
  <2>. QED BY <2>1, <2>2, <2>3, <2>4, Zenon DEF TypeOK
<1>. QED BY <1>1, ServerInit, ServerNext, PTL DEF Spec

(* An info without a thread is that of the connection main works on, or    *)
(* pthread_create has failed.                                              *)
Created ==
    ~Faults => \A c \in Client :
                  info[c] # NULL /\ pc[c] = "none" => main = "create" /\ c = accepted

LEMMA CreatedNext ==
    ASSUME ServerInv, Created, [Next]_vars
    PROVE  Created'
<1>0. /\ pc \in [Client -> Steps] /\ DOMAIN info = Client
      /\ main = "create" => accepted \in Client
  BY DEF ServerInv, ListKept, Accounts, StreamInv, DescriptorsTyped, ThreadsInformed
<1>1. ASSUME NEW c \in Client, Handler(c)
      PROVE  Created'
  <2>1. UNCHANGED <<main, accepted>>
    BY <1>1, Zenon DEF Handler, Recv, Received, EndOfStream, LockAppend, Write, Unlock, LockRead, Ioctl,
                       Fread, FreadFails, CloseRead, Send, Close, Flag, mainVars
  <2>2. \E s \in Steps \ {"none"} : Goto(c, s)
    <3>1. \A t \in Steps \ {"none"} : Goto(c, t) => \E s \in Steps \ {"none"} : Goto(c, s)
      BY Zenon
    <3>2. CASE Recv(c) \/ Received(c) \/ EndOfStream(c)
      BY <3>1, <3>2 DEF Recv, Received, EndOfStream, Steps
    <3>6. CASE LockAppend(c)
      BY <3>1, <3>6, AppendGoto DEF Steps
    <3>3. CASE Unlock(c) \/ LockRead(c) \/ Ioctl(c)
      <4>1. CASE Unlock(c)
        <5>1. Goto(c, AfterPacket(c))
          BY <4>1 DEF Unlock
        <5>2. AfterPacket(c) \in Steps \ {"none"}
          BY DEF AfterPacket, Steps
        <5>. QED BY <3>1, <5>1, <5>2
      <4>2. CASE LockRead(c) \/ Ioctl(c)
        BY <3>1, <4>2 DEF LockRead, Ioctl, Steps
      <4>. QED BY <3>3, <4>1, <4>2
    <3>5. CASE Write(c)
      BY <3>1, <3>5, WriteGoto DEF Steps
    <3>4. CASE Fread(c) \/ FreadFails(c) \/ CloseRead(c) \/ Send(c) \/ Close(c) \/ Flag(c)
      BY <3>1, <3>4 DEF Fread, FreadFails, CloseRead, Send, Close, Flag, Steps
    <3>. QED BY <1>1, <3>2, <3>3, <3>4, <3>5, <3>6 DEF Handler
  <2>3. UNCHANGED info \/ \E x : info' = [info EXCEPT ![c] = x]
    BY <1>1, Zenon DEF Handler, Recv, Received, EndOfStream, LockAppend, Write, Unlock, LockRead, Ioctl,
                       Fread, FreadFails, CloseRead, Send, Close, Flag
  <2>4. /\ pc'[c] # "none"
        /\ \A d \in Client : d # c => pc'[d] = pc[d] /\ info'[d] = info[d]
    BY <1>0, <2>2, <2>3 DEF Goto
  <2>. QED BY <2>1, <2>4 DEF Created
<1>2. CASE MainCreate
  <2>1. /\ main = "create" /\ UNCHANGED <<info, accepted>>
        /\ ~Faults => pc' = [pc EXCEPT ![accepted] = "recv"]
    BY <1>2, Zenon DEF MainCreate, Goto
  <2>. QED BY <1>0, <2>1 DEF Created
<1>3. CASE MainInsert \/ CleanupThreads
  <2>1. main # "create" /\ UNCHANGED pc
    BY <1>3 DEF MainInsert, CleanupThreads, Reap, threads
  <2>2. UNCHANGED info \/ \E c : info' = [info EXCEPT ![c] = NULL]
    BY <1>3, Zenon DEF MainInsert, CleanupThreads, Reap
  <2>3. \A d \in Client : info'[d] # NULL => info[d] # NULL
    BY <1>0, <2>2
  <2>. QED BY <2>1, <2>3 DEF Created
<1>4. ASSUME NEW c \in Client, MainAccept(c)
      PROVE  Created'
  <2>1. /\ main # "create" /\ main' = "create" /\ accepted' = c /\ UNCHANGED pc
        /\ \E x : info' = [info EXCEPT ![c] = x]
    BY <1>4 DEF MainAccept, threads
  <2>. QED BY <1>0, <2>1 DEF Created
<1>5. CASE Environment
  <2>1. CASE Ended
    BY <2>1 DEF Ended, Created
  <2>2. CASE UNCHANGED <<info, pc, main, accepted>>
    BY <2>2 DEF Created
  <2>. QED BY <1>5, <2>1, <2>2, Zenon DEF Environment, Start, Terminate, Connect, HangUp, MainAcceptFails,
              LockFails, BrokenPipe, Crash, threads, mainVars
<1>6. CASE UNCHANGED vars
  <2>1. UNCHANGED <<info, pc, main, accepted>>
    BY <1>6, Zenon DEF vars, threads, mainVars
  <2>. QED BY <2>1 DEF Created
<1>. QED BY <1>1, <1>2, <1>3, <1>4, <1>5, <1>6, Zenon DEF Next, Main

(* As long as no descriptor was closed by a thread that does not own it,   *)
(* the open descriptors are the sockets of the connections that are served *)
(* (main has just accepted them, or a thread has yet to close them), the   *)
(* stream of the thread that has the device open, and the sockets of       *)
(* connections for which pthread_create failed, whose info stays in the    *)
(* list: without such a failure handle_connection, cleanup_threads and     *)
(* their error paths leak none.                                            *)
THEOREM DescriptorsKept == Spec => []DescriptorsAccountedFor
<1>1. Init => Created
  BY DEF Init, Created
<1>2. ASSUME ServerInv, Created
      PROVE  DescriptorsAccountedFor
  <2>1. SUFFICES ASSUME robbed = {}, NEW c \in Client, NEW f \in Fd
                 PROVE  /\ fds[f] = [kind |-> "sock", owner |-> c] =>
                              /\ info[c] # NULL /\ info[c].client_socket = f
                              /\ \/ c = accepted \/ pc[c] \notin {"none", "flag", "exit"}
                                 \/ Leaked(c)
                        /\ info[c] # NULL /\ info[c].client_socket = f
                              /\ pc[c] \notin {"close", "flag", "exit"} =>
                              fds[f] = [kind |-> "sock", owner |-> c]
                        /\ fds[f] = [kind |-> "dev", owner |-> c] <=> Streaming(c) /\ file[c] = f
    BY Zenon DEF DescriptorsAccountedFor
  <2>2. Account(c, f)
    BY <1>2, <2>1 DEF ServerInv, Accounts, Accounted
  <2>3. info[c] # NULL => c \in ToSet(thread_list) \/ c = accepted
    BY <1>2 DEF ServerInv, ListKept
  <2>4. info[c] # NULL /\ pc[c] = "none" => c = accepted \/ Leaked(c)
    BY <1>2, <2>3 DEF Created, Leaked
  <2>. QED BY <2>2, <2>4 DEF Account, Mine
<1>. QED BY <1>1, <1>2, ServerInit, ServerNext, CreatedNext, PTL DEF Spec
-----------------------------------------------------------------------------
(* What is sent, in the locals of the threads and on the device. *)
USE StreamAssumption, StoredAssumption

Letter == (UNION {ToSet(Stream[c]) : c \in Client})
          \cup (UNION {ToSet(Stored[i]) : i \in DOMAIN Stored})
Word == Seq(Letter)
LocalNames == {"conn", "newString", "newline", "found_ioctl_cmd", "args", "uncut", "failed", "pos", "contents"}

Working(c) == pc[c] \notin {"none", "exit"}

LocalsHeld(c) ==
    /\ Working(c) => /\ DOMAIN self[c] = LocalNames
                     /\ self[c].newString \in Word
    /\ pc[c] = "receiving" => self[c].conn \in Client

Texts ==
    /\ lines \in Seq(Word) /\ partial \in Word
    /\ sent \in [Client -> Word]
    /\ \A c \in Client : ToSet(sent[c]) \subseteq ToSet(Stream[c])
    /\ DOMAIN self = Client /\ \A c \in Client : LocalsHeld(c)

LEMMA StreamTyped ==
    /\ Stream \in [Client -> Word]
    /\ Stored \in Seq(Word) /\ DOMAIN Stored = 1..Len(Stored)
<1>. DEFINE A == UNION {ToSet(Stream[c]) : c \in Client}
            B == UNION {ToSet(Stored[i]) : i \in DOMAIN Stored}
<1>1. Stream \in [Client -> Seq(A)] /\ Stored \in Seq(Seq(B)) /\ Letter = A \cup B
  BY Zenon DEF Letter
<1>2. \A T, U : Seq(T) \subseteq Seq(T \cup U) /\ Seq(U) \subseteq Seq(T \cup U)
  OBVIOUS
<1>. HIDE DEF A, B
<1>3. Seq(A) \subseteq Word /\ Seq(B) \subseteq Word
  BY <1>1, <1>2 DEF Word
<1>4. Stored \in Seq(Word)
  BY <1>1, <1>3
<1>. QED BY <1>1, <1>3, <1>4

(* A piece of a text is a text, with no other characters. *)
LEMMA CutOff ==
    ASSUME NEW s \in Word, NEW i \in Nat \ {0}, NEW j \in 0..Len(s)
    PROVE  /\ SubSeq(s, i, j) \in Word
           /\ ToSet(SubSeq(s, i, j)) \subseteq ToSet(s)
<1>. DEFINE t == SubSeq(s, i, j)
<1>2. s \in Seq(Letter) /\ Len(s) \in Nat
  BY DEF Word
<1>1. /\ t \in Seq(Letter)
      /\ \A n \in 1..Len(t) : t[n] = s[i + n - 1] /\ i + n - 1 \in 1..Len(s)
  <2>1. CASE i <= j
    BY <1>2, <2>1, SubSeqProperties
  <2>2. CASE ~(i <= j)
    <3>1. t = <<>>
      BY <1>2, <2>2
    <3>. QED BY <3>1
  <2>. QED BY <2>1, <2>2
<1>. HIDE DEF t
<1>3. ASSUME NEW x \in ToSet(t)
      PROVE  x \in ToSet(s)
  <2>1. PICK n \in 1..Len(t) : t[n] = x
    BY <1>1, InSet
  <2>. QED BY <1>1, <1>2, <2>1, InSet
<1>. QED BY <1>1, <1>3 DEF t, Word

(* A text that is written in pieces: one that fits the stream's buffer has *)
(* one piece, and nothing is left of a text after its last.                *)
LEMMA PieceAndRest ==
    ASSUME NEW s \in Word, NEW k \in Pieces(s)
    PROVE  /\ k \in 0..Len(s) /\ Len(Piece(s, k)) = k
           /\ Piece(s, k) \in Word /\ ToSet(Piece(s, k)) \subseteq ToSet(s)
           /\ Rest(s, k) \in Word /\ ToSet(Rest(s, k)) \subseteq ToSet(s)
           /\ Len(s) <= BUFSIZ => k = Len(s)
           /\ k = Len(s) => Piece(s, k) = s /\ Rest(s, k) = <<>>
<1>1. s \in Seq(Letter) /\ Len(s) \in Nat
  BY DEF Word
<1>2. k \in 0..Len(s) /\ (Len(s) <= BUFSIZ => k = Len(s))
  BY <1>1 DEF Pieces
<1>3. Piece(s, k) \in Word /\ ToSet(Piece(s, k)) \subseteq ToSet(s)
  BY <1>2, CutOff DEF Piece
<1>4. Rest(s, k) \in Word /\ ToSet(Rest(s, k)) \subseteq ToSet(s)
  <2>1. k + 1 \in Nat \ {0} /\ Len(s) \in 0..Len(s)
    BY <1>1, <1>2
  <2>. QED BY <2>1, CutOff DEF Rest
<1>5. Len(Piece(s, k)) = k
  BY <1>1, <1>2 DEF Piece
<1>6. k = Len(s) => Piece(s, k) = s /\ Rest(s, k) = <<>>
  BY <1>1 DEF Piece, Rest
<1>. QED BY <1>2, <1>3, <1>4, <1>5, <1>6

(* extract_data_up_to_newline copies a piece of the buffer. *)
LEMMA Extract ==
    ASSUME NEW buf \in Word
    PROVE  /\ extract_data_up_to_newline(buf) \in Word
           /\ ToSet(extract_data_up_to_newline(buf)) \subseteq ToSet(buf)
<1>1. CASE NewlineAt(buf) # {}
  <2>1. NewlineAt(buf) \subseteq Nat /\ NewlineAt(buf) \subseteq 0..Len(buf)
    BY DEF NewlineAt, Word
  <2>2. Min(NewlineAt(buf)) \in 0..Len(buf)
    BY <1>1, <2>1, MinValue
  <2>. QED BY <1>1, <2>2, CutOff DEF extract_data_up_to_newline, new_line_found
<1>2. CASE NewlineAt(buf) = {}
  BY <1>2 DEF extract_data_up_to_newline, new_line_found
<1>. QED BY <1>1, <1>2

(* The packet of a client is what is extracted of its data, and ends with  *)
(* a newline.                                                              *)
LEMMA PacketExtracted ==
    ASSUME NEW c \in Client
    PROVE  /\ extract_data_up_to_newline(Stream[c]) = Packet(c)
           /\ Packet(c) \in Word /\ Len(Packet(c)) \in Nat \ {0}
           /\ Packet(c)[Len(Packet(c))] = NL
<1>. DEFINE s == Stream[c]
<1>1. s \in Word /\ NewlineAt(s) # {} /\ NewlineAt(s) \subseteq Nat
  <2>1. s \in Word /\ \E i \in 1..Len(s) : s[i] = NL
    BY StreamTyped
  <2>2. NewlineAt(s) # {}
    BY <2>1 DEF NewlineAt
  <2>3. NewlineAt(s) \subseteq Nat
    BY DEF NewlineAt
  <2>. QED BY <2>1, <2>2, <2>3
<1>. HIDE DEF s
<1>2. Min(NewlineAt(s)) \in NewlineAt(s)
  BY <1>1, MinValue
<1>3. Min(NewlineAt(s)) \in 1..Len(s) /\ s[Min(NewlineAt(s))] = NL /\ Len(s) \in Nat
  BY <1>1, <1>2 DEF NewlineAt, Word
<1>. DEFINE m == Min(NewlineAt(s))
<1>4. m \in 1..Len(s) /\ s[m] = NL /\ Len(s) \in Nat
  BY <1>3
<1>5. Packet(c) = SubSeq(s, 1, m) /\ extract_data_up_to_newline(s) = SubSeq(s, 1, m)
  BY <1>1 DEF Packet, extract_data_up_to_newline, new_line_found, s
<1>. HIDE DEF m
<1>6. SubSeq(s, 1, m) \in Word /\ Len(SubSeq(s, 1, m)) = m /\ SubSeq(s, 1, m)[m] = s[m]
  BY <1>1, <1>4 DEF Word
<1>. QED BY <1>4, <1>5, <1>6 DEF s

(* What a step does to the texts: a thread receives some of what a client  *)
(* has sent, or reads it by mistake through a descriptor that was closed   *)
(* and opened again; a client hangs up; the text of a thread is stored.    *)
Receives(c) ==
    \E o \in Client : \E k \in 1..Len(sent[o]) :
        /\ o \notin Split => k = Available(o)
        /\ self'[c].newString = extract_data_up_to_newline(SubSeq(sent[o], 1, k))
        /\ sent' = [sent EXCEPT ![o] = SubSeq(@, k + 1, Len(@))]
ReadsSocket == \E o \in Client : sent' = [sent EXCEPT ![o] = SubSeq(@, BUFFER_SIZE + 1, Len(@))]
CutsShort ==
    \E o \in Impatient : \E k \in 0..Len(sent[o]) : sent' = [sent EXCEPT ![o] = SubSeq(@, 1, k)]
Stores ==
    \E c \in Client : \E k \in Pieces(self[c].newString) :
        pc[c] = "write" /\ Device!Accept(Piece(self[c].newString, k), k)

StringKept(c) ==
    Working(c)' => \/ self'[c].newString = <<>>
                   \/ Working(c) /\ self'[c].newString = self[c].newString
                   \/ /\ Working(c)
                      /\ \E k \in Pieces(self[c].newString) :
                            self'[c].newString = Rest(self[c].newString, k)
StringStep(c) == StringKept(c) \/ Receives(c)

TextStep ==
    /\ UNCHANGED <<lines, partial>> \/ Stores
    /\ UNCHANGED sent \/ (\E c \in Client : Receives(c)) \/ ReadsSocket \/ CutsShort
    /\ DOMAIN self' = Client
    /\ \A c \in Client : LocalsHeld(c)' /\ StringStep(c)

(* A step of thread c does not touch the locals of another. *)
Alone(c) ==
    /\ DOMAIN self' = Client
    /\ \A d \in Client \ {c} : self'[d] = self[d] /\ pc'[d] = pc[d]

LEMMA AloneLocals ==
    ASSUME Texts, NEW c \in Client, Alone(c), LocalsHeld(c)', StringStep(c)
    PROVE  DOMAIN self' = Client /\ \A d \in Client : LocalsHeld(d)' /\ StringStep(d)
<1>1. ASSUME NEW d \in Client, d # c
      PROVE  LocalsHeld(d)' /\ StringStep(d)
  <2>1. self'[d] = self[d] /\ pc'[d] = pc[d] /\ LocalsHeld(d)
    BY <1>1 DEF Alone, Texts
  <2>. QED BY <2>1 DEF LocalsHeld, StringStep, StringKept, Working
<1>. QED BY <1>1 DEF Alone

(* The steps of a thread that neither receive nor store. *)
LEMMA HandlerLocals ==
    ASSUME ServerInv, Texts, NEW c \in Client, Handler(c), ~Received(c)
    PROVE  Alone(c) /\ LocalsHeld(c)' /\ StringKept(c)
<1>0. /\ pc \in [Client -> Steps] /\ DOMAIN self = Client /\ LocalsHeld(c)
      /\ fds \in [Fd -> Description] /\ client_socket \in [Client -> {0} \cup Fd]
      /\ <<>> \in Word
  BY DEF ServerInv, Accounts, StreamInv, DescriptorsTyped, ThreadsInformed, Texts, Word
<1>1. ASSUME NEW s, Goto(c, s), UNCHANGED self, Working(c), s # "receiving"
      PROVE  Alone(c) /\ LocalsHeld(c)' /\ StringKept(c)
  BY <1>0, <1>1 DEF Goto, Alone, LocalsHeld, StringKept, Working
<1>2. ASSUME NEW s, Goto(c, s), Working(c), s # "receiving",
             NEW x, \/ self' = [self EXCEPT ![c].contents = x]
                    \/ self' = [self EXCEPT ![c].pos = x]
      PROVE  Alone(c) /\ LocalsHeld(c)' /\ StringKept(c)
  <2>1. DOMAIN self[c] = LocalNames
    BY <1>0, <1>2 DEF LocalsHeld
  <2>2. /\ DOMAIN self' = Client /\ DOMAIN self'[c] = LocalNames
        /\ self'[c].newString = self[c].newString
        /\ \A d \in Client \ {c} : self'[d] = self[d]
    BY <1>0, <1>2, <2>1 DEF LocalNames
  <2>. QED BY <1>0, <1>2, <2>2 DEF Goto, Alone, LocalsHeld, StringKept, Working
<1>3. CASE Recv(c)
  <2>1. CASE Socket(c).kind = "sock"
    <3>1. /\ pc[c] = "recv" /\ Goto(c, "receiving")
          /\ self' = [self EXCEPT ![c].conn = Socket(c).owner]
      BY <1>3, <2>1, Zenon DEF Recv
    <3>2. DOMAIN self[c] = LocalNames /\ Working(c)
      BY <1>0, <3>1 DEF LocalsHeld, Working
    <3>3. client_socket[c] \in Fd
      BY <1>0, <3>2 DEF ServerInv, Accounts, ThreadsInformed, ThreadInfo, Working
    <3>4. Socket(c).owner \in Client
      BY <1>0, <2>1, <3>3 DEF Socket, Description, Free
    <3>5. /\ DOMAIN self' = Client /\ DOMAIN self'[c] = LocalNames
          /\ self'[c].newString = self[c].newString
          /\ self'[c].conn = Socket(c).owner
          /\ \A d \in Client \ {c} : self'[d] = self[d]
      BY <1>0, <3>1, <3>2 DEF LocalNames
    <3>. QED BY <1>0, <3>1, <3>2, <3>4, <3>5 DEF Goto, Alone, LocalsHeld, StringKept, Working
  <2>2. CASE Socket(c).kind # "sock"
    BY <1>1, <1>3, <2>2 DEF Recv, Working
  <2>. QED BY <2>1, <2>2
<1>4. CASE EndOfStream(c) \/ CloseRead(c) \/ Send(c)
  <2>1. UNCHANGED self /\ Working(c) /\ \E s : s # "receiving" /\ Goto(c, s)
    BY <1>4 DEF EndOfStream, CloseRead, Send, Working, locals
  <2>. QED BY <1>1, <2>1
<1>12. CASE Write(c)
  <2>. DEFINE t == self[c].newString
  <2>1. /\ pc[c] = "write" /\ \E s : s # "receiving" /\ Goto(c, s)
        /\ \/ \E k \in Pieces(t) : self' = [self EXCEPT ![c].newString = Rest(t, k)]
           \/ self' = [self EXCEPT ![c].newString = <<>>, ![c].failed = TRUE]
    <3>1. pc[c] = "write" /\ \E s : s # "receiving" /\ Goto(c, s)
      BY <1>12, WriteGoto DEF Write
    <3>2. \/ \E k \in Pieces(t) : self' = [self EXCEPT ![c].newString = Rest(t, k)]
          \/ self' = [self EXCEPT ![c].newString = <<>>, ![c].failed = TRUE]
      BY <1>12, Zenon DEF Write
    <3>. QED BY <3>1, <3>2
  <2>2. DOMAIN self[c] = LocalNames /\ Working(c) /\ t \in Word
    BY <1>0, <2>1 DEF LocalsHeld, Working
  <2>. HIDE DEF t
  <2>3. \A k \in Pieces(t) : Rest(t, k) \in Word
    BY <2>2, PieceAndRest
  <2>4. PICK u \in Word : /\ DOMAIN self' = Client /\ DOMAIN self'[c] = LocalNames
                          /\ self'[c].newString = u
                          /\ u = <<>> \/ \E k \in Pieces(t) : u = Rest(t, k)
                          /\ \A d \in Client \ {c} : self'[d] = self[d]
    BY <1>0, <2>1, <2>2, <2>3 DEF LocalNames
  <2>. QED BY <1>0, <2>1, <2>2, <2>4 DEF Goto, Alone, LocalsHeld, StringKept, Working, t
<1>5. CASE LockAppend(c)
  <2>1. pc[c] = "lock" /\ \E s : Goto(c, s) /\ s # "receiving"
    <3>1. pc[c] = "lock"
      BY <1>5, Zenon DEF LockAppend
    <3>2. \E s \in {"write", "unlock"} : Goto(c, s)
      BY <1>5, AppendGoto
    <3>. QED BY <3>1, <3>2
  <2>2. DOMAIN self[c] = LocalNames /\ Working(c)
    BY <1>0, <2>1 DEF LocalsHeld, Working
  <2>3. self' = [self EXCEPT ![c].found_ioctl_cmd = CommandFound(c),
                             ![c].args = AppendArgs(c), ![c].uncut = AppendUncut(c)]
    BY <1>5, AppendLocals, Zenon
  <2>4. /\ DOMAIN self' = Client /\ DOMAIN self'[c] = LocalNames
        /\ self'[c].newString = self[c].newString
        /\ \A d \in Client \ {c} : self'[d] = self[d]
    BY <1>0, <2>2, <2>3 DEF LocalNames
  <2>. QED BY <1>0, <2>1, <2>2, <2>4 DEF Goto, Alone, LocalsHeld, StringKept, Working
<1>6. CASE Unlock(c)
  <2>1. PICK s : /\ pc[c] = "unlock" /\ Goto(c, s) /\ s # "receiving"
                 /\ self' = [self EXCEPT ![c].newString = <<>>]
    BY <1>6 DEF Unlock, AfterPacket
  <2>2. DOMAIN self[c] = LocalNames /\ Working(c)
    BY <1>0, <2>1 DEF LocalsHeld, Working
  <2>3. /\ DOMAIN self' = Client /\ DOMAIN self'[c] = LocalNames
        /\ self'[c].newString = <<>>
        /\ \A d \in Client \ {c} : self'[d] = self[d]
    BY <1>0, <2>1, <2>2 DEF LocalNames
  <2>. QED BY <1>0, <2>1, <2>2, <2>3 DEF Goto, Alone, LocalsHeld, StringKept, Working
<1>7. CASE Flag(c)
  <2>1. Goto(c, "exit") /\ self' = [self EXCEPT ![c] = NULL]
    BY <1>7, Zenon DEF Flag
  <2>. QED BY <1>0, <2>1 DEF Goto, Alone, LocalsHeld, StringKept, Working
<1>8. CASE LockRead(c)
  <2>1. self' = [self EXCEPT ![c].pos = 0] /\ Working(c) /\ \E s : s # "receiving" /\ Goto(c, s)
    BY <1>8 DEF LockRead, Working
  <2>. QED BY <1>2, <2>1
<1>9. CASE Ioctl(c)
  <2>1. /\ Working(c) /\ Goto(c, "fread")
        /\ UNCHANGED self \/ \E x : self' = [self EXCEPT ![c].pos = x]
    BY <1>9 DEF Ioctl, Working
  <2>. QED BY <1>1, <1>2, <2>1
<1>10. CASE Fread(c)
  <2>1. /\ Working(c) /\ Goto(c, "closeread") /\ \E x : self' = [self EXCEPT ![c].contents = x]
    BY <1>10 DEF Fread, Working
  <2>. QED BY <1>2, <2>1
<1>11. CASE FreadFails(c) \/ Close(c)
  <2>1. /\ Working(c) /\ \E s, x : /\ Goto(c, s) /\ s # "receiving"
                                   /\ self' = [self EXCEPT ![c].contents = x]
    BY <1>11 DEF FreadFails, Close, Working
  <2>. QED BY <1>2, <2>1
<1>. QED BY <1>3, <1>4, <1>5, <1>6, <1>7, <1>8, <1>9, <1>10, <1>11, <1>12, Zenon DEF Handler

LEMMA ReceivedTexts ==
    ASSUME ServerInv, Texts, NEW c \in Client, Received(c)
    PROVE  TextStep
<1>. DEFINE o == self[c].conn
<1>0. /\ pc \in [Client -> Steps] /\ DOMAIN self = Client /\ LocalsHeld(c)
      /\ sent \in [Client -> Word]
  BY DEF ServerInv, Accounts, StreamInv, DescriptorsTyped, Texts
<1>1. /\ pc[c] = "receiving" /\ Goto(c, "lock") /\ sent[o] # <<>>
      /\ UNCHANGED <<lines, partial>>
  BY Zenon DEF Received, device
<1>20. PICK k \in IF o \in Split THEN 1..Available(o) ELSE {Available(o)} :
          /\ sent' = [sent EXCEPT ![o] = SubSeq(@, k + 1, Len(@))]
          /\ \E nl :
                self' = [self EXCEPT ![c].newString = extract_data_up_to_newline(SubSeq(sent[o], 1, k)),
                                     ![c].newline = nl]
  BY DEF Received
<1>2. PICK nl :
          /\ k \in IF o \in Split THEN 1..Available(o) ELSE {Available(o)}
          /\ sent' = [sent EXCEPT ![o] = SubSeq(@, k + 1, Len(@))]
          /\ self' = [self EXCEPT ![c].newString = extract_data_up_to_newline(SubSeq(sent[o], 1, k)),
                                  ![c].newline = nl]
  BY <1>20
<1>3. o \in Client /\ DOMAIN self[c] = LocalNames /\ Working(c)
  BY <1>0, <1>1 DEF LocalsHeld, Working
<1>. HIDE DEF o
<1>4. sent[o] \in Word /\ Len(sent[o]) \in Nat /\ Len(sent[o]) # 0
  BY <1>0, <1>1, <1>3 DEF Word
<1>5. k \in 1..Len(sent[o]) /\ (o \notin Split => k = Available(o))
  <2>. DEFINE S == {Len(sent[o]), BUFFER_SIZE}
  <2>0. S \in SUBSET Nat /\ S # {}
    BY <1>4
  <2>1. Min(S) \in S /\ \A y \in S : Min(S) <= y
    BY <2>0, MinValue
  <2>2. Available(o) \in 1..Len(sent[o])
    BY <1>4, <2>1 DEF Available
  <2>. QED BY <1>2, <1>4, <2>2
<1>6. extract_data_up_to_newline(SubSeq(sent[o], 1, k)) \in Word
  <2>1. SubSeq(sent[o], 1, k) \in Word
    BY <1>4, <1>5, CutOff
  <2>. QED BY <2>1, Extract
<1>7. /\ DOMAIN self' = Client /\ DOMAIN self'[c] = LocalNames
      /\ self'[c].newString = extract_data_up_to_newline(SubSeq(sent[o], 1, k))
      /\ \A d \in Client \ {c} : self'[d] = self[d]
  BY <1>0, <1>2, <1>3 DEF LocalNames
<1>8. Alone(c) /\ LocalsHeld(c)'
  BY <1>0, <1>1, <1>3, <1>6, <1>7 DEF Goto, Alone, LocalsHeld, Working
<1>9. Receives(c)
  BY <1>2, <1>3, <1>5, <1>7 DEF Receives
<1>10. DOMAIN self' = Client /\ \A d \in Client : LocalsHeld(d)' /\ StringStep(d)
  BY <1>8, <1>9, AloneLocals DEF StringStep
<1>. QED BY <1>1, <1>9, <1>10 DEF TextStep

LEMMA HandlerTexts ==
    ASSUME ServerInv, Texts, NEW c \in Client, Handler(c)
    PROVE  TextStep
<1>1. CASE Received(c)
  BY <1>1, ReceivedTexts
<1>2. CASE ~Received(c)
  <2>1. DOMAIN self' = Client /\ \A d \in Client : LocalsHeld(d)' /\ StringStep(d)
    BY <1>2, HandlerLocals, AloneLocals DEF StringStep
  <2>2. CASE Write(c)
    <3>1. UNCHANGED <<lines, partial>> \/ Stores
      BY <2>2, Zenon DEF Write, Stores
    <3>2. UNCHANGED sent
      BY <2>2, Zenon DEF Write
    <3>. QED BY <2>1, <3>1, <3>2 DEF TextStep
  <2>3. CASE Fread(c)
    <3>1. UNCHANGED <<lines, partial>>
      BY <2>3, Zenon DEF Fread, device
    <3>2. UNCHANGED sent \/ ReadsSocket
      <4>. DEFINE d == fds[file[c]]
      <4>1. \/ UNCHANGED sent
            \/ /\ d.kind = "sock"
               /\ sent' = [sent EXCEPT ![d.owner] = SubSeq(@, BUFFER_SIZE + 1, Len(@))]
        BY <2>3 DEF Fread
      <4>2. file[c] \in Fd
        BY <2>3 DEF Fread, ServerInv, StreamOpen, Accounts, StreamInv, DescriptorsTyped
      <4>3. d.kind = "sock" => d.owner \in Client
        BY <4>2 DEF ServerInv, Accounts, ThreadsInformed, Description, Free
      <4>. QED BY <4>1, <4>3 DEF ReadsSocket
    <3>. QED BY <2>1, <3>1, <3>2 DEF TextStep
  <2>4. CASE ~Write(c) /\ ~Fread(c)
    <3>1. UNCHANGED <<lines, partial>>
      BY <1>2, <2>4, Zenon
      DEF Handler, Recv, EndOfStream, LockAppend, Unlock, LockRead, Ioctl, FreadFails, CloseRead,
          Send, Close, Flag, device
    <3>2. UNCHANGED sent
      BY <1>2, <2>4, Zenon
      DEF Handler, Recv, EndOfStream, LockAppend, Unlock, LockRead, Ioctl, FreadFails, CloseRead,
          Send, Close, Flag, network
    <3>. QED BY <2>1, <3>1, <3>2 DEF TextStep
  <2>. QED BY <2>2, <2>3, <2>4
<1>. QED BY <1>1, <1>2

LEMMA MainTexts ==
    ASSUME ServerInv, Texts, Main
    PROVE  TextStep
<1>0. /\ pc \in [Client -> Steps] /\ DOMAIN self = Client /\ \A c \in Client : LocalsHeld(c)
  BY DEF ServerInv, Accounts, StreamInv, DescriptorsTyped, Texts
<1>1. UNCHANGED <<lines, partial, sent>>
  BY Zenon DEF Main, MainCreate, MainInsert, CleanupThreads, Reap, MainAccept, device, network
<1>2. CASE UNCHANGED <<pc, self>>
  <2>1. \A c \in Client : LocalsHeld(c)' /\ StringStep(c)
    BY <1>0, <1>2 DEF LocalsHeld, StringStep, StringKept, Working
  <2>. QED BY <1>0, <1>1, <1>2, <2>1 DEF TextStep
<1>3. CASE MainCreate /\ ~UNCHANGED <<pc, self>>
  <2>1. main = "create" /\ Goto(accepted, "recv") /\ self' = [self EXCEPT ![accepted] = NoLocals]
    BY <1>3, Zenon DEF MainCreate, threads, locals
  <2>2. PICK c \in Client : c = accepted
    BY <2>1 DEF ServerInv, ListKept
  <2>3. DOMAIN NoLocals = LocalNames /\ NoLocals.newString = <<>>
    BY DEF NoLocals, LocalNames
  <2>4. <<>> \in Word
    BY DEF Word
  <2>. HIDE DEF NoLocals
  <2>5. Alone(c) /\ LocalsHeld(c)' /\ StringStep(c)
    BY <1>0, <2>1, <2>2, <2>3, <2>4 DEF Goto, Alone, LocalsHeld, StringStep, StringKept, Working
  <2>. QED BY <1>1, <2>5, AloneLocals DEF TextStep
<1>4. CASE ~MainCreate
  BY <1>2, <1>4, Zenon DEF Main, MainInsert, CleanupThreads, Reap, MainAccept, threads, locals
<1>. QED BY <1>2, <1>3, <1>4

LEMMA EnvironmentTexts ==
    ASSUME ServerInv, Texts, Environment
    PROVE  TextStep
<1>0. DOMAIN self = Client /\ \A c \in Client : LocalsHeld(c)
  BY DEF Texts
<1>1. ASSUME UNCHANGED <<pc, self>>, UNCHANGED <<lines, partial>>, UNCHANGED sent \/ CutsShort
      PROVE  TextStep
  <2>1. \A c \in Client : LocalsHeld(c)' /\ StringStep(c)
    BY <1>0, <1>1 DEF LocalsHeld, StringStep, StringKept, Working
  <2>. QED BY <1>0, <1>1, <2>1 DEF TextStep
<1>2. ASSUME Ended, UNCHANGED <<lines, partial>> \/ Stores
      PROVE  TextStep
  <2>1. UNCHANGED sent /\ DOMAIN self' = Client /\ \A c \in Client : pc'[c] = "none"
    BY <1>2 DEF Ended
  <2>2. \A c \in Client : LocalsHeld(c)' /\ StringStep(c)
    BY <2>1 DEF LocalsHeld, StringStep, StringKept, Working
  <2>. QED BY <1>2, <2>1, <2>2 DEF TextStep
<1>3. CASE Start
  BY <1>1, <1>3, Zenon DEF Start, threads, locals, device, network
<1>4. CASE Terminate
  BY <1>2, <1>4, Zenon DEF Terminate, Stores
<1>5. CASE Crash
  BY <1>2, <1>5, Zenon DEF Crash, device
<1>6. ASSUME NEW c \in Client, Connect(c) \/ MainAcceptFails(c)
      PROVE  TextStep
  BY <1>1, <1>6, Zenon DEF Connect, MainAcceptFails, threads, locals, device
<1>7. ASSUME NEW c \in Client, HangUp(c)
      PROVE  TextStep
  BY <1>1, <1>7, Zenon DEF HangUp, CutsShort, threads, locals, device
<1>. QED BY <1>3, <1>4, <1>5, <1>6, <1>7, Zenon DEF Environment, LockFails, BrokenPipe

LEMMA TextSteps ==
    ASSUME ServerInv, Texts, Next
    PROVE  TextStep
BY MainTexts, EnvironmentTexts, HandlerTexts, Zenon DEF Next

LEMMA TextsInit == Init => Texts
<1>. SUFFICES ASSUME Init PROVE Texts
  OBVIOUS
<1>1. <<>> \in Word
  BY DEF Word
<1>2. \A c \in Client : LocalsHeld(c)
  BY DEF Init, LocalsHeld, Working
<1>3. lines = Stored /\ partial = <<>> /\ sent = Stream /\ DOMAIN self = Client
  BY DEF Init
<1>. QED BY <1>1, <1>2, <1>3, StreamTyped DEF Texts

LEMMA TextsNext ==
    ASSUME Texts, TextStep
    PROVE  Texts'
<1>1. lines' \in Seq(Word) /\ partial' \in Word
  <2>1. CASE UNCHANGED <<lines, partial>>
    BY <2>1 DEF Texts
  <2>2. CASE Stores
    <3>0. PICK c \in Client : pc[c] = "write" /\ \E k \in Pieces(self[c].newString) :
                                   Device!Accept(Piece(self[c].newString, k), k)
      BY <2>2, Zenon DEF Stores
    <3>1. PICK k \in Pieces(self[c].newString) : Device!Accept(Piece(self[c].newString, k), k)
      BY <3>0
    <3>. DEFINE w == Piece(self[c].newString, k)
                bytes == partial \o SubSeq(w, 1, Len(w))
    <3>2. w \in Word /\ Len(w) = k
      <4>1. self[c].newString \in Word
        BY <3>0 DEF Texts, LocalsHeld, Working
      <4>. QED BY <3>1, <4>1, PieceAndRest
    <3>. HIDE DEF w
    <3>3. SubSeq(w, 1, Len(w)) \in Word /\ <<>> \in Word
      BY <3>2 DEF Word
    <3>4. bytes \in Word
      BY <3>3 DEF Texts, Word
    <3>5. \/ lines' = lines /\ partial' = bytes
          \/ lines' = Append(lines, bytes) /\ partial' = <<>>
          \/ ~(Len(lines) < Capacity) /\ lines' = Append(Tail(lines), bytes) /\ partial' = <<>>
      BY <3>1, <3>2 DEF Device!Accept, w
    <3>. HIDE DEF bytes
    <3>6. lines \in Seq(Word) /\ Len(lines) \in Nat
      BY DEF Texts
    <3>7. ~(Len(lines) < Capacity) => Tail(lines) \in Seq(Word)
      BY <3>6
    <3>8. ASSUME NEW t \in Seq(Word)
          PROVE  Append(t, bytes) \in Seq(Word)
      BY <3>4, AppendProperties
    <3>. QED BY <3>3, <3>4, <3>5, <3>6, <3>7, <3>8
  <2>. QED BY <2>1, <2>2 DEF TextStep
<1>2. ASSUME NEW o \in Client, NEW i \in Nat \ {0}, NEW j \in 0..Len(sent[o]),
             sent' = [sent EXCEPT ![o] = SubSeq(@, i, j)]
      PROVE  sent' \in [Client -> Word] /\ \A c \in Client : ToSet(sent'[c]) \subseteq ToSet(Stream[c])
  <2>1. sent \in [Client -> Word] /\ \A c \in Client : ToSet(sent[c]) \subseteq ToSet(Stream[c])
    BY DEF Texts
  <2>. DEFINE t == SubSeq(sent[o], i, j)
  <2>2. t \in Word /\ ToSet(t) \subseteq ToSet(sent[o])
    BY <2>1, CutOff
  <2>. HIDE DEF t
  <2>3. sent' = [sent EXCEPT ![o] = t]
    BY <1>2 DEF t
  <2>. QED BY <2>1, <2>2, <2>3
<1>3. sent' \in [Client -> Word] /\ \A c \in Client : ToSet(sent'[c]) \subseteq ToSet(Stream[c])
  <2>0. \A o \in Client : Len(sent[o]) \in Nat
    BY DEF Texts, Word
  <2>1. CASE UNCHANGED sent
    BY <2>1 DEF Texts
  <2>2. CASE ReadsSocket
    <3>1. PICK o \in Client : sent' = [sent EXCEPT ![o] = SubSeq(@, BUFFER_SIZE + 1, Len(@))]
      BY <2>2 DEF ReadsSocket
    <3>2. BUFFER_SIZE + 1 \in Nat \ {0} /\ Len(sent[o]) \in 0..Len(sent[o])
      BY <2>0
    <3>3. sent' = [sent EXCEPT ![o] = SubSeq(@, BUFFER_SIZE + 1, Len(sent[o]))]
      BY <3>1
    <3>. QED BY <1>2, <3>2, <3>3
  <2>3. CASE CutsShort
    <3>1. PICK o \in Client : \E k \in 0..Len(sent[o]) : sent' = [sent EXCEPT ![o] = SubSeq(@, 1, k)]
      BY <2>3 DEF CutsShort
    <3>2. PICK k \in 0..Len(sent[o]) : sent' = [sent EXCEPT ![o] = SubSeq(@, 1, k)]
      BY <3>1
    <3>3. 1 \in Nat \ {0}
      OBVIOUS
    <3>. QED BY <1>2, <3>2, <3>3
  <2>4. CASE \E c \in Client : Receives(c)
    <3>0. PICK o \in Client :
              \E k \in 1..Len(sent[o]) : sent' = [sent EXCEPT ![o] = SubSeq(@, k + 1, Len(@))]
      BY <2>4 DEF Receives
    <3>1. PICK k \in 1..Len(sent[o]) : sent' = [sent EXCEPT ![o] = SubSeq(@, k + 1, Len(@))]
      BY <3>0
    <3>2. k + 1 \in Nat \ {0} /\ Len(sent[o]) \in 0..Len(sent[o])
      BY <2>0
    <3>3. sent' = [sent EXCEPT ![o] = SubSeq(@, k + 1, Len(sent[o]))]
      BY <3>1
    <3>. QED BY <1>2, <3>2, <3>3
  <2>. QED BY <2>1, <2>2, <2>3, <2>4 DEF TextStep
<1>. QED BY <1>1, <1>3 DEF Texts, TextStep
-----------------------------------------------------------------------------
(* Packets that arrive at once. *)

(* Text s has no character that only client w sends. *)
Clean(w, s) == ToSet(s) \cap Own(w) = {}

(* The clients whose data arrives at once, and whose packet the stream's   *)
(* buffer holds.                                                           *)
Prompt == {w \in Client \ (Split \cup Impatient) : Len(Packet(w)) <= BUFSIZ}

(* recvfrom takes all that w has sent, or nothing; a thread has its whole  *)
(* packet or nothing of it; and so have the lines.                         *)
WholeFor(w) ==
    /\ sent[w] \in {Stream[w], <<>>}
    /\ \A c \in Client : Working(c) =>
          Clean(w, self[c].newString) \/ self[c].newString = Packet(w)
    /\ Clean(w, partial)
    /\ \A i \in 1..Len(lines) : Clean(w, lines[i]) \/ IsSuffix(Packet(w), lines[i])

(* They send no more than recvfrom takes, and what the device holds at     *)
(* first is not theirs.                                                    *)
AtOnce ==
    \A w \in Prompt :
        /\ Len(Stream[w]) <= BUFFER_SIZE
        /\ \A i \in 1..Len(Stored) : Clean(w, Stored[i])

LEMMA ConcatWords ==
    ASSUME NEW s \in Word, NEW t \in Word
    PROVE  /\ s \o t \in Word
           /\ \A w \in Client : Clean(w, s) /\ Clean(w, t) => Clean(w, s \o t)
           /\ IsSuffix(t, s \o t)
<1>. DEFINE u == s \o t
            m == Len(s)
            n == Len(t)
<1>1. /\ s \in Seq(Letter) /\ t \in Seq(Letter) /\ u \in Seq(Letter)
      /\ m \in Nat /\ n \in Nat /\ Len(u) = m + n
      /\ \A i \in 1..(m + n) : u[i] = IF i <= m THEN s[i] ELSE t[i - m]
  BY ConcatProperties DEF Word
<1>. HIDE DEF u, m, n
<1>0. m \in Nat /\ n \in Nat
  BY <1>1
<1>2. ASSUME NEW w \in Client, Clean(w, s), Clean(w, t)
      PROVE  Clean(w, u)
  <2>1. ASSUME NEW x \in ToSet(u)
        PROVE  x \in ToSet(s) \/ x \in ToSet(t)
    <3>1. PICK i \in 1..(m + n) : u[i] = x
      BY <1>1, InSet
    <3>2. CASE i <= m
      <4>1. i \in 1..m /\ s[i] = x
        BY <1>1, <3>1, <3>2
      <4>. QED BY <1>1, <4>1, InSet DEF m
    <3>3. CASE ~(i <= m)
      <4>1. i - m \in 1..n /\ t[i - m] = x
        BY <1>1, <3>1, <3>3
      <4>. QED BY <1>1, <4>1, InSet DEF n
    <3>. QED BY <3>2, <3>3
  <2>. QED BY <1>2, <2>1 DEF Clean
<1>3. IsSuffix(t, u)
  <2>. DEFINE r == Reverse(t)
              v == Reverse(u)
  <2>1. /\ r \in Seq(Letter) /\ Len(r) = n
        /\ \A i \in 1..n : r[i] = t[(n - i) + 1]
    BY <1>1, LenProperties, SeqDef DEF Reverse, n
  <2>2. /\ v \in Seq(Letter) /\ Len(v) = m + n
        /\ \A i \in 1..(m + n) : v[i] = u[((m + n) - i) + 1]
    BY <1>1, LenProperties, SeqDef DEF Reverse
  <2>. HIDE DEF r, v
  <2>3. ASSUME NEW i \in 1..n
        PROVE  r[i] = v[i]
    <3>1. ((m + n) - i) + 1 \in 1..(m + n) /\ ~(((m + n) - i) + 1 <= m)
          /\ (((m + n) - i) + 1) - m = (n - i) + 1 /\ i \in 1..(m + n)
      BY <1>0
    <3>. QED BY <1>1, <2>1, <2>2, <3>1, SMTT(30)
  <2>4. SubSeq(r, 1, n) = SubSeq(v, 1, n)
    <3>1. /\ SubSeq(r, 1, n) \in Seq(Letter) /\ Len(SubSeq(r, 1, n)) = n
          /\ \A i \in 1..n : SubSeq(r, 1, n)[i] = r[i]
      BY <1>1, <2>1
    <3>2. /\ SubSeq(v, 1, n) \in Seq(Letter) /\ Len(SubSeq(v, 1, n)) = n
          /\ \A i \in 1..n : SubSeq(v, 1, n)[i] = v[i]
      BY <1>1, <2>2
    <3>. QED BY <2>3, <3>1, <3>2, SeqEqual
  <2>. QED BY <1>1, <2>1, <2>2, <2>4 DEF IsSuffix, IsPrefix, r, v
<1>. QED BY <1>1, <1>2, <1>3 DEF u, Word

(* What thread c receives is clean, or the packet of w. *)
LEMMA WholeReceived ==
    ASSUME AtOnce, Texts, NEW w \in Prompt, WholeFor(w),
           NEW c \in Client, Receives(c)
    PROVE  /\ Clean(w, self'[c].newString) \/ self'[c].newString = Packet(w)
           /\ sent'[w] \in {Stream[w], <<>>}
<1>0. PICK o \in Client :
          \E k \in 1..Len(sent[o]) :
              /\ o \notin Split => k = Available(o)
              /\ self'[c].newString = extract_data_up_to_newline(SubSeq(sent[o], 1, k))
              /\ sent' = [sent EXCEPT ![o] = SubSeq(@, k + 1, Len(@))]
  BY DEF Receives
<1>1. PICK k \in 1..Len(sent[o]) :
          /\ o \notin Split => k = Available(o)
          /\ self'[c].newString = extract_data_up_to_newline(SubSeq(sent[o], 1, k))
          /\ sent' = [sent EXCEPT ![o] = SubSeq(@, k + 1, Len(@))]
  BY <1>0
<1>2. /\ sent \in [Client -> Word] /\ sent[o] \in Word /\ Len(sent[o]) \in Nat
      /\ ToSet(sent[o]) \subseteq ToSet(Stream[o]) /\ k \in 0..Len(sent[o])
  BY DEF Texts, Word
<1>3. CASE o # w
  <2>1. /\ SubSeq(sent[o], 1, k) \in Word
        /\ ToSet(SubSeq(sent[o], 1, k)) \subseteq ToSet(sent[o])
    BY <1>2, CutOff
  <2>2. ToSet(self'[c].newString) \subseteq ToSet(Stream[o])
    BY <1>1, <1>2, <2>1, Extract
  <2>3. Clean(w, self'[c].newString)
    BY <1>3, <2>2 DEF Clean, Own
  <2>4. sent'[w] = sent[w]
    BY <1>1, <1>2, <1>3
  <2>. QED BY <2>3, <2>4 DEF WholeFor
<1>4. CASE o = w
  <2>1. sent[w] = Stream[w] /\ Stream[w] \in Seq(Letter) /\ Len(Stream[w]) \in Nat
    <3>1. Len(sent[w]) # 0
      BY <1>1, <1>2, <1>4
    <3>. QED BY <3>1, StreamTyped DEF WholeFor, Word, Prompt
  <2>2. k = Len(Stream[w])
    <3>4. o \notin Split
      BY <1>4 DEF Prompt
    <3>. DEFINE S == {Len(sent[w]), BUFFER_SIZE}
    <3>0. S \in SUBSET Nat /\ S # {}
      BY <2>1, SizeAssumption
    <3>1. Min(S) \in S /\ \A y \in S : Min(S) <= y
      BY <3>0, MinValue
    <3>2. Len(Stream[w]) <= BUFFER_SIZE /\ k = Min(S)
      BY <1>1, <1>4, <3>4 DEF AtOnce, Available
    <3>. HIDE DEF S
    <3>3. Len(Stream[w]) \in S /\ BUFFER_SIZE \in S /\ S = {Len(Stream[w]), BUFFER_SIZE}
      BY <2>1 DEF S
    <3>. QED BY <2>1, <3>1, <3>2, <3>3, SizeAssumption
  <2>. DEFINE s == Stream[w]
  <2>3. SubSeq(s, 1, Len(s)) = s /\ SubSeq(s, Len(s) + 1, Len(s)) = <<>>
    <3>1. s \in Seq(Letter) /\ Len(s) \in Nat
      BY <2>1
    <3>. HIDE DEF s
    <3>. QED BY <3>1
  <2>4. self'[c].newString = Packet(w)
    BY <1>1, <1>4, <2>1, <2>2, <2>3, PacketExtracted
  <2>5. sent'[w] = <<>>
    BY <1>1, <1>2, <1>4, <2>1, <2>2, <2>3
  <2>. QED BY <2>4, <2>5
<1>. QED BY <1>3, <1>4

(* What is stored is clean, or ends a line with the packet of w. *)
LEMMA WholeStored ==
    ASSUME Texts, NEW w \in Prompt, WholeFor(w), Stores
    PROVE  /\ Clean(w, partial')
           /\ \A i \in 1..Len(lines') : Clean(w, lines'[i]) \/ IsSuffix(Packet(w), lines'[i])
<1>0. PICK c \in Client : pc[c] = "write" /\ \E k \in Pieces(self[c].newString) :
                               Device!Accept(Piece(self[c].newString, k), k)
  BY Zenon DEF Stores
<1>12. PICK k \in Pieces(self[c].newString) : Device!Accept(Piece(self[c].newString, k), k)
  BY <1>0
<1>. DEFINE s == Piece(self[c].newString, k)
            t == SubSeq(s, 1, Len(s))
            bytes == partial \o t
<1>1. s \in Word /\ Len(s) = k /\ (Clean(w, s) \/ s = Packet(w))
  <2>. DEFINE text == self[c].newString
  <2>1. text \in Word /\ (Clean(w, text) \/ text = Packet(w))
    BY <1>0 DEF Texts, LocalsHeld, WholeFor, Working
  <2>. HIDE DEF text
  <2>2. k \in Pieces(text) /\ Len(Packet(w)) <= BUFSIZ
    BY DEF Prompt, text
  <2>3. /\ Piece(text, k) \in Word /\ Len(Piece(text, k)) = k
        /\ ToSet(Piece(text, k)) \subseteq ToSet(text)
        /\ text = Packet(w) => Piece(text, k) = text
    BY <2>1, <2>2, PieceAndRest
  <2>. QED BY <2>1, <2>3 DEF Clean, text
<1>2. Clean(w, partial) /\ partial \in Word /\ Device!Accept(s, Len(s))
  BY <1>1, <1>12 DEF Texts, WholeFor
<1>3. \/ /\ ~(s[Len(s)] = NL) /\ lines' = lines /\ partial' = bytes
      \/ lines' = Append(lines, bytes) /\ partial' = <<>>
      \/ ~(Len(lines) < Capacity) /\ lines' = Append(Tail(lines), bytes) /\ partial' = <<>>
  BY <1>2, Zenon DEF Device!Accept
<1>. HIDE DEF s
<1>4. t = s
  BY <1>1 DEF Word
<1>5. Clean(w, bytes) \/ (s = Packet(w) /\ IsSuffix(Packet(w), bytes))
  BY <1>1, <1>2, <1>4, ConcatWords DEF Prompt
<1>6. Clean(w, <<>>)
  BY DEF Clean, ToSet
<1>. HIDE DEF bytes, t
<1>7. CASE ~(s[Len(s)] = NL) /\ lines' = lines /\ partial' = bytes
  <2>1. s # Packet(w)
    BY <1>7, PacketExtracted DEF Prompt
  <2>. QED BY <1>5, <1>7, <2>1 DEF WholeFor
<1>. DEFINE From(l) == \A i \in 1..Len(l) : \E j \in 1..Len(lines) : l[i] = lines[j]
<1>8. CASE partial' = <<>> /\ \E l \in Seq(Word) : lines' = Append(l, bytes) /\ From(l)
  <2>0. PICK l \in Seq(Word) : lines' = Append(l, bytes) /\ From(l)
    BY <1>8
  <2>1. bytes \in Word
    BY <1>1, <1>2, <1>4, ConcatWords DEF bytes
  <2>2. /\ Len(lines') = Len(l) + 1 /\ Len(l) \in Nat /\ lines'[Len(l) + 1] = bytes
        /\ \A i \in 1..Len(l) : lines'[i] = l[i]
    BY <2>0, <2>1, AppendProperties
  <2>3. ASSUME NEW i \in 1..Len(lines')
        PROVE  Clean(w, lines'[i]) \/ IsSuffix(Packet(w), lines'[i])
    <3>1. CASE i = Len(l) + 1
      BY <1>5, <2>2, <3>1
    <3>2. CASE i # Len(l) + 1
      <4>1. i \in 1..Len(l)
        <5>. DEFINE n == Len(l)
        <5>1. n \in Nat /\ i \in 1..(n + 1) /\ i # n + 1
          <6>1. Len(lines') = n + 1 /\ n \in Nat
            BY <2>2
          <6>. QED BY <3>2, <6>1
        <5>. HIDE DEF n
        <5>2. i \in 1..n
          BY <5>1
        <5>. QED BY <5>2 DEF n
      <4>2. PICK j \in 1..Len(lines) : lines'[i] = lines[j]
        BY <2>0, <2>2, <4>1
      <4>. QED BY <4>2 DEF WholeFor
    <3>. QED BY <3>1, <3>2
  <2>. QED BY <1>6, <1>8, <2>3
<1>9. lines \in Seq(Word) /\ Len(lines) \in Nat
  BY DEF Texts
<1>10. CASE lines' = Append(lines, bytes) /\ partial' = <<>>
  <2>1. From(lines)
    OBVIOUS
  <2>. HIDE DEF From
  <2>. QED BY <1>8, <1>9, <1>10, <2>1, Zenon
<1>11. CASE ~(Len(lines) < Capacity) /\ lines' = Append(Tail(lines), bytes) /\ partial' = <<>>
  <2>1. /\ Tail(lines) \in Seq(Word) /\ Len(Tail(lines)) = Len(lines) - 1
        /\ \A i \in 1..Len(Tail(lines)) : Tail(lines)[i] = lines[i + 1]
    <3>1. lines # <<>>
      BY <1>9, <1>11
    <3>. QED BY <1>9, <3>1, HeadTailProperties
  <2>2. ASSUME NEW i \in 1..Len(Tail(lines))
        PROVE  \E j \in 1..Len(lines) : Tail(lines)[i] = lines[j]
    <3>1. i + 1 \in 1..Len(lines)
      BY <1>9, <2>1
    <3>. QED BY <2>1, <3>1
  <2>3. From(Tail(lines))
    BY <2>2
  <2>. HIDE DEF From
  <2>. QED BY <1>8, <1>11, <2>1, <2>3, Zenon
<1>. QED BY <1>3, <1>7, <1>10, <1>11

LEMMA WholeNext ==
    ASSUME AtOnce, Texts, NEW w \in Prompt, WholeFor(w), TextStep
    PROVE  WholeFor(w)'
<1>1. Clean(w, <<>>)
  BY DEF Clean, ToSet
<1>2. ASSUME NEW c \in Client, Working(c)'
      PROVE  Clean(w, self'[c].newString) \/ self'[c].newString = Packet(w)
  <2>1. CASE Receives(c)
    BY <2>1, WholeReceived
  <2>2. CASE \/ self'[c].newString = <<>>
             \/ Working(c) /\ self'[c].newString = self[c].newString
    BY <1>1, <2>2 DEF WholeFor
  <2>3. ASSUME Working(c), NEW k \in Pieces(self[c].newString),
               self'[c].newString = Rest(self[c].newString, k)
        PROVE  Clean(w, self'[c].newString) \/ self'[c].newString = Packet(w)
    <3>. DEFINE text == self[c].newString
    <3>1. text \in Word /\ (Clean(w, text) \/ text = Packet(w))
      BY <2>3 DEF Texts, LocalsHeld, WholeFor
    <3>. HIDE DEF text
    <3>2. k \in Pieces(text) /\ Len(Packet(w)) <= BUFSIZ
      BY DEF Prompt, text
    <3>3. /\ ToSet(Rest(text, k)) \subseteq ToSet(text)
          /\ text = Packet(w) => Rest(text, k) = <<>>
      BY <3>1, <3>2, PieceAndRest
    <3>. QED BY <1>1, <2>3, <3>1, <3>3 DEF Clean, text
  <2>. QED BY <1>2, <2>1, <2>2, <2>3 DEF TextStep, StringStep, StringKept
<1>3. sent'[w] \in {Stream[w], <<>>}
  <2>0. sent \in [Client -> Word] /\ sent[w] \in Seq(Letter) /\ Len(sent[w]) \in Nat
    BY DEF Texts, Word, Prompt
  <2>1. CASE UNCHANGED sent
    BY <2>1 DEF WholeFor
  <2>2. CASE \E c \in Client : Receives(c)
    BY <2>2, WholeReceived
  <2>5. w \in Client /\ w \notin Impatient
    BY DEF Prompt
  <2>3. CASE ReadsSocket
    <3>1. PICK o \in Client : sent' = [sent EXCEPT ![o] = SubSeq(@, BUFFER_SIZE + 1, Len(@))]
      BY <2>3 DEF ReadsSocket
    <3>2. CASE o = w
      <4>1. Len(sent[w]) <= BUFFER_SIZE
        <5>1. sent[w] = <<>> => Len(sent[w]) = 0
          OBVIOUS
        <5>. QED BY <2>0, <5>1 DEF WholeFor, AtOnce
      <4>2. SubSeq(sent[w], BUFFER_SIZE + 1, Len(sent[w])) = <<>>
        BY <2>0, <4>1, SubSeqEmpty
      <4>. QED BY <2>0, <3>1, <3>2, <4>2
    <3>3. CASE o # w
      BY <2>0, <3>1, <3>3 DEF WholeFor
    <3>. QED BY <3>2, <3>3
  <2>4. CASE CutsShort
    <3>1. PICK o \in Impatient : \E k : sent' = [sent EXCEPT ![o] = SubSeq(@, 1, k)]
      BY <2>4 DEF CutsShort
    <3>2. sent'[w] = sent[w]
      BY <2>0, <2>5, <3>1
    <3>. QED BY <3>2 DEF WholeFor
  <2>. QED BY <2>1, <2>2, <2>3, <2>4 DEF TextStep
<1>4. /\ Clean(w, partial')
      /\ \A i \in 1..Len(lines') : Clean(w, lines'[i]) \/ IsSuffix(Packet(w), lines'[i])
  <2>1. CASE UNCHANGED <<lines, partial>>
    BY <2>1 DEF WholeFor
  <2>2. CASE Stores
    BY <2>2, WholeStored
  <2>. QED BY <2>1, <2>2 DEF TextStep
<1>. QED BY <1>2, <1>3, <1>4 DEF WholeFor

LEMMA WholeInit ==
    ASSUME AtOnce, Init, NEW w \in Prompt
    PROVE  WholeFor(w)
<1>1. Clean(w, <<>>)
  BY DEF Clean, ToSet
<1>2. sent[w] = Stream[w] /\ lines = Stored /\ partial = <<>> /\ \A c \in Client : ~Working(c)
  BY DEF Init, Working
<1>. QED BY <1>1, <1>2 DEF WholeFor, AtOnce

WholeInv ==
    /\ ServerInv /\ Texts
    /\ \A w \in Prompt : WholeFor(w)

LEMMA TextStutters ==
    ASSUME UNCHANGED vars
    PROVE  /\ UNCHANGED <<lines, partial, wedged, fds, robbed, file, pc, self, sent>>
           /\ Texts => Texts'
           /\ \A w \in Client : WholeFor(w) => WholeFor(w)'
<1>1. UNCHANGED <<lines, partial, wedged, fds, robbed, file, pc, self, sent>>
  BY Zenon DEF vars, device, threads, locals, network
<1>. QED BY <1>1 DEF Texts, LocalsHeld, WholeFor, Working

(* For any number of clients: a packet that arrives at once and fits the   *)
(* stream's buffer is stored as the whole end of a line, whatever pieces   *)
(* of longer or later texts other threads store meanwhile, whichever       *)
(* thread receives it, and over failing writes, crashes and restarts.      *)
THEOREM PacketsWhole == ASSUME AtOnce PROVE Spec => []WholePacketsStayWhole
<1>1. Init => WholeInv
  BY ServerInit, TextsInit, WholeInit DEF WholeInv
<1>2. ASSUME WholeInv, [Next]_vars
      PROVE  WholeInv'
  <2>1. ServerInv'
    BY <1>2, ServerNext DEF WholeInv
  <2>2. CASE Next
    <3>1. TextStep
      BY <1>2, <2>2, TextSteps DEF WholeInv
    <3>. QED BY <1>2, <2>1, <3>1, TextsNext, WholeNext DEF WholeInv
  <2>3. CASE UNCHANGED vars
    <3>1. \A w \in Prompt : w \in Client
      BY DEF Prompt
    <3>. QED BY <1>2, <2>1, <2>3, <3>1, TextStutters DEF WholeInv
  <2>. QED BY <1>2, <2>2, <2>3
<1>3. WholeInv => WholePacketsStayWhole
  BY DEF WholeInv, WholeFor, Clean, WholePacketsStayWhole, Prompt
<1>. QED BY <1>1, <1>2, <1>3, PTL DEF Spec
-----------------------------------------------------------------------------
(* The part of a text that only one client sends. *)
LEMMA OwnConcat ==
    ASSUME NEW c, NEW s \in Word, NEW t \in Word
    PROVE  /\ OwnPart(c, s \o t) = OwnPart(c, s) \o OwnPart(c, t)
           /\ OwnPart(c, s) \in Word /\ s \o t \in Word
<1>1. Only(s \o t, Own(c)) = Only(s, Own(c)) \o Only(t, Own(c))
  BY OnlyConcat DEF Word
<1>2. Only(s, Own(c)) \in Word
  BY OnlyTyped DEF Word
<1>3. s \o t \in Word
  BY DEF Word
<1>. QED BY <1>1, <1>2, <1>3 DEF OwnPart

LEMMA CleanAvoids ==
    ASSUME NEW c, NEW s \in Word
    PROVE  Clean(c, s) <=> Avoids(s, Own(c))
<1>1. s \in Seq(Letter)
  BY DEF Word
<1>2. \A i \in 1..Len(s) : s[i] \in ToSet(s)
  BY <1>1, InSet
<1>3. \A x \in ToSet(s) : \E i \in 1..Len(s) : s[i] = x
  BY <1>1, InSet
<1>. QED BY <1>2, <1>3 DEF Clean, Avoids

LEMMA CleanPart ==
    ASSUME NEW c, NEW s \in Word, Clean(c, s)
    PROVE  OwnPart(c, s) = <<>>
<1>1. Avoids(s, Own(c)) /\ s \in Seq(Letter)
  BY CleanAvoids DEF Word
<1>. QED BY <1>1, OnlyAvoids DEF OwnPart

LEMMA EmptyPart ==
    ASSUME NEW c
    PROVE  OwnPart(c, <<>>) = <<>> /\ <<>> \in Word
<1>1. <<>> \in Word
  BY DEF Word
<1>. QED BY <1>1, OnlyEmpty DEF OwnPart

LEMMA RobbedStays ==
    ASSUME NEW c \in Client, Handler(c) \/ Main
    PROVE  robbed' = {} => robbed = {}
<1>1. \A f, d : close(f, d) => robbed \subseteq robbed'
  BY DEF close
<1>2. ASSUME NEW d \in Client, Handler(d)
      PROVE  robbed \subseteq robbed'
  <2>1. CASE UNCHANGED robbed
    BY <2>1
  <2>2. CASE \E f : close(f, d)
    BY <1>1, <2>2
  <2>. QED BY <1>2, <2>1, <2>2, Zenon
       DEF Handler, Recv, Received, EndOfStream, LockAppend, Write, Unlock, LockRead, Ioctl, Fread,
           FreadFails, CloseRead, Send, Close, Flag
<1>3. CASE Main
  BY <1>1, <1>3, Zenon DEF Main, MainCreate, MainInsert, CleanupThreads, Reap, MainAccept
<1>. QED BY <1>2, <1>3

(* The pieces of a text have no other characters. *)
LEMMA CleanPieces ==
    ASSUME NEW c, NEW s \in Word, Clean(c, s), NEW k \in Pieces(s)
    PROVE  /\ Piece(s, k) \in Word /\ Len(Piece(s, k)) = k /\ Clean(c, Piece(s, k))
           /\ Rest(s, k) \in Word /\ Clean(c, Rest(s, k))
BY PieceAndRest DEF Clean

(* A text is its piece and the rest.                                       *)
LEMMA PieceJoined ==
    ASSUME NEW s \in Word, NEW k \in Pieces(s)
    PROVE  s = Piece(s, k) \o Rest(s, k)
<1>1. s \in Seq(Letter) /\ Len(s) \in Nat /\ k \in 0..Len(s)
  BY PieceAndRest DEF Word
<1>2. SubSeq(s, 1, Len(s)) = SubSeq(s, 1, k) \o SubSeq(s, k + 1, Len(s))
  <2>. DEFINE n == Len(s)
  <2>1. n \in 0..Len(s) /\ k \in 0..n
    BY <1>1
  <2>. HIDE DEF n
  <2>2. SubSeq(s, 1, n) = SubSeq(s, 1, k) \o SubSeq(s, k + 1, n)
    BY <1>1, <2>1, PiecesJoin
  <2>. QED BY <2>2 DEF n
<1>3. SubSeq(s, 1, Len(s)) = s
  BY <1>1
<1>. QED BY <1>2, <1>3, Zenon DEF Piece, Rest

(* All that is on the device. *)
OnDevice == Contents \o partial

LEMMA DeviceTyped ==
    ASSUME Texts
    PROVE  Contents \in Word /\ OnDevice \in Word
<1>1. lines \in Seq(Seq(Letter)) /\ partial \in Word
  BY DEF Texts, Word
<1>2. Contents \in Word
  BY <1>1, FlattenTyped DEF Contents, Word
<1>3. Contents \o partial \in Word
  BY <1>1, <1>2 DEF Word
<1>. QED BY <1>2, <1>3 DEF OnDevice

(* A write appends to what is on the device; a line it completes may       *)
(* displace what was there first.                                          *)
LEMMA DeviceAccepts ==
    ASSUME Texts, NEW s \in Word, Device!Accept(s, Len(s))
    PROVE  \/ /\ s[Len(s)] # NL
              /\ Contents' = Contents /\ partial' = partial \o s
           \/ /\ partial' = <<>>
              /\ \E x \in Word : Contents \o (partial \o s) = x \o Contents'
<1>. DEFINE t == SubSeq(s, 1, Len(s))
            b == partial \o t
<1>1. \/ s[Len(s)] # NL /\ lines' = lines /\ partial' = b
      \/ lines' = Append(lines, b) /\ partial' = <<>>
      \/ ~(Len(lines) < Capacity) /\ lines' = Append(Tail(lines), b) /\ partial' = <<>>
  BY DEF Device!Accept
<1>2. t = s
  BY DEF Word
<1>. HIDE DEF t
<1>3. lines \in Seq(Seq(Letter)) /\ partial \in Word /\ Len(lines) \in Nat
  BY DEF Texts, Word
<1>4. b \in Seq(Letter) /\ b = partial \o s
  BY <1>2, <1>3 DEF Word
<1>. HIDE DEF b
<1>5. Contents \in Word /\ <<>> \in Word
  BY DeviceTyped, EmptyPart
<1>6. CASE s[Len(s)] # NL /\ lines' = lines /\ partial' = b
  BY <1>4, <1>6 DEF Contents
<1>7. CASE lines' = Append(lines, b) /\ partial' = <<>>
  <2>1. Contents' = Contents \o b
    BY <1>3, <1>4, <1>7, FlattenAppend DEF Contents
  <2>2. Contents \o b \in Seq(Letter)
    BY <1>4, <1>5, ConcatProperties DEF Word
  <2>3. Contents \o b = <<>> \o Contents'
    BY <2>1, <2>2, ConcatEmptySeq
  <2>. QED BY <1>4, <1>5, <1>7, <2>3
<1>8. CASE ~(Len(lines) < Capacity) /\ lines' = Append(Tail(lines), b) /\ partial' = <<>>
  <2>1. lines # <<>>
    BY <1>3, <1>8
  <2>2. Head(lines) \in Seq(Letter) /\ Tail(lines) \in Seq(Seq(Letter))
    BY <1>3, <2>1
  <2>. DEFINE h == Head(lines)
              l == FlattenSeq(Tail(lines))
  <2>3. Contents = h \o l /\ l \in Seq(Letter)
    BY <1>3, <2>1, <2>2, FlattenHead, FlattenTyped DEF Contents
  <2>4. Contents' = l \o b
    BY <1>4, <1>8, <2>2, FlattenAppend DEF Contents
  <2>. HIDE DEF h, l
  <2>5. (h \o l) \o b = h \o (l \o b)
    <3>1. h \in Seq(Letter) /\ l \in Seq(Letter) /\ b \in Seq(Letter)
      BY <1>4, <2>2, <2>3 DEF h
    <3>2. Cat(Cat(h, l), b) = Cat(h, Cat(l, b))
      BY <3>1, CatAssociative
    <3>. QED BY <3>2 DEF Cat
  <2>6. h \in Word
    BY <2>2 DEF h, Word
  <2>7. Contents \o b = h \o Contents'
    BY <2>3, <2>4, <2>5, Zenon
  <2>. QED BY <1>4, <1>8, <2>6, <2>7
<1>. QED BY <1>1, <1>6, <1>7, <1>8

LEMMA DeviceGrows ==
    ASSUME Texts, NEW s \in Word, Device!Accept(s, Len(s))
    PROVE  \E x \in Word : OnDevice \o s = x \o OnDevice'
<1>1. /\ Contents \in Word /\ partial \in Word /\ <<>> \in Word
      /\ Contents \in Seq(Letter) /\ partial \in Seq(Letter) /\ s \in Seq(Letter)
  BY DeviceTyped, EmptyPart DEF Texts, Word
<1>2. OnDevice \o s = Contents \o (partial \o s)
  <2>1. Cat(Cat(Contents, partial), s) = Cat(Contents, Cat(partial, s))
    BY <1>1, CatAssociative
  <2>. QED BY <2>1 DEF Cat, OnDevice
<1>3. CASE Contents' = Contents /\ partial' = partial \o s
  <2>1. OnDevice' = OnDevice \o s
    BY <1>2, <1>3, Zenon DEF OnDevice
  <2>2. OnDevice \o s \in Seq(Letter)
    BY <1>1, DeviceTyped, ConcatProperties DEF Word
  <2>3. OnDevice \o s = <<>> \o OnDevice'
    BY <2>1, <2>2, ConcatEmptySeq
  <2>. QED BY <1>1, <2>3
<1>4. ASSUME partial' = <<>>, NEW x \in Word, Contents \o (partial \o s) = x \o Contents'
      PROVE  OnDevice \o s = x \o OnDevice'
  <2>1. Contents' \in Seq(Letter)
    <3>1. lines' \in Seq(Seq(Letter))
      <4>. DEFINE b == partial \o SubSeq(s, 1, Len(s))
      <4>1. b \in Seq(Letter) /\ lines \in Seq(Seq(Letter)) /\ Len(lines) \in Nat
        BY <1>1 DEF Texts, Word
      <4>2. \/ lines' = lines
            \/ lines' = Append(lines, b)
            \/ ~(Len(lines) < Capacity) /\ lines' = Append(Tail(lines), b)
        BY DEF Device!Accept
      <4>. HIDE DEF b
      <4>3. ~(Len(lines) < Capacity) => Tail(lines) \in Seq(Seq(Letter))
        BY <4>1
      <4>4. \A l \in Seq(Seq(Letter)) : Append(l, b) \in Seq(Seq(Letter))
        BY <4>1, AppendProperties
      <4>. QED BY <4>1, <4>2, <4>3, <4>4
    <3>. QED BY <3>1, FlattenTyped DEF Contents
  <2>2. Contents' \o <<>> = Contents'
    BY <2>1, ConcatEmptySeq
  <2>3. OnDevice' = Contents'
    BY <1>4, <2>2, Zenon DEF OnDevice
  <2>. QED BY <1>2, <1>4, <2>3, Zenon
<1>. QED BY <1>3, <1>4, DeviceAccepts

(* What a step means to client c, as long as no other thread receives from *)
(* it: its thread receives some data, or is about to write what it has     *)
(* received, or has written or dropped it.                                 *)
InHand(c) == IF pc[c] \in {"lock", "write"} THEN self[c].newString ELSE <<>>

Unserved(c) == client[c] \in {"new", "waiting"} \/ (main = "create" /\ accepted = c)
MayReceive(c) ==
    \/ Unserved(c)
    \/ pc[c] \in {"recv", "receiving"}
    \/ pc[c] \in {"lock", "write", "unlock"} /\ ~self[c].newline

(* No other thread has a character that only c sends. *)
OthersFreeOf(c) == \A d \in Client \ {c} : Working(d) => Clean(c, self[d].newString)

Takes(c) ==
    \E o \in Client : \E k \in 1..Len(sent[o]) :
        LET buf == SubSeq(sent[o], 1, k)
        IN  /\ pc[c] = "receiving" /\ pc'[c] = "lock" /\ o = self[c].conn
            /\ sent' = [sent EXCEPT ![o] = SubSeq(@, k + 1, Len(@))]
            /\ self'[c].newString = extract_data_up_to_newline(buf)
            /\ self'[c].newline = new_line_found(buf)
            /\ self'[c].found_ioctl_cmd = self[c].found_ioctl_cmd
            /\ self'[c].failed = self[c].failed
            /\ self'[c].args = self[c].args /\ self'[c].uncut = self[c].uncut
            /\ UNCHANGED <<lines, partial, robbed, client, main, accepted>>

(* What thread c does to the device is its own writing, and others do not  *)
(* write what is of c.                                                     *)
NotMine(c) ==
    \/ UNCHANGED <<lines, partial>>
    \/ \E s \in Word : Clean(c, s) /\ Device!Accept(s, Len(s))

(* What is yet to be written is gone only with the thread, after a seek    *)
(* command, a write that failed or a close by another thread.              *)
Lost(c) == Working(c)' => self'[c].found_ioctl_cmd \/ self'[c].failed \/ robbed # {}

Puts(c) ==
    \E k \in Pieces(self[c].newString) :
        /\ pc[c] = "write"
        /\ Device!Accept(Piece(self[c].newString, k), k)
        /\ \/ InHand(c)' = Rest(self[c].newString, k)
           \/ InHand(c)' = <<>> /\ ~Working(c)'

Drops(c) == InHand(c)' = <<>> /\ NotMine(c) /\ Lost(c)

(* The thread goes on, or starts. *)
GoesOn(c) ==
    \/ /\ Working(c)
       /\ self'[c].newline = self[c].newline
       /\ self[c].found_ioctl_cmd => self'[c].found_ioctl_cmd
       /\ self[c].failed => self'[c].failed
       /\ pc'[c] = "receiving" =>
             self'[c].conn = c \/ (pc[c] = "receiving" /\ self'[c].conn = self[c].conn)
    \/ Unserved(c) /\ pc[c] = "none" /\ pc'[c] = "recv" /\ ~self'[c].newline

TakesNothing(c) ==
    /\ \E n \in 0..Len(sent[c]) : sent'[c] = SubSeq(sent[c], 1, n)
    /\ Unserved(c)' => Unserved(c)
    /\ MayReceive(c)' => MayReceive(c)
    /\ (InHand(c)' = InHand(c) /\ NotMine(c)) \/ Puts(c) \/ Drops(c)
    /\ Working(c)' /\ robbed' = {} => robbed = {} /\ GoesOn(c)

(* A step that thread c has no part in. *)
Rests(c) ==
    /\ pc'[c] = pc[c] /\ self'[c] = self[c]
    /\ NotMine(c)
    /\ robbed' = {} => robbed = {}

Begins(c) == pc'[c] = "recv" /\ ~self'[c].newline /\ ~self'[c].uncut

LEMMA SentAsIs ==
    ASSUME Texts, NEW c \in Client, sent'[c] = sent[c]
    PROVE  \E n \in 0..Len(sent[c]) : sent'[c] = SubSeq(sent[c], 1, n)
<1>1. sent[c] \in Seq(Letter) /\ Len(sent[c]) \in 0..Len(sent[c])
  BY DEF Texts, Word
<1>. QED BY <1>1

LEMMA SelfKept ==
    ASSUME NEW c \in Client, pc'[c] = pc[c], self'[c] = self[c],
           Unserved(c)' => Unserved(c), NotMine(c),
           robbed' = {} => robbed = {},
           \E n \in 0..Len(sent[c]) : sent'[c] = SubSeq(sent[c], 1, n)
    PROVE  TakesNothing(c)
<1>1. InHand(c)' = InHand(c)
  BY DEF InHand
<1>2. MayReceive(c)' => MayReceive(c)
  BY DEF MayReceive
<1>3. Working(c)' => GoesOn(c)
  BY DEF GoesOn, Working
<1>. QED BY <1>1, <1>2, <1>3 DEF TakesNothing


LEMMA Receipt ==
    ASSUME ServerInv, Texts, NEW c \in Client, Received(c)
    PROVE  /\ Alone(c) /\ Takes(c) /\ self[c].conn \in Client
           /\ self[c].conn # c => self[c].conn \in crossed'
           /\ \A d \in Client \ {self[c].conn} : sent'[d] = sent[d]
<1>. DEFINE o == self[c].conn
<1>0. /\ pc \in [Client -> Steps] /\ DOMAIN self = Client /\ LocalsHeld(c)
      /\ sent \in [Client -> Word]
  BY DEF ServerInv, Accounts, StreamInv, DescriptorsTyped, Texts
<1>1. /\ pc[c] = "receiving" /\ Goto(c, "lock") /\ sent[o] # <<>>
      /\ UNCHANGED <<lines, partial, robbed, client, main, accepted>>
      /\ crossed' = IF o = c THEN crossed ELSE crossed \cup {o}
  BY Zenon DEF Received, device, mainVars
<1>20. PICK k \in IF o \in Split THEN 1..Available(o) ELSE {Available(o)} :
          /\ sent' = [sent EXCEPT ![o] = SubSeq(@, k + 1, Len(@))]
          /\ self' = [self EXCEPT ![c].newString = extract_data_up_to_newline(SubSeq(sent[o], 1, k)),
                                  ![c].newline = new_line_found(SubSeq(sent[o], 1, k))]
  BY DEF Received
<1>2. /\ k \in IF o \in Split THEN 1..Available(o) ELSE {Available(o)}
      /\ sent' = [sent EXCEPT ![o] = SubSeq(@, k + 1, Len(@))]
      /\ self' = [self EXCEPT ![c].newString = extract_data_up_to_newline(SubSeq(sent[o], 1, k)),
                              ![c].newline = new_line_found(SubSeq(sent[o], 1, k))]
  BY <1>20
<1>3. o \in Client /\ DOMAIN self[c] = LocalNames
  BY <1>0, <1>1 DEF LocalsHeld, Working
<1>. HIDE DEF o
<1>4. sent[o] \in Word /\ Len(sent[o]) \in Nat /\ Len(sent[o]) # 0
  BY <1>0, <1>1, <1>3 DEF Word
<1>5. k \in 1..Len(sent[o])
  <2>. DEFINE S == {Len(sent[o]), BUFFER_SIZE}
  <2>0. S \in SUBSET Nat /\ S # {}
    BY <1>4
  <2>1. Min(S) \in S /\ \A y \in S : Min(S) <= y
    BY <2>0, MinValue
  <2>2. Available(o) \in 1..Len(sent[o])
    BY <1>4, <2>1 DEF Available
  <2>. QED BY <1>2, <1>4, <2>2
<1>6. /\ DOMAIN self' = Client
      /\ self'[c].newString = extract_data_up_to_newline(SubSeq(sent[o], 1, k))
      /\ self'[c].newline = new_line_found(SubSeq(sent[o], 1, k))
      /\ self'[c].found_ioctl_cmd = self[c].found_ioctl_cmd
      /\ self'[c].failed = self[c].failed
      /\ self'[c].args = self[c].args /\ self'[c].uncut = self[c].uncut
      /\ \A d \in Client \ {c} : self'[d] = self[d]
  BY <1>0, <1>2, <1>3 DEF LocalNames
<1>7. pc'[c] = "lock" /\ \A d \in Client \ {c} : pc'[d] = pc[d]
  BY <1>0, <1>1 DEF Goto
<1>8. Takes(c)
  BY <1>1, <1>2, <1>3, <1>5, <1>6, <1>7, Zenon DEF Takes, o
<1>9. Alone(c)
  BY <1>6, <1>7 DEF Alone
<1>10. \A d \in Client \ {o} : sent'[d] = sent[d]
  BY <1>0, <1>2
<1>. QED BY <1>1, <1>3, <1>8, <1>9, <1>10 DEF o

(* The steps of a thread other than c's. *)
LEMMA OthersSteps ==
    ASSUME ServerInv, Texts, NEW c \in Client, c \notin crossed', OthersFreeOf(c),
           NEW d \in Client \ {c}, Handler(d)
    PROVE  TakesNothing(c) /\ Rests(c)
<1>1. pc'[c] = pc[c] /\ self'[c] = self[c]
  BY Receipt, HandlerLocals DEF Alone
<1>2. UNCHANGED <<client, main, accepted>>
  BY Zenon DEF Handler, Recv, Received, EndOfStream, LockAppend, Write, Unlock, LockRead, Ioctl, Fread,
     FreadFails, CloseRead, Send, Close, Flag, mainVars, network
<1>3. Unserved(c)' => Unserved(c)
  BY <1>2 DEF Unserved
<1>4. robbed' = {} => robbed = {}
  BY RobbedStays
<1>5. NotMine(c)
  <2>1. CASE Write(d)
    <3>1. /\ pc[d] = "write"
          /\ \/ UNCHANGED <<lines, partial>>
             \/ \E k \in Pieces(self[d].newString) : Device!Accept(Piece(self[d].newString, k), k)
      BY <2>1, Zenon DEF Write
    <3>2. self[d].newString \in Word /\ Clean(c, self[d].newString)
      BY <3>1 DEF Texts, LocalsHeld, Working, OthersFreeOf
    <3>3. CASE UNCHANGED <<lines, partial>>
      BY <3>3 DEF NotMine
    <3>4. ASSUME NEW k \in Pieces(self[d].newString), Device!Accept(Piece(self[d].newString, k), k)
          PROVE  NotMine(c)
      <4>1. /\ Piece(self[d].newString, k) \in Word /\ Len(Piece(self[d].newString, k)) = k
            /\ Clean(c, Piece(self[d].newString, k))
        BY <3>2, CleanPieces
      <4>2. Device!Accept(Piece(self[d].newString, k), Len(Piece(self[d].newString, k)))
        BY <3>4, <4>1, Zenon
      <4>. QED BY <4>1, <4>2, Zenon DEF NotMine
    <3>. QED BY <3>1, <3>3, <3>4, Zenon
  <2>2. CASE ~Write(d)
    <3>1. UNCHANGED <<lines, partial>>
      BY <2>2, ZenonT(40) DEF Handler, Recv, Received, EndOfStream, LockAppend, Unlock, LockRead, Ioctl, Fread,
         FreadFails, CloseRead, Send, Close, Flag, device
    <3>. QED BY <3>1 DEF NotMine
  <2>. QED BY <2>1, <2>2
<1>6. sent'[c] = sent[c]
  <2>1. CASE Received(d)
    <3>1. /\ self[d].conn # d => self[d].conn \in crossed'
          /\ \A x \in Client \ {self[d].conn} : sent'[x] = sent[x]
      BY <2>1, Receipt, ZenonT(60)
    <3>2. self[d].conn # c
      BY <3>1, Zenon
    <3>. QED BY <3>1, <3>2, Zenon
  <2>2. CASE Fread(d)
    <3>. DEFINE o == fds[file[d]].owner
    <3>1. \/ UNCHANGED sent
          \/ /\ sent' = [sent EXCEPT ![o] = SubSeq(@, BUFFER_SIZE + 1, Len(@))]
             /\ crossed' = crossed \cup {o}
      BY <2>2 DEF Fread
    <3>. QED BY <3>1 DEF Texts
  <2>3. CASE ~Received(d) /\ ~Fread(d)
    <3>1. UNCHANGED sent
      BY <2>3, ZenonT(40) DEF Handler, Recv, EndOfStream, LockAppend, Write, Unlock, LockRead, Ioctl,
         FreadFails, CloseRead, Send, Close, Flag, network
    <3>. QED BY <3>1
  <2>. QED BY <2>1, <2>2, <2>3
<1>. QED BY <1>1, <1>3, <1>4, <1>5, <1>6, SentAsIs, SelfKept DEF Rests

(* The socket of a thread is its client's as long as nobody was robbed,    *)
(* and its stream is the device's.                                         *)
LEMMA SocketOwn ==
    ASSUME ServerInv, NEW c \in Client, pc[c] \notin {"none", "close", "flag", "exit"}, robbed = {}
    PROVE  Socket(c) = [kind |-> "sock", owner |-> c]
<1>1. /\ info[c] # NULL /\ info[c] \in ThreadInfo /\ info[c].client_socket = client_socket[c]
  BY DEF ServerInv, Accounts, ThreadsInformed
<1>2. client_socket[c] \in Fd /\ Mine(c, client_socket[c])
  BY <1>1 DEF ThreadInfo, Mine
<1>3. Account(c, client_socket[c])
  BY <1>2 DEF ServerInv, Accounts, Accounted
<1>. QED BY <1>2, <1>3 DEF Account, Socket

LEMMA StreamOwn ==
    ASSUME ServerInv, NEW c \in Client, pc[c] \in {"write", "ioctl", "fread", "closeread"}, robbed = {}
    PROVE  fds[file[c]] = [kind |-> "dev", owner |-> c]
<1>1. file[c] \in Fd
  BY DEF ServerInv, Accounts, StreamInv, DescriptorsTyped, StreamOpen
<1>2. Account(c, file[c])
  BY <1>1 DEF ServerInv, Accounts, Accounted
<1>. QED BY <1>2 DEF Account, Streaming

(* What a thread's own step leaves alone. *)
LEMMA OwnAside ==
    ASSUME ServerInv, Texts, NEW c \in Client, c \notin crossed', Handler(c), ~Received(c)
    PROVE  /\ UNCHANGED <<client, main, accepted>> /\ sent'[c] = sent[c]
           /\ robbed' = {} => robbed = {}
           /\ ~Write(c) => UNCHANGED <<lines, partial>>
<1>1. UNCHANGED <<client, main, accepted>>
  BY Zenon DEF Handler, Recv, EndOfStream, LockAppend, Write, Unlock, LockRead, Ioctl, Fread,
     FreadFails, CloseRead, Send, Close, Flag, mainVars, network
<1>2. robbed' = {} => robbed = {}
  BY RobbedStays
<1>3. ~Write(c) => UNCHANGED <<lines, partial>>
  BY Zenon DEF Handler, Recv, EndOfStream, LockAppend, Unlock, LockRead, Ioctl, Fread,
     FreadFails, CloseRead, Send, Close, Flag, device
<1>4. sent'[c] = sent[c]
  <2>1. CASE Fread(c)
    <3>. DEFINE o == fds[file[c]].owner
    <3>1. \/ UNCHANGED sent
          \/ /\ sent' = [sent EXCEPT ![o] = SubSeq(@, BUFFER_SIZE + 1, Len(@))]
             /\ crossed' = crossed \cup {o}
      BY <2>1 DEF Fread
    <3>. QED BY <3>1 DEF Texts
  <2>2. CASE ~Fread(c)
    <3>1. UNCHANGED sent
      BY <2>2, Zenon DEF Handler, Recv, EndOfStream, LockAppend, Write, Unlock, LockRead, Ioctl,
         FreadFails, CloseRead, Send, Close, Flag, network
    <3>. QED BY <3>1
  <2>. QED BY <2>1, <2>2
<1>. QED BY <1>1, <1>2, <1>3, <1>4

(* The names of the locals that a step does not assign keep their values. *)
LEMMA OwnLocals ==
    ASSUME DOMAIN self = Client, NEW c \in Client, DOMAIN self[c] = LocalNames, NEW x,
           \/ self' = self
           \/ self' = [self EXCEPT ![c].pos = x]
           \/ self' = [self EXCEPT ![c].contents = x]
           \/ self' = [self EXCEPT ![c].newString = x]
           \/ self' = [self EXCEPT ![c].conn = x]
    PROVE  /\ self'[c].newline = self[c].newline
           /\ self'[c].found_ioctl_cmd = self[c].found_ioctl_cmd
           /\ self'[c].failed = self[c].failed
           /\ self'[c].args = self[c].args /\ self'[c].uncut = self[c].uncut
           /\ ~(self' = [self EXCEPT ![c].conn = x]) => self'[c].conn = self[c].conn
           /\ self' = [self EXCEPT ![c].conn = x] => self'[c].conn = x
BY DEF LocalNames

LEMMA OwnSteps ==
    ASSUME ServerInv, Texts, NEW c \in Client, c \notin crossed', Handler(c), ~Received(c)
    PROVE  TakesNothing(c)
<1>0. /\ pc \in [Client -> Steps] /\ DOMAIN self = Client
      /\ Working(c) => DOMAIN self[c] = LocalNames
  BY DEF ServerInv, Accounts, StreamInv, DescriptorsTyped, Texts, LocalsHeld
<1>1. /\ UNCHANGED <<client, main, accepted>>
      /\ \E n \in 0..Len(sent[c]) : sent'[c] = SubSeq(sent[c], 1, n)
      /\ robbed' = {} => robbed = {}
      /\ ~Write(c) => UNCHANGED <<lines, partial>>
  BY OwnAside, SentAsIs
<1>2. (Unserved(c)' <=> Unserved(c)) /\ (~Write(c) => NotMine(c))
  BY <1>1 DEF Unserved, NotMine
<1>3. CASE Recv(c)
  <2>1. pc[c] = "recv" /\ robbed' = robbed
    BY <1>3, Zenon DEF Recv
  <2>2. CASE Socket(c).kind = "sock"
    <3>1. Goto(c, "receiving") /\ self' = [self EXCEPT ![c].conn = Socket(c).owner]
      BY <1>3, <2>2, Zenon DEF Recv
    <3>2. /\ self'[c].newline = self[c].newline /\ self'[c].failed = self[c].failed
          /\ self'[c].found_ioctl_cmd = self[c].found_ioctl_cmd
          /\ self'[c].conn = Socket(c).owner
      BY <1>0, <2>1, <3>1, OwnLocals DEF Working
    <3>3. ASSUME robbed = {}
          PROVE  Socket(c).owner = c
      <4>1. Socket(c) = [kind |-> "sock", owner |-> c]
        BY <2>1, <3>3, SocketOwn
      <4>. QED BY <4>1
    <3>4. pc'[c] = "receiving"
      BY <1>0, <3>1 DEF Goto
    <3>5. InHand(c)' = InHand(c) /\ MayReceive(c)
      BY <2>1, <3>4 DEF InHand, MayReceive
    <3>6. robbed' = {} => GoesOn(c)
      BY <2>1, <3>2, <3>3 DEF GoesOn, Working
    <3>. QED BY <1>1, <1>2, <1>3, <2>1, <3>5, <3>6 DEF TakesNothing, Recv, Write
  <2>3. CASE Socket(c).kind # "sock"
    <3>1. Goto(c, "lockread") /\ self' = self
      BY <1>3, <2>3, Zenon DEF Recv
    <3>2. pc'[c] = "lockread"
      BY <1>0, <3>1 DEF Goto
    <3>3. InHand(c)' = InHand(c) /\ MayReceive(c) /\ GoesOn(c)
      BY <2>1, <3>1, <3>2 DEF InHand, MayReceive, GoesOn, Working
    <3>. QED BY <1>1, <1>2, <2>1, <3>3 DEF TakesNothing, Write
  <2>. QED BY <2>2, <2>3
<1>4. CASE LockAppend(c)
  <2>. DEFINE found == CommandFound(c)
  <2>1. pc[c] = "lock" /\ Goto(c, IF found THEN "unlock" ELSE "write")
    BY <1>4, Zenon DEF LockAppend
  <2>2. /\ self'[c].newline = self[c].newline /\ self'[c].found_ioctl_cmd = found
        /\ self'[c].newString = self[c].newString /\ self'[c].failed = self[c].failed
    <3>1. self' = [self EXCEPT ![c].found_ioctl_cmd = found, ![c].args = AppendArgs(c),
                               ![c].uncut = AppendUncut(c)]
      BY <1>4, AppendLocals, Zenon
    <3>. HIDE DEF found
    <3>. QED BY <1>0, <2>1, <3>1 DEF LocalNames, Working
  <2>3. pc'[c] = IF found THEN "unlock" ELSE "write"
    <3>. HIDE DEF found
    <3>. QED BY <1>0, <2>1 DEF Goto
  <2>4. self[c].found_ioctl_cmd => found
    BY DEF CommandFound
  <2>. HIDE DEF found
  <2>5. GoesOn(c)
    BY <2>1, <2>2, <2>3, <2>4 DEF GoesOn, Working
  <2>6. MayReceive(c)' => MayReceive(c)
    BY <1>2, <2>1, <2>2, <2>3 DEF MayReceive
  <2>7. CASE found
    <3>1. Drops(c)
      BY <1>2, <2>1, <2>2, <2>3, <2>7 DEF Drops, Lost, InHand, Write
    <3>. QED BY <1>1, <1>2, <2>5, <2>6, <3>1 DEF TakesNothing
  <2>8. CASE ~found
    <3>1. InHand(c)' = InHand(c)
      BY <2>1, <2>2, <2>3, <2>8 DEF InHand
    <3>. QED BY <1>1, <1>2, <2>1, <2>5, <2>6, <3>1 DEF TakesNothing, Write
  <2>. QED BY <2>7, <2>8
<1>5. CASE Write(c)
  <2>. DEFINE text == self[c].newString
  <2>1. pc[c] = "write" /\ Working(c) /\ DOMAIN self[c] = LocalNames /\ text \in Word
    <3>1. pc[c] = "write"
      BY <1>5, Zenon DEF Write
    <3>. QED BY <1>0, <3>1 DEF Working, Texts, LocalsHeld
  <2>2. \/ \E k \in Pieces(text) :
              /\ Device!Accept(Piece(text, k), k)
              /\ self' = [self EXCEPT ![c].newString = Rest(text, k)]
              /\ Goto(c, IF k = Len(text) THEN "unlock" ELSE "write")
        \/ /\ UNCHANGED <<lines, partial>> /\ Goto(c, "unlock")
           /\ self' = [self EXCEPT ![c].newString = <<>>, ![c].failed = TRUE]
    BY <1>5, Zenon DEF Write
  <2>. HIDE DEF text
  <2>3. ASSUME NEW k \in Pieces(text), Device!Accept(Piece(text, k), k),
               self' = [self EXCEPT ![c].newString = Rest(text, k)],
               Goto(c, IF k = Len(text) THEN "unlock" ELSE "write")
        PROVE  TakesNothing(c)
    <3>1. /\ self'[c].newline = self[c].newline /\ self'[c].failed = self[c].failed
          /\ self'[c].found_ioctl_cmd = self[c].found_ioctl_cmd
      BY <1>0, <2>1, <2>3, OwnLocals
    <3>2. self'[c].newString = Rest(text, k)
      BY <1>0, <2>1, <2>3 DEF LocalNames
    <3>3. pc'[c] = IF k = Len(text) THEN "unlock" ELSE "write"
      BY <1>0, <2>3 DEF Goto
    <3>4. k = Len(text) => Rest(text, k) = <<>>
      BY <2>1, PieceAndRest
    <3>5. InHand(c)' = Rest(text, k)
      BY <3>2, <3>3, <3>4 DEF InHand
    <3>6. GoesOn(c) /\ (MayReceive(c)' => MayReceive(c))
      BY <1>2, <2>1, <3>1, <3>3 DEF GoesOn, MayReceive
    <3>7. Puts(c)
      BY <2>1, <2>3, <3>5 DEF Puts, text
    <3>. QED BY <1>1, <1>2, <3>6, <3>7 DEF TakesNothing
  <2>4. ASSUME UNCHANGED <<lines, partial>>, Goto(c, "unlock"),
               self' = [self EXCEPT ![c].newString = <<>>, ![c].failed = TRUE]
        PROVE  TakesNothing(c)
    <3>1. /\ self'[c].newline = self[c].newline /\ self'[c].failed = TRUE
          /\ self'[c].found_ioctl_cmd = self[c].found_ioctl_cmd
      BY <1>0, <2>1, <2>4 DEF LocalNames
    <3>2. pc'[c] = "unlock"
      BY <1>0, <2>4 DEF Goto
    <3>3. InHand(c)' = <<>> /\ GoesOn(c) /\ (MayReceive(c)' => MayReceive(c))
      BY <1>2, <2>1, <3>1, <3>2 DEF InHand, GoesOn, MayReceive
    <3>4. Drops(c)
      BY <2>4, <3>1, <3>3 DEF Drops, Lost, NotMine
    <3>. QED BY <1>1, <1>2, <3>3, <3>4 DEF TakesNothing
  <2>. QED BY <2>2, <2>3, <2>4
<1>6. CASE Unlock(c)
  <2>1. /\ pc[c] = "unlock" /\ Goto(c, IF self[c].newline THEN "lockread" ELSE "recv")
        /\ self' = [self EXCEPT ![c].newString = <<>>]
    BY <1>6, Zenon DEF Unlock, AfterPacket
  <2>2. pc'[c] = IF self[c].newline THEN "lockread" ELSE "recv"
    BY <1>0, <2>1 DEF Goto
  <2>3. /\ self'[c].newline = self[c].newline /\ self'[c].failed = self[c].failed
        /\ self'[c].found_ioctl_cmd = self[c].found_ioctl_cmd
    BY <1>0, <2>1, OwnLocals DEF Working
  <2>4. InHand(c)' = InHand(c) /\ GoesOn(c) /\ (MayReceive(c)' => MayReceive(c))
    BY <1>2, <2>1, <2>2, <2>3 DEF InHand, GoesOn, Working, MayReceive
  <2>. QED BY <1>1, <1>2, <2>1, <2>4 DEF TakesNothing, Write
<1>7. ASSUME pc[c] \notin {"none", "exit", "lock", "write"}, NEW s, Goto(c, s),
             s \in {"lockread", "ioctl", "fread", "closeread", "send", "close", "flag"},
             NEW x, \/ self' = self
                    \/ self' = [self EXCEPT ![c].pos = x]
                    \/ self' = [self EXCEPT ![c].contents = x]
      PROVE  TakesNothing(c)
  <2>1. pc'[c] = s /\ Working(c) /\ DOMAIN self[c] = LocalNames
    BY <1>0, <1>7 DEF Goto, Working
  <2>2. InHand(c)' = InHand(c) /\ (MayReceive(c)' => MayReceive(c))
    BY <1>2, <1>7, <2>1 DEF InHand, MayReceive
  <2>3. /\ self'[c].newline = self[c].newline /\ self'[c].failed = self[c].failed
        /\ self'[c].found_ioctl_cmd = self[c].found_ioctl_cmd
    BY <1>0, <1>7, <2>1, OwnLocals
  <2>4. GoesOn(c) /\ ~Write(c)
    BY <1>7, <2>1, <2>3 DEF GoesOn, Write
  <2>. QED BY <1>1, <1>2, <2>2, <2>4 DEF TakesNothing
<1>8. CASE EndOfStream(c) \/ CloseRead(c) \/ Send(c)
  <2>1. /\ pc[c] \in {"receiving", "closeread", "send"} /\ UNCHANGED self
        /\ Goto(c, "lockread") \/ Goto(c, "send") \/ Goto(c, "close")
    BY <1>8, Zenon DEF EndOfStream, CloseRead, Send, locals
  <2>. QED BY <1>7, <2>1
<1>9. CASE LockRead(c)
  <2>1. /\ pc[c] = "lockread" /\ self' = [self EXCEPT ![c].pos = 0]
        /\ Goto(c, "ioctl") \/ Goto(c, "fread")
    BY <1>9, Zenon DEF LockRead
  <2>. QED BY <1>7, <2>1
<1>10. CASE Ioctl(c)
  <2>1. pc[c] = "ioctl" /\ Goto(c, "fread") /\ (self' = self \/ \E x : self' = [self EXCEPT ![c].pos = x])
    BY <1>10 DEF Ioctl
  <2>. QED BY <1>7, <2>1
<1>11. CASE Fread(c) \/ FreadFails(c) \/ Close(c)
  <2>1. /\ pc[c] \in {"fread", "close"} /\ \E x : self' = [self EXCEPT ![c].contents = x]
        /\ Goto(c, "closeread") \/ Goto(c, "send") \/ Goto(c, "flag")
    <3>1. CASE Fread(c)
      BY <3>1 DEF Fread
    <3>2. CASE FreadFails(c)
      BY <3>2, Zenon DEF FreadFails
    <3>3. CASE Close(c)
      BY <3>3, Zenon DEF Close
    <3>. QED BY <1>11, <3>1, <3>2, <3>3
  <2>. QED BY <1>7, <2>1
<1>12. CASE Flag(c)
  <2>1. pc[c] = "flag" /\ Goto(c, "exit")
    BY <1>12, Zenon DEF Flag
  <2>2. pc'[c] = "exit"
    BY <1>0, <2>1 DEF Goto
  <2>3. InHand(c)' = InHand(c) /\ (MayReceive(c)' => MayReceive(c)) /\ ~Working(c)' /\ ~Write(c)
    BY <1>2, <2>1, <2>2 DEF InHand, MayReceive, Working, Write
  <2>. QED BY <1>1, <1>2, <2>3 DEF TakesNothing
<1>. QED BY <1>3, <1>4, <1>5, <1>6, <1>8, <1>9, <1>10, <1>11, <1>12, Zenon DEF Handler

LEMMA MainSteps ==
    ASSUME ServerInv, Texts, NEW c \in Client, Main
    PROVE  TakesNothing(c) /\ (Rests(c) \/ Begins(c))
<1>0. pc \in [Client -> Steps] /\ DOMAIN self = Client
  BY DEF ServerInv, Accounts, StreamInv, DescriptorsTyped, Texts
<1>1. UNCHANGED <<lines, partial, sent>>
  BY Zenon DEF Main, MainCreate, MainInsert, CleanupThreads, Reap, MainAccept, device, network
<1>2. robbed' = {} => robbed = {}
  BY RobbedStays
<1>3. NotMine(c) /\ \E n \in 0..Len(sent[c]) : sent'[c] = SubSeq(sent[c], 1, n)
  BY <1>1, SentAsIs DEF NotMine
<1>4. Unserved(c)' => Unserved(c)
  <2>1. CASE MainCreate
    BY <2>1 DEF MainCreate, Unserved, network
  <2>2. CASE MainInsert
    BY <2>2 DEF MainInsert, Unserved, network
  <2>3. CASE CleanupThreads
    <3>1. client' = client /\ main' \in {"accept", "cleanup"}
      BY <2>3 DEF CleanupThreads, Reap, network
    <3>. QED BY <3>1 DEF Unserved
  <2>4. ASSUME NEW d \in Client, MainAccept(d)
        PROVE  Unserved(c)' => Unserved(c)
    <3>1. /\ client[d] = "waiting" /\ client' = [client EXCEPT ![d] = "open"]
          /\ main' = "create" /\ accepted' = d
      BY <2>4, Zenon DEF MainAccept
    <3>2. client \in [Client -> {"new", "waiting", "open", "gone"}]
      BY DEF ServerInv, Accounts, StreamInv, OneThreadPerClient
    <3>. QED BY <3>1, <3>2 DEF Unserved
  <2>. QED BY <2>1, <2>2, <2>3, <2>4, Zenon DEF Main
<1>5. CASE pc'[c] = pc[c] /\ self'[c] = self[c]
  BY <1>2, <1>3, <1>4, <1>5, SelfKept DEF Rests
<1>6. CASE ~(pc'[c] = pc[c] /\ self'[c] = self[c])
  <2>1. MainCreate
    BY <1>6, Zenon DEF Main, MainInsert, CleanupThreads, Reap, MainAccept, threads, locals
  <2>2. main = "create" /\ Goto(accepted, "recv") /\ self' = [self EXCEPT ![accepted] = NoLocals]
    BY <1>6, <2>1, Zenon DEF MainCreate, threads, locals
  <2>3. accepted = c /\ pc[c] = "none"
    BY <1>0, <1>6, <2>2 DEF Goto, ServerInv, Accounts, StreamInv, OneThreadPerClient
  <2>4. pc'[c] = "recv" /\ self'[c] = NoLocals
    BY <1>0, <2>2, <2>3 DEF Goto
  <2>5. self'[c].newline = FALSE /\ self'[c].uncut = FALSE
    BY <2>4 DEF NoLocals
  <2>6. Unserved(c) /\ MayReceive(c) /\ InHand(c)' = InHand(c)
    BY <2>2, <2>3, <2>4 DEF Unserved, MayReceive, InHand
  <2>7. GoesOn(c)
    BY <2>3, <2>4, <2>5, <2>6 DEF GoesOn
  <2>. QED BY <1>2, <1>3, <1>4, <2>4, <2>5, <2>6, <2>7 DEF TakesNothing, Begins
<1>. QED BY <1>5, <1>6

LEMMA EndSteps ==
    ASSUME Texts, NEW c \in Client, OthersFreeOf(c), Ended, UNCHANGED <<lines, partial>> \/ Stores
    PROVE  TakesNothing(c) /\ ~Working(c)'
<1>1. /\ pc'[c] = "none" /\ sent'[c] = sent[c] /\ main' = "accept"
      /\ client'[c] \in {"new", "waiting"} => client'[c] = client[c]
  BY DEF Ended
<1>2. ~Working(c)' /\ InHand(c)' = <<>> /\ (Unserved(c)' => Unserved(c)) /\ (MayReceive(c)' => MayReceive(c))
  BY <1>1 DEF Working, InHand, Unserved, MayReceive
<1>3. \E n \in 0..Len(sent[c]) : sent'[c] = SubSeq(sent[c], 1, n)
  BY <1>1, SentAsIs
<1>4. Puts(c) \/ Drops(c)
  <2>1. CASE UNCHANGED <<lines, partial>>
    BY <1>2, <2>1 DEF Drops, Lost, NotMine
  <2>2. CASE Stores
    <3>0. PICK d \in Client : pc[d] = "write" /\ \E k \in Pieces(self[d].newString) :
                                   Device!Accept(Piece(self[d].newString, k), k)
      BY <2>2, Zenon DEF Stores
    <3>1. PICK k \in Pieces(self[d].newString) : Device!Accept(Piece(self[d].newString, k), k)
      BY <3>0
    <3>2. CASE d = c
      BY <1>2, <3>0, <3>1, <3>2, Zenon DEF Puts
    <3>3. CASE d # c
      <4>1. self[d].newString \in Word /\ Clean(c, self[d].newString)
        BY <3>0, <3>3 DEF Texts, LocalsHeld, Working, OthersFreeOf
      <4>2. NotMine(c)
        BY <3>1, <4>1, CleanPieces, ZenonT(60) DEF NotMine
      <4>. QED BY <1>2, <4>2 DEF Drops, Lost
    <3>. QED BY <3>2, <3>3
  <2>. QED BY <2>1, <2>2
<1>. QED BY <1>2, <1>3, <1>4 DEF TakesNothing

LEMMA EnvironmentSteps ==
    ASSUME ServerInv, Texts, NEW c \in Client, OthersFreeOf(c), Environment
    PROVE  TakesNothing(c) /\ (Rests(c) \/ ~Working(c)')
<1>0. /\ client \in [Client -> {"new", "waiting", "open", "gone"}]
      /\ \E n \in 0..Len(sent[c]) : sent[c] = SubSeq(sent[c], 1, n)
      /\ sent \in [Client -> Word]
  <2>1. Len(sent[c]) \in 0..Len(sent[c]) /\ sent[c] = SubSeq(sent[c], 1, Len(sent[c]))
    BY DEF Texts, Word
  <2>2. client \in [Client -> {"new", "waiting", "open", "gone"}] /\ sent \in [Client -> Word]
    BY DEF ServerInv, Accounts, StreamInv, OneThreadPerClient, Texts
  <2>. QED BY <2>1, <2>2, Zenon
<1>1. ASSUME UNCHANGED <<pc, self>>, UNCHANGED <<lines, partial>>, UNCHANGED robbed,
             Unserved(c)' => Unserved(c),
             \E n \in 0..Len(sent[c]) : sent'[c] = SubSeq(sent[c], 1, n)
      PROVE  TakesNothing(c) /\ (Rests(c) \/ ~Working(c)')
  <2>1. NotMine(c) /\ pc'[c] = pc[c] /\ self'[c] = self[c] /\ (robbed' = {} => robbed = {})
    BY <1>1 DEF NotMine
  <2>. QED BY <1>1, <2>1, SelfKept DEF Rests
<1>2. CASE Start
  <2>1. UNCHANGED <<pc, self, lines, partial, robbed, client, main, accepted, sent>>
    BY <1>2, Zenon DEF Start, threads, locals, device, network, mainVars
  <2>. QED BY <1>0, <1>1, <2>1 DEF Unserved
<1>3. ASSUME NEW d \in Client, Connect(d)
      PROVE  TakesNothing(c) /\ (Rests(c) \/ ~Working(c)')
  <2>1. /\ UNCHANGED <<pc, self, lines, partial, robbed, main, accepted, sent>>
        /\ client[d] = "new" /\ client' = [client EXCEPT ![d] = "waiting"]
    BY <1>3, Zenon DEF Connect, threads, locals, device, mainVars
  <2>2. Unserved(c)' => Unserved(c)
    BY <1>0, <2>1 DEF Unserved
  <2>. QED BY <1>0, <1>1, <2>1, <2>2
<1>4. ASSUME NEW d \in Client, MainAcceptFails(d)
      PROVE  TakesNothing(c) /\ (Rests(c) \/ ~Working(c)')
  <2>1. /\ UNCHANGED <<pc, self, lines, partial, robbed, main, accepted, sent>>
        /\ client' = [client EXCEPT ![d] = "gone"]
    BY <1>4, Zenon DEF MainAcceptFails, threads, locals, device, mainVars
  <2>2. Unserved(c)' => Unserved(c)
    BY <1>0, <2>1 DEF Unserved
  <2>. QED BY <1>0, <1>1, <2>1, <2>2
<1>5. ASSUME NEW d \in Client, HangUp(d)
      PROVE  TakesNothing(c) /\ (Rests(c) \/ ~Working(c)')
  <2>1. /\ UNCHANGED <<pc, self, lines, partial, robbed, main, accepted>>
        /\ client' = [client EXCEPT ![d] = "gone"]
        /\ \E k \in 0..Len(sent[d]) : sent' = [sent EXCEPT ![d] = SubSeq(@, 1, k)]
    BY <1>5, Zenon DEF HangUp, threads, locals, device, mainVars
  <2>2. Unserved(c)' => Unserved(c)
    BY <1>0, <2>1 DEF Unserved
  <2>3. \E n \in 0..Len(sent[c]) : sent'[c] = SubSeq(sent[c], 1, n)
    <3>1. PICK k \in 0..Len(sent[d]) : sent' = [sent EXCEPT ![d] = SubSeq(@, 1, k)]
      BY <2>1
    <3>2. CASE c = d
      BY <1>0, <3>1, <3>2
    <3>3. CASE c # d
      BY <1>0, <3>1, <3>3
    <3>. QED BY <3>2, <3>3
  <2>. QED BY <1>1, <2>1, <2>2, <2>3
<1>6. CASE Terminate
  <2>1. Ended /\ (UNCHANGED <<lines, partial>> \/ Stores)
    BY <1>6, Zenon DEF Terminate, Stores
  <2>. QED BY <2>1, EndSteps
<1>7. CASE Crash
  <2>1. Ended /\ UNCHANGED <<lines, partial>>
    BY <1>7, Zenon DEF Crash, device
  <2>. QED BY <2>1, EndSteps
<1>. QED BY <1>2, <1>3, <1>4, <1>5, <1>6, <1>7, Zenon DEF Environment, LockFails, BrokenPipe

(* Client c takes part in a step by receiving, or it does not receive.     *)
LEMMA ClientSteps ==
    ASSUME ServerInv, Texts, NEW c \in Client, c \notin crossed', OthersFreeOf(c), Next
    PROVE  TakesNothing(c) \/ Takes(c)
<1>1. CASE \E d \in Client : Handler(d)
  <2>1. PICK d \in Client : Handler(d)
    BY <1>1
  <2>2. CASE d # c
    BY <2>1, <2>2, OthersSteps
  <2>3. CASE d = c /\ ~Received(c)
    BY <2>1, <2>3, OwnSteps
  <2>4. CASE d = c /\ Received(c)
    BY <2>4, Receipt
  <2>. QED BY <2>2, <2>3, <2>4
<1>. QED BY <1>1, MainSteps, EnvironmentSteps DEF Next

LEMMA CrossedStays ==
    ASSUME Next
    PROVE  crossed \subseteq crossed'
<1>1. CASE UNCHANGED crossed
  BY <1>1
<1>2. CASE Main
  <2>1. UNCHANGED crossed
    BY <1>2, Zenon DEF Main, MainCreate, MainInsert, CleanupThreads, Reap, MainAccept, network
  <2>. QED BY <2>1
<1>3. CASE Environment
  <2>1. UNCHANGED crossed
    BY <1>3, Zenon DEF Environment, Start, Terminate, Connect, HangUp, MainAcceptFails,
       LockFails, BrokenPipe, Crash, Ended, network
  <2>. QED BY <2>1
<1>4. ASSUME NEW d \in Client, Handler(d)
      PROVE  crossed \subseteq crossed'
  <2>1. CASE Received(d)
    BY <2>1 DEF Received
  <2>2. CASE Fread(d)
    BY <2>2 DEF Fread
  <2>3. CASE ~Received(d) /\ ~Fread(d)
    <3>1. UNCHANGED crossed
      BY <1>4, <2>3, Zenon DEF Handler, Recv, EndOfStream, LockAppend, Write, Unlock, LockRead, Ioctl,
         FreadFails, CloseRead, Send, Close, Flag, network
    <3>. QED BY <3>1
  <2>. QED BY <2>1, <2>2, <2>3
<1>. QED BY <1>2, <1>3, <1>4 DEF Next

(* The texts of the others stay without what is only c's. *)
LEMMA OthersNext ==
    ASSUME ServerInv, Texts, NEW c \in Client, c \notin crossed', OthersFreeOf(c), Next
    PROVE  OthersFreeOf(c)'
<1>1. SUFFICES ASSUME NEW d \in Client \ {c}, Working(d)'
               PROVE  Clean(c, self'[d].newString)
  BY DEF OthersFreeOf
<1>2. Clean(c, <<>>)
  BY DEF Clean, ToSet
<1>3. CASE Received(d)
  <2>1. Takes(d) /\ self[d].conn # c /\ self[d].conn \in Client
    BY <1>3, Receipt
  <2>2. PICK o \in Client : \E k \in 1..Len(sent[o]) :
            /\ o = self[d].conn
            /\ self'[d].newString = extract_data_up_to_newline(SubSeq(sent[o], 1, k))
    BY <2>1 DEF Takes
  <2>3. PICK k \in 1..Len(sent[o]) :
            self'[d].newString = extract_data_up_to_newline(SubSeq(sent[o], 1, k))
    BY <2>2
  <2>4. o # c /\ sent[o] \in Word /\ ToSet(sent[o]) \subseteq ToSet(Stream[o]) /\ k \in 0..Len(sent[o])
    BY <2>1, <2>2, <2>3, SMTT(30) DEF Texts, Word
  <2>5. /\ SubSeq(sent[o], 1, k) \in Word
        /\ ToSet(SubSeq(sent[o], 1, k)) \subseteq ToSet(sent[o])
    BY <2>4, CutOff
  <2>6. ToSet(self'[d].newString) \subseteq ToSet(Stream[o])
    BY <2>3, <2>4, <2>5, Extract
  <2>. QED BY <2>4, <2>6 DEF Clean, Own
<1>4. CASE Ended
  BY <1>1, <1>4 DEF Ended, Working
<1>5. CASE (\E e \in Client : Handler(e)) /\ ~Received(d)
  <2>1. PICK e \in Client : Handler(e)
    BY <1>5
  <2>2. CASE e # d
    <3>1. self'[d] = self[d] /\ pc'[d] = pc[d]
      BY <2>1, <2>2, Receipt, HandlerLocals DEF Alone
    <3>. QED BY <1>1, <3>1 DEF OthersFreeOf, Working
  <2>3. CASE e = d
    <3>1. StringKept(d)
      BY <1>5, <2>1, <2>3, HandlerLocals
    <3>2. Working(d) => self[d].newString \in Word /\ Clean(c, self[d].newString)
      BY DEF OthersFreeOf, Texts, LocalsHeld
    <3>3. Working(d) => \A k \in Pieces(self[d].newString) : Clean(c, Rest(self[d].newString, k))
      BY <3>2, CleanPieces
    <3>. QED BY <1>1, <1>2, <3>1, <3>2, <3>3 DEF StringKept
  <2>. QED BY <2>2, <2>3
<1>6. CASE Main
  <2>1. CASE pc'[d] = pc[d] /\ self'[d] = self[d]
    BY <1>1, <2>1 DEF OthersFreeOf, Working
  <2>2. CASE ~(pc'[d] = pc[d] /\ self'[d] = self[d])
    <3>1. MainCreate
      BY <1>6, <2>2, Zenon DEF Main, MainInsert, CleanupThreads, Reap, MainAccept, threads, locals
    <3>2. main = "create" /\ Goto(accepted, "recv") /\ self' = [self EXCEPT ![accepted] = NoLocals]
      BY <2>2, <3>1, Zenon DEF MainCreate, threads, locals
    <3>3. self'[d] = NoLocals
      BY <2>2, <3>2 DEF Goto, ServerInv, Accounts, StreamInv, DescriptorsTyped, Texts
    <3>4. self'[d].newString = <<>>
      BY <3>3 DEF NoLocals
    <3>. QED BY <1>2, <3>4
  <2>. QED BY <2>1, <2>2
<1>7. CASE Environment /\ ~Ended
  <2>1. UNCHANGED <<pc, self>>
    BY <1>7, Zenon DEF Environment, Start, Terminate, Connect, HangUp, MainAcceptFails,
       LockFails, BrokenPipe, Crash, threads, locals
  <2>. QED BY <1>1, <2>1 DEF OthersFreeOf, Working
<1>. QED BY <1>3, <1>4, <1>5, <1>6, <1>7 DEF Next

(* The data of a client: of its first p bytes, those of its packet.        *)
UpTo(c, p) == IF p < Len(Packet(c)) THEN p ELSE Len(Packet(c))
Passed(c, p) == SubSeq(Stream[c], 1, UpTo(c, p))
Between(c, p, r) == SubSeq(Stream[c], p + 1, r)

LEMMA PacketBounds ==
    ASSUME NEW c \in Client
    PROVE  LET s == Stream[c]
               m == Len(Packet(c))
           IN  /\ s \in Seq(Letter) /\ Len(s) \in Nat /\ m \in 1..Len(s)
               /\ Packet(c) = SubSeq(s, 1, m) /\ s[m] = NL
               /\ \A i \in 1..(m - 1) : s[i] # NL
<1>. DEFINE s == Stream[c]
            k == Min(NewlineAt(s))
<1>1. s \in Seq(Letter) /\ Len(s) \in Nat /\ \E i \in 1..Len(s) : s[i] = NL
  BY StreamTyped DEF Word
<1>2. k \in NewlineAt(s) /\ \A i \in NewlineAt(s) : k <= i
  <2>. HIDE DEF s
  <2>1. NewlineAt(s) \in SUBSET Nat
    BY DEF NewlineAt
  <2>2. NewlineAt(s) # {}
    BY <1>1 DEF NewlineAt
  <2>. QED BY <2>1, <2>2, MinValue
<1>3. Packet(c) = SubSeq(s, 1, k)
  BY DEF Packet
<1>. HIDE DEF s, k
<1>4. k \in 1..Len(s) /\ s[k] = NL
  BY <1>2 DEF NewlineAt
<1>5. Len(Packet(c)) = k
  BY <1>1, <1>3, <1>4, PieceOfPiece
<1>6. ASSUME NEW i \in 1..(k - 1)
      PROVE  s[i] # NL
  <2>1. i \in 1..Len(s) /\ ~(k <= i)
    BY <1>1, <1>4
  <2>. QED BY <1>2, <2>1 DEF NewlineAt
<1>. QED BY <1>1, <1>3, <1>4, <1>5, <1>6 DEF s

(* What recvfrom returns of the data after byte p: it has a newline if it  *)
(* reaches the end of the packet, and what is extracted of it is packet.   *)
LEMMA PieceReceived ==
    ASSUME NEW c \in Client, NEW p \in 0..(Len(Packet(c)) - 1), NEW r \in (p + 1)..Len(Stream[c])
    PROVE  /\ new_line_found(Between(c, p, r)) <=> r >= Len(Packet(c))
           /\ extract_data_up_to_newline(Between(c, p, r)) = Between(c, p, UpTo(c, r))
           /\ UpTo(c, r) \in p..Len(Stream[c]) /\ p = UpTo(c, p)
<1>. DEFINE s == Stream[c]
            m == Len(Packet(c))
            buf == SubSeq(s, p + 1, r)
<1>1. /\ s \in Seq(Letter) /\ Len(s) \in Nat /\ m \in 1..Len(s) /\ s[m] = NL
      /\ \A i \in 1..(m - 1) : s[i] # NL
  BY PacketBounds
<1>2. p \in 0..(m - 1) /\ r \in (p + 1)..Len(s)
  OBVIOUS
<1>3. UpTo(c, r) = (IF r < m THEN r ELSE m) /\ UpTo(c, p) = IF p < m THEN p ELSE m
  BY DEF UpTo
<1>. HIDE DEF s, m
<1>4. buf \in Seq(Letter) /\ Len(buf) = r - p /\ \A i \in 1..(r - p) : buf[i] = s[p + i]
  BY <1>1, <1>2, SubSeqProperties, SMTT(30)
<1>. HIDE DEF buf
<1>5. ASSUME NEW i \in 1..(r - p), i < m - p
      PROVE  buf[i] # NL
  <2>1. p + i \in 1..(m - 1)
    BY <1>1, <1>2, <1>5, SMTT(20)
  <2>2. buf[i] = s[p + i]
    BY <1>4
  <2>. QED BY <1>1, <2>1, <2>2
<1>6. CASE r >= m
  <2>1. m - p \in 1..(r - p) /\ p + (m - p) = m
    BY <1>1, <1>2, <1>6
  <2>2. buf[m - p] = NL
    BY <1>1, <1>4, <2>1
  <2>3. m - p \in NewlineAt(buf) /\ NewlineAt(buf) \in SUBSET Nat /\ \A i \in NewlineAt(buf) : ~(i < m - p)
    <3>1. NewlineAt(buf) = {i \in 1..(r - p) : buf[i] = NL}
      BY <1>4 DEF NewlineAt
    <3>2. \A i \in NewlineAt(buf) : i \in 1..(r - p) /\ i \in Nat /\ ~(i < m - p)
      BY <1>5, <3>1
    <3>3. m - p \in NewlineAt(buf)
      BY <2>1, <2>2, <3>1
    <3>. QED BY <3>2, <3>3
  <2>4. Min(NewlineAt(buf)) \in NewlineAt(buf) /\ Min(NewlineAt(buf)) <= m - p
    BY <2>3, MinValue
  <2>. DEFINE k == Min(NewlineAt(buf))
  <2>5. k = m - p
    <3>1. k \in Nat /\ ~(k < m - p) /\ k <= m - p
      BY <2>3, <2>4
    <3>2. m - p \in Nat
      BY <1>1, <1>2, <2>1
    <3>. DEFINE l == m - p
    <3>3. l \in Nat /\ k \in Nat /\ ~(k < l) /\ k <= l
      BY <3>1, <3>2
    <3>. HIDE DEF k, l
    <3>4. k = l
      BY <3>3
    <3>. QED BY <3>4 DEF l
  <2>6. extract_data_up_to_newline(buf) = SubSeq(buf, 1, m - p) /\ new_line_found(buf)
    BY <2>3, <2>5 DEF extract_data_up_to_newline, new_line_found
  <2>7. SubSeq(buf, 1, m - p) = SubSeq(s, p + 1, m)
    <3>1. r \in 0..Len(s) /\ p \in 0..r /\ m - p \in 0..(r - p) /\ 0 \in 0..(m - p)
      BY <1>1, <1>2, <1>6
    <3>. DEFINE len == m - p
    <3>2. len \in 0..(r - p) /\ 0 \in 0..len /\ 0 + 1 = 1 /\ p + 0 = p /\ p + len = m
      BY <1>1, <1>2, <3>1
    <3>. HIDE DEF len
    <3>3. SubSeq(SubSeq(s, p + 1, r), 0 + 1, len) = SubSeq(s, (p + 0) + 1, p + len)
      BY <1>1, <3>1, <3>2, PieceWithin
    <3>4. SubSeq(buf, 1, len) = SubSeq(s, p + 1, m)
      BY <3>2, <3>3 DEF buf
    <3>. QED BY <3>4 DEF len
  <2>8. extract_data_up_to_newline(buf) = SubSeq(s, p + 1, UpTo(c, r)) /\ UpTo(c, r) \in p..Len(s) /\ p = UpTo(c, p)
    <3>1. UpTo(c, r) = m /\ m \in p..Len(s) /\ p = UpTo(c, p)
      BY <1>1, <1>2, <1>3, <1>6
    <3>. QED BY <2>6, <2>7, <3>1
  <2>. QED BY <1>6, <2>6, <2>8 DEF buf, s, m, Between
<1>7. CASE ~(r >= m)
  <2>1. NewlineAt(buf) = {}
    BY <1>1, <1>2, <1>4, <1>5, <1>7 DEF NewlineAt
  <2>2. extract_data_up_to_newline(buf) = buf /\ ~new_line_found(buf)
    BY <2>1 DEF extract_data_up_to_newline, new_line_found
  <2>3. UpTo(c, r) = r /\ UpTo(c, r) \in p..Len(s) /\ p = UpTo(c, p)
    BY <1>1, <1>2, <1>3, <1>7
  <2>. QED BY <1>7, <2>2, <2>3 DEF buf, s, m, Between
<1>. QED BY <1>6, <1>7

LEMMA PassedTyped ==
    ASSUME NEW c \in Client, NEW p \in Nat
    PROVE  /\ Passed(c, p) \in Word /\ UpTo(c, p) \in 0..Len(Packet(c))
           /\ \E x \in Word : Packet(c) = Passed(c, p) \o x
<1>. DEFINE s == Stream[c]
            m == Len(Packet(c))
            q == UpTo(c, p)
<1>1. s \in Seq(Letter) /\ Len(s) \in Nat /\ m \in 1..Len(s) /\ Packet(c) = SubSeq(s, 1, m)
  BY PacketBounds
<1>2. q \in 0..m
  <2>1. m \in Nat
    BY <1>1
  <2>. HIDE DEF m
  <2>2. q = IF p < m THEN p ELSE m
    BY DEF UpTo, m
  <2>. HIDE DEF q
  <2>. QED BY <2>1, <2>2
<1>3. Passed(c, p) = SubSeq(s, 1, q)
  BY DEF Passed
<1>. HIDE DEF s, q
<1>4. m \in 0..Len(s)
  <2>. HIDE DEF m
  <2>. QED BY <1>1
<1>5. /\ SubSeq(s, 1, m) = SubSeq(s, 1, q) \o SubSeq(s, q + 1, m)
      /\ SubSeq(s, 1, q) \in Seq(Letter) /\ SubSeq(s, q + 1, m) \in Seq(Letter)
  <2>. HIDE DEF m
  <2>. QED BY <1>1, <1>2, <1>4, PiecesJoin
<1>. QED BY <1>1, <1>2, <1>3, <1>5 DEF Word, q

(* Receiving goes on in the packet where it was left.                      *)
LEMMA PassedOn ==
    ASSUME NEW c \in Client, NEW p \in 0..(Len(Packet(c)) - 1), NEW r \in (p + 1)..Len(Stream[c])
    PROVE  LET e == extract_data_up_to_newline(Between(c, p, r))
           IN  /\ Passed(c, r) = Passed(c, p) \o e
               /\ e \in Word /\ Passed(c, p) \in Word
<1>0. /\ extract_data_up_to_newline(Between(c, p, r)) = Between(c, p, UpTo(c, r))
      /\ UpTo(c, r) \in p..Len(Stream[c]) /\ p = UpTo(c, p)
  BY PieceReceived
<1>. DEFINE s == Stream[c]
            q == UpTo(c, r)
            e == extract_data_up_to_newline(Between(c, p, r))
<1>1. s \in Seq(Letter) /\ Len(s) \in Nat
  BY PacketBounds
<1>2. e = SubSeq(s, p + 1, q) /\ q \in p..Len(s) /\ p = UpTo(c, p)
  BY <1>0 DEF Between
<1>3. Passed(c, p) = SubSeq(s, 1, p) /\ Passed(c, r) = SubSeq(s, 1, q)
  BY <1>2 DEF Passed
<1>4. p \in 0..q /\ q \in 0..Len(s)
  <2>1. p \in Nat
    BY PacketBounds
  <2>. HIDE DEF q, s
  <2>. QED BY <1>1, <1>2, <2>1
<1>. HIDE DEF q, s, e
<1>5. /\ SubSeq(s, 1, q) = SubSeq(s, 1, p) \o SubSeq(s, p + 1, q)
      /\ SubSeq(s, 1, p) \in Seq(Letter) /\ SubSeq(s, p + 1, q) \in Seq(Letter)
  BY <1>1, <1>4, PiecesJoin
<1>. QED BY <1>2, <1>3, <1>5 DEF Word, e, s

EndsWith(t, s) == \E x \in Word : t = x \o s

LEMMA WordConcat ==
    ASSUME NEW x \in Word
    PROVE  x \o <<>> = x /\ <<>> \o x = x /\ <<>> \in Word
BY ConcatEmptySeq, EmptyPart DEF Word

LEMMA WordsJoin ==
    ASSUME NEW x \in Word, NEW y \in Word, NEW z \in Word
    PROVE  Cat(Cat(x, y), z) = Cat(x, Cat(y, z)) /\ Cat(x, y) \in Word
BY CatAssociative DEF Word

LEMMA EndsFurther ==
    ASSUME NEW t, NEW s \in Word, NEW r \in Word, EndsWith(t, s), EndsWith(s, r)
    PROVE  EndsWith(t, r)
<1>1. PICK x \in Word : t = x \o s
  BY DEF EndsWith
<1>2. PICK y \in Word : s = y \o r
  BY DEF EndsWith
<1>3. Cat(x, Cat(y, r)) = Cat(Cat(x, y), r) /\ Cat(x, y) \in Word
  BY WordsJoin
<1>4. t = Cat(x, y) \o r
  BY <1>1, <1>2, <1>3, Zenon DEF Cat
<1>. QED BY <1>3, <1>4 DEF EndsWith

LEMMA EndsAsSuffix ==
    ASSUME NEW t, NEW s \in Word, EndsWith(t, s)
    PROVE  IsSuffix(s, t)
BY ConcatWords DEF EndsWith

LEMMA EndsItself ==
    ASSUME NEW s \in Word
    PROVE  EndsWith(s, s)
BY WordConcat DEF EndsWith

LEMMA DeviceTypedNext ==
    ASSUME Texts'
    PROVE  OnDevice' \in Word
<1>1. lines' \in Seq(Word) /\ partial' \in Word
  BY DEF Texts
<1>2. FlattenSeq(lines') \in Seq(Letter)
  BY <1>1, FlattenTyped DEF Word
<1>. QED BY <1>1, <1>2, ConcatProperties DEF OnDevice, Contents, Word

(* What of c is on the device after a write that is not of c ends what was *)
(* there before.                                                           *)
LEMMA DeviceOwn ==
    ASSUME Texts, Texts', NEW c \in Client, NotMine(c)
    PROVE  /\ OwnPart(c, OnDevice) \in Word /\ OwnPart(c, OnDevice') \in Word
           /\ EndsWith(OwnPart(c, OnDevice), OwnPart(c, OnDevice'))
<1>1. OnDevice \in Word /\ OnDevice' \in Word
  BY DeviceTyped, DeviceTypedNext
<1>2. OwnPart(c, OnDevice) \in Word /\ OwnPart(c, OnDevice') \in Word
  BY <1>1, OwnConcat
<1>3. CASE UNCHANGED <<lines, partial>>
  <2>1. OnDevice' = OnDevice
    BY <1>3 DEF OnDevice, Contents
  <2>2. OwnPart(c, OnDevice) = OwnPart(c, OnDevice')
    BY <2>1
  <2>. QED BY <1>2, <2>2, EndsItself
<1>4. ASSUME NEW s \in Word, Clean(c, s), Device!Accept(s, Len(s))
      PROVE  EndsWith(OwnPart(c, OnDevice), OwnPart(c, OnDevice'))
  <2>1. PICK x \in Word : OnDevice \o s = x \o OnDevice'
    BY <1>4, DeviceGrows
  <2>2. OwnPart(c, s) = <<>>
    BY <1>4, CleanPart
  <2>3. OwnPart(c, OnDevice \o s) = OwnPart(c, OnDevice) \o OwnPart(c, s)
    BY <1>1, OwnConcat
  <2>4. OwnPart(c, x \o OnDevice') = OwnPart(c, x) \o OwnPart(c, OnDevice') /\ OwnPart(c, x) \in Word
    BY <1>1, OwnConcat
  <2>5. OwnPart(c, OnDevice) \o <<>> = OwnPart(c, OnDevice)
    BY <1>2, WordConcat
  <2>6. OwnPart(c, OnDevice) = OwnPart(c, x) \o OwnPart(c, OnDevice')
    BY <2>1, <2>2, <2>3, <2>4, <2>5, Zenon
  <2>. QED BY <2>4, <2>6 DEF EndsWith
<1>. QED BY <1>2, <1>3, <1>4 DEF NotMine

OnItsWay(c) == OwnPart(c, OnDevice) \o OwnPart(c, InHand(c))

LEMMA WayTyped ==
    ASSUME Texts, NEW c \in Client
    PROVE  /\ OwnPart(c, OnDevice) \in Word /\ OwnPart(c, InHand(c)) \in Word
           /\ InHand(c) \in Word /\ OnDevice \in Word /\ OnItsWay(c) \in Word
<1>1. OnDevice \in Word
  BY DeviceTyped
<1>2. InHand(c) \in Word
  <2>1. CASE pc[c] \in {"lock", "write"}
    BY <2>1 DEF InHand, Texts, LocalsHeld, Working
  <2>2. CASE pc[c] \notin {"lock", "write"}
    BY <2>2, EmptyPart DEF InHand
  <2>. QED BY <2>1, <2>2
<1>3. OwnPart(c, OnDevice) \in Word /\ OwnPart(c, InHand(c)) \in Word
  BY <1>1, <1>2, OwnConcat
<1>. QED BY <1>1, <1>2, <1>3, ConcatWords DEF OnItsWay

(* A step in which c does not receive leaves of its text that is on its    *)
(* way the end, unless some of the text is dropped.                        *)
LEMMA WayGoesOn ==
    ASSUME Texts, Texts', NEW c \in Client, TakesNothing(c)
    PROVE  \/ EndsWith(OnItsWay(c), OnItsWay(c)')
           \/ Lost(c) /\ \E h \in Word : EndsWith(OnItsWay(c), OnItsWay(c)' \o h)
<1>. DEFINE a == OwnPart(c, OnDevice)
            h == OwnPart(c, InHand(c))
            b == OwnPart(c, OnDevice')
            g == OwnPart(c, InHand(c)')
<1>1. OnItsWay(c) = a \o h /\ OnItsWay(c)' = b \o g
  BY DEF OnItsWay
<1>2. a \in Word /\ h \in Word /\ OnDevice \in Word
  BY WayTyped
<1>3. CASE NotMine(c) /\ (InHand(c)' = InHand(c) \/ Drops(c))
  <2>1. b \in Word
    BY <1>3, DeviceOwn
  <2>2. PICK x \in Word : a = x \o b
    BY <1>3, DeviceOwn DEF EndsWith
  <2>3. CASE InHand(c)' = InHand(c)
    <3>1. g = h
      BY <2>3
    <3>. HIDE DEF a, h, b, g
    <3>2. Cat(Cat(x, b), h) = Cat(x, Cat(b, h))
      BY <1>2, <2>1, <2>2, WordsJoin
    <3>. QED BY <1>1, <2>2, <3>1, <3>2, Zenon DEF EndsWith, Cat
  <2>4. CASE Drops(c)
    <3>1. g = <<>>
      BY <2>4, EmptyPart DEF Drops
    <3>. HIDE DEF a, h, b, g
    <3>2. Cat(Cat(x, b), h) = Cat(x, Cat(b, h)) /\ b \o <<>> = b
      BY <1>2, <2>1, <2>2, WordsJoin, WordConcat
    <3>3. a \o h = x \o ((b \o g) \o h)
      BY <2>2, <3>1, <3>2, Zenon DEF Cat
    <3>4. Lost(c)
      BY <2>4, Zenon DEF Drops
    <3>. QED BY <1>1, <1>2, <2>2, <3>3, <3>4, Zenon DEF EndsWith
  <2>. QED BY <1>3, <2>3, <2>4
<1>4. CASE Puts(c)
  <2>. DEFINE s == self[c].newString
  <2>1. PICK k \in Pieces(s) : /\ pc[c] = "write" /\ Device!Accept(Piece(s, k), k)
                               /\ \/ InHand(c)' = Rest(s, k)
                                  \/ InHand(c)' = <<>> /\ ~Working(c)'
    BY <1>4, Zenon DEF Puts
  <2>2. InHand(c) = s
    BY <2>1 DEF InHand
  <2>3. s \in Word
    BY <2>2, WayTyped
  <2>. DEFINE y == Piece(s, k)
              z == Rest(s, k)
  <2>4. y \in Word /\ z \in Word /\ Len(y) = k
    BY <2>3, PieceAndRest
  <2>5. s = y \o z
    BY <2>3, PieceJoined
  <2>6. Device!Accept(y, Len(y))
    BY <2>1, <2>4, Zenon
  <2>7. \/ InHand(c)' = z
        \/ InHand(c)' = <<>> /\ ~Working(c)'
    BY <2>1
  <2>. HIDE DEF s, y, z
  <2>8. PICK x \in Word : OnDevice \o y = x \o OnDevice'
    BY <2>4, <2>6, DeviceGrows
  <2>. DEFINE yy == OwnPart(c, y)
              zz == OwnPart(c, z)
              xx == OwnPart(c, x)
  <2>9. h = yy \o zz /\ yy \in Word /\ zz \in Word
    <3>1. OwnPart(c, y \o z) = yy \o zz /\ yy \in Word /\ zz \in Word
      BY <2>4, OwnConcat
    <3>. QED BY <2>2, <2>5, <3>1, Zenon
  <2>10. OwnPart(c, OnDevice \o y) = a \o yy
    BY <1>2, <2>4, OwnConcat
  <2>11. OwnPart(c, x \o OnDevice') = xx \o b /\ xx \in Word /\ b \in Word
    BY DeviceTypedNext, OwnConcat
  <2>12. g = zz \/ (g = <<>> /\ ~Working(c)')
    BY <2>7, EmptyPart
  <2>. HIDE DEF a, h, b, g, yy, zz, xx
  <2>13. /\ Cat(Cat(a, yy), zz) = Cat(a, Cat(yy, zz))
         /\ Cat(Cat(xx, b), zz) = Cat(xx, Cat(b, zz)) /\ b \o <<>> = b
    BY <1>2, <2>9, <2>11, WordsJoin, WordConcat
  <2>14. a \o h = xx \o (b \o zz)
    BY <2>8, <2>9, <2>10, <2>11, <2>13, Zenon DEF Cat
  <2>15. CASE g = zz
    BY <1>1, <2>11, <2>14, <2>15, Zenon DEF EndsWith
  <2>16. CASE g = <<>> /\ ~Working(c)'
    <3>1. Lost(c)
      BY <2>16 DEF Lost
    <3>2. a \o h = xx \o ((b \o g) \o zz)
      BY <2>13, <2>14, <2>16, Zenon
    <3>. QED BY <1>1, <2>9, <2>11, <3>1, <3>2, Zenon DEF EndsWith
  <2>. QED BY <2>12, <2>15, <2>16, Zenon
<1>. QED BY <1>3, <1>4 DEF TakesNothing, Drops

(* Nothing that thread c received so far was dropped.                      *)
Intact(c) == Working(c) /\ ~self[c].found_ioctl_cmd /\ robbed = {} /\ ~self[c].failed

OwnSocket(c) == pc[c] = "receiving" /\ robbed = {} => self[c].conn = c

(* The server has taken the first p bytes of the data of c.                *)
TakenTo(c, p) ==
    /\ \E n \in p..Len(Stream[c]) : sent[c] = Between(c, p, n)
    /\ Unserved(c) => p = 0
    /\ p >= Len(Packet(c)) => ~MayReceive(c)

(* Of the packet in them, the device and the thread have the characters in *)
(* their order, or the last of them without a gap.                         *)
Progress(c, p) ==
    /\ TakenTo(c, p)
    /\ IsSubsequence(OnItsWay(c), OwnPart(c, Passed(c, p)))
    /\ Intact(c) => /\ EndsWith(OwnPart(c, Passed(c, p)), OnItsWay(c))
                    /\ self[c].newline => p >= Len(Packet(c))

Progresses(c) == OthersFreeOf(c) /\ OwnSocket(c) /\ \E p \in 0..Len(Stream[c]) : Progress(c, p)

LEMMA PassedOwn ==
    ASSUME NEW c \in Client, NEW p \in Nat
    PROVE  OwnPart(c, Passed(c, p)) \in Word
<1>1. Passed(c, p) \in Word
  BY PassedTyped
<1>. QED BY <1>1, OwnConcat

(* What is the end of a text that comes in its order in another does, too. *)
LEMMA SubsequenceOfEnd ==
    ASSUME NEW t \in Word, NEW s \in Word, NEW r \in Word, IsSubsequence(s, t), EndsWith(s, r)
    PROVE  IsSubsequence(r, t)
<1>1. PICK x \in Word : s = x \o r
  BY DEF EndsWith
<1>2. IsSubsequence(x \o r, t)
  BY <1>1
<1>. QED BY <1>2, SubsequenceParts DEF Word

LEMMA SubsequenceOfBegin ==
    ASSUME NEW t \in Word, NEW s \in Word, NEW h \in Word, IsSubsequence(s \o h, t)
    PROVE  IsSubsequence(s, t)
BY SubsequenceParts DEF Word

LEMMA TakesNoMore ==
    ASSUME NEW c \in Client, TakesNothing(c), NEW p \in 0..Len(Stream[c]), TakenTo(c, p)
    PROVE  TakenTo(c, p)'
<1>1. p \in Nat /\ Stream[c] \in Seq(Letter) /\ Len(Stream[c]) \in Nat
  BY PacketBounds
<1>3. \E n \in p..Len(Stream[c]) : sent'[c] = Between(c, p, n)
  <2>1. PICK n \in p..Len(Stream[c]) : sent[c] = Between(c, p, n)
    BY DEF TakenTo
  <2>2. PICK k \in 0..Len(sent[c]) : sent'[c] = SubSeq(sent[c], 1, k)
    BY DEF TakesNothing
  <2>. DEFINE s == Stream[c]
  <2>3. n \in 0..Len(s) /\ p \in 0..n
    BY <1>1
  <2>. HIDE DEF s
  <2>31. 0 \in 0..(n - p)
    BY <2>3
  <2>4. Len(SubSeq(s, p + 1, n)) = n - p
    BY <1>1, <2>3, <2>31, PieceWithin DEF s
  <2>5. k \in 0..(n - p) /\ 0 \in 0..k
    BY <2>1, <2>2, <2>4 DEF Between, s
  <2>6. SubSeq(SubSeq(s, p + 1, n), 0 + 1, k) = SubSeq(s, (p + 0) + 1, p + k)
    BY <1>1, <2>3, <2>5, PieceWithin DEF s
  <2>7. 0 + 1 = 1 /\ p + 0 = p /\ p + k \in p..Len(s)
    BY <1>1, <2>3, <2>5 DEF s
  <2>8. sent'[c] = Between(c, p, p + k)
    BY <2>1, <2>2, <2>6, <2>7 DEF Between, s
  <2>. QED BY <2>7, <2>8 DEF s
<1>4. (Unserved(c)' => p = 0) /\ (p >= Len(Packet(c)) => ~MayReceive(c)')
  BY DEF TakenTo, TakesNothing
<1>. QED BY <1>3, <1>4 DEF TakenTo, Between, Packet

LEMMA ProgressOn ==
    ASSUME Texts, Texts', NEW c \in Client, TakesNothing(c), NEW p \in 0..Len(Stream[c]), Progress(c, p)
    PROVE  Progress(c, p)'
<1>. DEFINE t == OwnPart(c, Passed(c, p))
            w == OnItsWay(c)
            v == OnItsWay(c)'
<1>1. p \in Nat /\ t \in Word /\ w \in Word /\ Stream[c] \in Seq(Letter) /\ Len(Stream[c]) \in Nat
  BY PassedOwn, WayTyped, PacketBounds
<1>2. v \in Word
  <2>1. OnDevice' \in Word
    BY DeviceTypedNext
  <2>2. InHand(c)' \in Word
    <3>1. CASE pc'[c] \in {"lock", "write"}
      BY <3>1 DEF InHand, Texts, LocalsHeld, Working
    <3>2. CASE pc'[c] \notin {"lock", "write"}
      BY <3>2, EmptyPart DEF InHand
    <3>. QED BY <3>1, <3>2
  <2>3. OwnPart(c, OnDevice') \in Word /\ OwnPart(c, InHand(c)') \in Word
    BY <2>1, <2>2, OwnConcat
  <2>4. v = OwnPart(c, OnDevice') \o OwnPart(c, InHand(c)')
    BY DEF OnItsWay
  <2>. QED BY <2>3, <2>4, ConcatWords
<1>3. TakenTo(c, p)'
  BY TakesNoMore DEF Progress
<1>5. IsSubsequence(w, t)
  BY DEF Progress
<1>. HIDE DEF t, w, v
<1>6. IsSubsequence(v, t)
  <2>1. CASE EndsWith(w, v)
    BY <1>1, <1>2, <1>5, <2>1, SubsequenceOfEnd
  <2>2. ASSUME NEW h \in Word, EndsWith(w, v \o h)
        PROVE  IsSubsequence(v, t)
    <3>1. v \o h \in Word
      BY <1>2, ConcatWords
    <3>2. IsSubsequence(v \o h, t)
      BY <1>1, <1>5, <2>2, <3>1, SubsequenceOfEnd
    <3>. QED BY <1>1, <1>2, <3>2, SubsequenceOfBegin
  <2>. QED BY <2>1, <2>2, WayGoesOn DEF w, v
<1>7. ASSUME Intact(c)'
      PROVE  EndsWith(t, v) /\ (self'[c].newline => p >= Len(Packet(c)))
  <2>1. robbed = {} /\ GoesOn(c) /\ ~Lost(c) /\ ~self'[c].found_ioctl_cmd /\ ~self'[c].failed
    BY <1>7 DEF Intact, TakesNothing, Lost, Working
  <2>2. EndsWith(w, v)
    BY <2>1, WayGoesOn DEF w, v
  <2>3. CASE Working(c) /\ self'[c].newline = self[c].newline /\ ~self[c].found_ioctl_cmd
             /\ ~self[c].failed
    <3>1. EndsWith(t, w) /\ (self[c].newline => p >= Len(Packet(c)))
      BY <2>1, <2>3 DEF Progress, Intact, t, w
    <3>. QED BY <1>1, <1>2, <2>2, <2>3, <3>1, EndsFurther
  <2>4. CASE Unserved(c) /\ ~self'[c].newline
    <3>1. p = 0
      BY <2>4 DEF Progress, TakenTo
    <3>2. UpTo(c, p) = 0
      BY <3>1, PacketBounds DEF UpTo
    <3>3. Passed(c, p) = <<>>
      BY <1>1, <3>2, SubSeqEmpty DEF Passed
    <3>4. t = <<>>
      BY <3>3, EmptyPart DEF t
    <3>5. v = <<>>
      BY <1>2, <1>6, <3>4, SubsequenceOfEmpty DEF Word
    <3>. QED BY <1>2, <2>4, <3>4, <3>5, EndsItself
  <2>. QED BY <2>1, <2>3, <2>4, Zenon DEF GoesOn
<1>. QED BY <1>3, <1>6, <1>7 DEF Progress, t, v, OwnPart, Own, Passed, UpTo, Packet

(* Thread c receives: more of its client's packet, or clean text.          *)
LEMMA TakesParts ==
    ASSUME ServerInv, Texts, NEW c \in Client, Takes(c)
    PROVE  \E o \in Client : \E k \in 1..Len(sent[o]) :
               /\ pc[c] = "receiving" /\ pc'[c] = "lock" /\ o = self[c].conn
               /\ sent' = [sent EXCEPT ![o] = SubSeq(@, k + 1, Len(@))]
               /\ self'[c].newString = extract_data_up_to_newline(SubSeq(sent[o], 1, k))
               /\ self'[c].newline = new_line_found(SubSeq(sent[o], 1, k))
               /\ self'[c].found_ioctl_cmd = self[c].found_ioctl_cmd
               /\ self'[c].failed = self[c].failed
               /\ UNCHANGED <<lines, partial, robbed, client, main, accepted>>
               /\ ~Unserved(c) /\ ~Unserved(c)' /\ MayReceive(c)
<1>1. pc[c] = "receiving" /\ UNCHANGED <<client, main, accepted>>
  BY DEF Takes
<1>2. ~Unserved(c)
  BY <1>1 DEF Unserved, ServerInv, Accounts, StreamInv, OneThreadPerClient
<1>3. ~Unserved(c)' /\ MayReceive(c)
  BY <1>1, <1>2 DEF Unserved, MayReceive
<1>. QED BY <1>2, <1>3, Zenon DEF Takes

LEMMA TakesMore ==
    ASSUME ServerInv, Texts, NEW c \in Client, Takes(c), self[c].conn = c,
           NEW p \in 0..Len(Stream[c]), TakenTo(c, p)
    PROVE  /\ p \in 0..(Len(Packet(c)) - 1)
           /\ \E q \in (p + 1)..Len(Stream[c]) :
                 /\ TakenTo(c, q)'
                 /\ self'[c].newString = extract_data_up_to_newline(Between(c, p, q))
                 /\ self'[c].newline = new_line_found(Between(c, p, q))
<1>. DEFINE s == Stream[c]
            m == Len(Packet(c))
<1>1. PICK k \in 1..Len(sent[c]) :
          /\ pc'[c] = "lock" /\ sent' = [sent EXCEPT ![c] = SubSeq(@, k + 1, Len(@))]
          /\ self'[c].newString = extract_data_up_to_newline(SubSeq(sent[c], 1, k))
          /\ self'[c].newline = new_line_found(SubSeq(sent[c], 1, k))
          /\ ~Unserved(c)' /\ MayReceive(c)
  <2>1. PICK o \in Client : \E k \in 1..Len(sent[o]) :
            /\ pc'[c] = "lock" /\ o = self[c].conn
            /\ sent' = [sent EXCEPT ![o] = SubSeq(@, k + 1, Len(@))]
            /\ self'[c].newString = extract_data_up_to_newline(SubSeq(sent[o], 1, k))
            /\ self'[c].newline = new_line_found(SubSeq(sent[o], 1, k))
            /\ ~Unserved(c)' /\ MayReceive(c)
    BY TakesParts
  <2>2. o = c
    BY <2>1
  <2>. QED BY <2>1, <2>2
<1>2. /\ s \in Seq(Letter) /\ Len(s) \in Nat /\ m \in 1..Len(s)
      /\ sent \in [Client -> Word] /\ p \in Nat
  BY PacketBounds DEF Texts
<1>3. p < m
  BY <1>1, <1>2 DEF TakenTo
<1>4. PICK n \in p..Len(s) : sent[c] = Between(c, p, n)
  BY DEF TakenTo
<1>. HIDE DEF s, m
<1>5. n \in 0..Len(s) /\ p \in 0..n /\ 0 \in 0..(n - p)
  BY <1>2, <1>4
<1>6. Len(SubSeq(s, p + 1, n)) = n - p
  BY <1>2, <1>5, PieceWithin
<1>7. Len(sent[c]) = n - p /\ k \in 1..(n - p)
  BY <1>1, <1>4, <1>6 DEF Between, s
<1>8. k \in 0..(n - p) /\ 0 \in 0..k /\ n - p \in 0..(n - p)
  BY <1>2, <1>5, <1>7
<1>9. SubSeq(SubSeq(s, p + 1, n), 0 + 1, k) = SubSeq(s, (p + 0) + 1, p + k)
  BY <1>2, <1>5, <1>8, PieceWithin
<1>10. SubSeq(SubSeq(s, p + 1, n), k + 1, n - p) = SubSeq(s, (p + k) + 1, p + (n - p))
  <2>. DEFINE j == n - p
  <2>1. j \in 0..(n - p) /\ k \in 0..j
    BY <1>8
  <2>. HIDE DEF j
  <2>2. SubSeq(SubSeq(s, p + 1, n), k + 1, j) = SubSeq(s, (p + k) + 1, p + j)
    BY <1>2, <1>5, <2>1, PieceWithin
  <2>. QED BY <2>2 DEF j
<1>. DEFINE q == p + k
<1>11. q \in (p + 1)..Len(s) /\ n \in q..Len(s) /\ q \in Nat /\ p \in 0..(m - 1)
      /\ 0 + 1 = 1 /\ p + 0 = p /\ p + (n - p) = n
  BY <1>2, <1>3, <1>5, <1>7
<1>12. SubSeq(sent[c], 1, k) = Between(c, p, q) /\ sent'[c] = Between(c, q, n)
  <2>1. SubSeq(sent[c], 1, k) = SubSeq(s, p + 1, p + k)
    BY <1>4, <1>9, <1>11 DEF Between, s
  <2>2. SubSeq(sent[c], k + 1, Len(sent[c])) = SubSeq(s, (p + k) + 1, n)
    BY <1>4, <1>7, <1>10, <1>11 DEF Between, s
  <2>3. sent'[c] = SubSeq(sent[c], k + 1, Len(sent[c]))
    BY <1>1, <1>2
  <2>. QED BY <2>1, <2>2, <2>3 DEF Between, s
<1>. HIDE DEF q
<1>13. new_line_found(Between(c, p, q)) <=> q >= m
  BY <1>11, PieceReceived DEF s, m
<1>14. TakenTo(c, q)'
  <2>1. q >= m => self'[c].newline
    BY <1>1, <1>12, <1>13
  <2>2. q >= m => ~MayReceive(c)'
    BY <1>1, <2>1 DEF MayReceive
  <2>3. \E j \in q..Len(s) : sent'[c] = Between(c, q, j)
    BY <1>11, <1>12
  <2>. QED BY <1>1, <2>2, <2>3, ZenonT(60) DEF TakenTo, Packet, Between, s, m
<1>. QED BY <1>1, <1>11, <1>12, <1>14 DEF s, m

LEMMA TakesOther ==
    ASSUME ServerInv, Texts, NEW c \in Client, Takes(c), self[c].conn # c,
           NEW p \in 0..Len(Stream[c]), TakenTo(c, p)
    PROVE  TakenTo(c, p)' /\ self'[c].newString \in Word /\ Clean(c, self'[c].newString)
<1>1. PICK o \in Client, k \in 1..Len(sent[self[c].conn]) :
          /\ o = self[c].conn /\ sent' = [sent EXCEPT ![o] = SubSeq(@, k + 1, Len(@))]
          /\ self'[c].newString = extract_data_up_to_newline(SubSeq(sent[o], 1, k))
          /\ ~Unserved(c)' /\ MayReceive(c)
  BY TakesParts
<1>2. o # c /\ k \in 1..Len(sent[o])
  BY <1>1
<1>3. sent[o] \in Word /\ k \in 0..Len(sent[o]) /\ ToSet(sent[o]) \subseteq ToSet(Stream[o])
  <2>1. sent \in [Client -> Word] /\ \A x \in Client : ToSet(sent[x]) \subseteq ToSet(Stream[x])
    BY Zenon DEF Texts
  <2>2. sent[o] \in Word /\ ToSet(sent[o]) \subseteq ToSet(Stream[o])
    BY <2>1, Zenon
  <2>3. Len(sent[o]) \in Nat
    BY <2>2 DEF Word
  <2>4. k \in 0..Len(sent[o])
    BY <1>2, <2>3
  <2>. QED BY <2>2, <2>4
<1>. DEFINE e == extract_data_up_to_newline(SubSeq(sent[o], 1, k))
<1>4. /\ SubSeq(sent[o], 1, k) \in Word
      /\ ToSet(SubSeq(sent[o], 1, k)) \subseteq ToSet(sent[o])
  BY <1>3, CutOff
<1>5. e \in Word /\ ToSet(e) \subseteq ToSet(Stream[o])
  BY <1>3, <1>4, Extract
<1>6. Clean(c, e)
  BY <1>2, <1>5 DEF Clean, Own
<1>. HIDE DEF e
<1>7. sent'[c] = sent[c]
  BY <1>1, <1>2 DEF Texts
<1>8. TakenTo(c, p)'
  <2>1. \E n \in p..Len(Stream[c]) : sent'[c] = Between(c, p, n)
    BY <1>7 DEF TakenTo
  <2>2. ~(p >= Len(Packet(c)))
    BY <1>1 DEF TakenTo
  <2>. QED BY <1>1, <2>1, <2>2 DEF TakenTo, Between, Packet
<1>. QED BY <1>1, <1>5, <1>6, <1>8 DEF e

LEMMA ProgressTaken ==
    ASSUME ServerInv, Texts, NEW c \in Client, OwnSocket(c), Takes(c),
           NEW p \in 0..Len(Stream[c]), Progress(c, p)
    PROVE  \E q \in 0..Len(Stream[c]) : Progress(c, q)'
<1>. DEFINE m == Len(Packet(c))
            d == OwnPart(c, OnDevice)
            e == self'[c].newString
            t == OwnPart(c, Passed(c, p))
<1>1. /\ pc[c] = "receiving" /\ pc'[c] = "lock"
      /\ self'[c].found_ioctl_cmd = self[c].found_ioctl_cmd /\ self'[c].failed = self[c].failed
      /\ UNCHANGED <<lines, partial, robbed>>
  BY TakesParts
<1>2. d \in Word /\ OnDevice \in Word /\ p \in Nat /\ Len(Stream[c]) \in Nat
  BY WayTyped, PacketBounds
<1>3. IsSubsequence(OnItsWay(c), t) /\ OnItsWay(c) = d /\ TakenTo(c, p)
  <2>1. InHand(c) = <<>>
    BY <1>1 DEF InHand
  <2>2. OnItsWay(c) = d
    BY <1>2, <2>1, EmptyPart, WordConcat DEF OnItsWay
  <2>. QED BY <2>2 DEF Progress
<1>4. OnItsWay(c)' = d \o OwnPart(c, e)
  <2>1. InHand(c)' = e
    BY <1>1 DEF InHand
  <2>2. OnDevice' = OnDevice
    BY <1>1 DEF OnDevice, Contents
  <2>3. OnItsWay(c)' = OwnPart(c, OnDevice') \o OwnPart(c, InHand(c)')
    BY DEF OnItsWay, OwnPart, Own
  <2>. QED BY <2>1, <2>2, <2>3
<1>5. t \in Word
  BY <1>2, PassedOwn
<1>6. CASE self[c].conn = c
  <2>0. PICK q \in (p + 1)..Len(Stream[c]) :
            /\ p \in 0..(m - 1) /\ TakenTo(c, q)'
            /\ e = extract_data_up_to_newline(Between(c, p, q))
            /\ self'[c].newline = new_line_found(Between(c, p, q))
    BY <1>3, <1>6, TakesMore
  <2>10. self'[c].newline <=> q >= m
    BY <2>0, PieceReceived
  <2>11. Passed(c, q) = Passed(c, p) \o e /\ e \in Word /\ Passed(c, p) \in Word
    BY <2>0, PassedOn, ZenonT(40)
  <2>1. q \in 0..Len(Stream[c])
    BY <1>2, <2>0
  <2>. HIDE DEF m
  <2>12. OwnPart(c, Passed(c, q)) = t \o OwnPart(c, e) /\ OwnPart(c, e) \in Word
    <3>. DEFINE a == Passed(c, p)
    <3>. HIDE DEF e, a
    <3>1. a \in Word /\ e \in Word /\ Passed(c, q) = a \o e
      BY <2>11 DEF a
    <3>2. OwnPart(c, a \o e) = OwnPart(c, a) \o OwnPart(c, e) /\ OwnPart(c, e) \in Word
      BY <3>1, OwnConcat
    <3>. QED BY <3>1, <3>2, Zenon DEF a, t
  <2>. DEFINE z == OwnPart(c, e)
  <2>. HIDE DEF t, d, z
  <2>13. IsSubsequence(d \o z, t \o z)
    BY <1>2, <1>3, <1>5, <2>12, SubsequenceGrows DEF t, z, Word
  <2>14. ASSUME Intact(c)'
         PROVE  EndsWith(t \o z, d \o z) /\ (self'[c].newline => q >= m)
    <3>1. Intact(c)
      BY <1>1, <2>14 DEF Intact, Working
    <3>2. EndsWith(t, d)
      BY <1>3, <3>1 DEF Progress, t
    <3>3. PICK x \in Word : t = x \o d
      BY <3>2 DEF EndsWith
    <3>4. Cat(Cat(x, d), z) = Cat(x, Cat(d, z))
      BY <1>2, <2>12, <3>3, WordsJoin DEF z
    <3>5. t \o z = x \o (d \o z)
      BY <3>3, <3>4, Zenon DEF Cat
    <3>. QED BY <2>10, <3>3, <3>5 DEF EndsWith
  <2>15. Progress(c, q)'
    <3>1. OnItsWay(c)' = d \o z /\ OwnPart(c, Passed(c, q)) = t \o z
      BY <1>4, <2>12 DEF z
    <3>. QED BY <2>0, <2>13, <2>14, <3>1, ZenonT(60)
         DEF Progress, OwnPart, Own, Passed, UpTo, Packet, m
  <2>. QED BY <2>1, <2>15
<1>7. CASE self[c].conn # c
  <2>1. TakenTo(c, p)' /\ e \in Word /\ Clean(c, e)
    BY <1>3, <1>7, TakesOther
  <2>. HIDE DEF d, e
  <2>2. OwnPart(c, e) = <<>>
    BY <2>1, CleanPart
  <2>3. OnItsWay(c)' = OnItsWay(c)
    BY <1>2, <1>3, <1>4, <2>2, WordConcat
  <2>4. ~Intact(c)'
    BY <1>1, <1>7 DEF OwnSocket, Intact
  <2>5. Progress(c, p)'
    BY <1>3, <2>1, <2>3, <2>4 DEF Progress, OwnPart, Own, Passed, UpTo, Packet
  <2>. QED BY <2>5
<1>. QED BY <1>6, <1>7

LEMMA OwnSocketNext ==
    ASSUME NEW c \in Client, OwnSocket(c), TakesNothing(c) \/ Takes(c)
    PROVE  OwnSocket(c)'
<1>1. CASE Takes(c)
  BY <1>1 DEF Takes, OwnSocket
<1>2. CASE TakesNothing(c)
  BY <1>2 DEF TakesNothing, GoesOn, OwnSocket, Working
<1>. QED BY <1>1, <1>2

LEMMA ProgressNext ==
    ASSUME ServerInv, Texts, Texts', NEW c \in Client, c \notin crossed', Progresses(c), Next
    PROVE  Progresses(c)'
<1>1. OthersFreeOf(c) /\ OwnSocket(c)
  BY DEF Progresses
<1>2. OthersFreeOf(c)'
  BY <1>1, OthersNext
<1>3. TakesNothing(c) \/ Takes(c)
  BY <1>1, ClientSteps
<1>4. OwnSocket(c)'
  BY <1>1, <1>3, OwnSocketNext
<1>5. PICK p \in 0..Len(Stream[c]) : Progress(c, p)
  BY DEF Progresses
<1>6. \E q \in 0..Len(Stream[c]) : Progress(c, q)'
  BY <1>1, <1>3, <1>5, ProgressOn, ProgressTaken
<1>. QED BY <1>2, <1>4, <1>6 DEF Progresses

(* What the device holds at first did not come from the clients.           *)
StoredByOthers == \A c \in Client : \A i \in 1..Len(Stored) : Clean(c, Stored[i])

LEMMA ProgressInit ==
    ASSUME StoredByOthers, Init, NEW c \in Client
    PROVE  Progresses(c)
<1>1. /\ lines = Stored /\ partial = <<>> /\ sent = Stream /\ robbed = {}
      /\ \A d \in Client : pc[d] = "none" /\ client[d] = "new"
  BY DEF Init
<1>2. Stream[c] \in Seq(Letter) /\ Len(Stream[c]) \in Nat /\ Len(Packet(c)) \in 1..Len(Stream[c])
  BY PacketBounds
<1>3. OwnPart(c, OnDevice) = <<>>
  <2>1. Stored \in Seq(Seq(Letter)) /\ \A i \in 1..Len(Stored) : Stored[i] \in Word
    BY StreamTyped DEF Word
  <2>2. \A i \in 1..Len(Stored) : Avoids(Stored[i], Own(c))
    BY <2>1, CleanAvoids DEF StoredByOthers
  <2>3. Avoids(FlattenSeq(Stored), Own(c)) /\ FlattenSeq(Stored) \in Word
    BY <2>1, <2>2, FlattenAvoids, FlattenTyped DEF Word
  <2>4. OnDevice = FlattenSeq(Stored)
    BY <1>1, <2>3, WordConcat DEF OnDevice, Contents
  <2>. QED BY <2>3, <2>4, CleanAvoids, CleanPart
<1>4. OnItsWay(c) = <<>>
  <2>1. InHand(c) = <<>>
    BY <1>1 DEF InHand
  <2>. QED BY <1>3, <2>1, EmptyPart, WordConcat DEF OnItsWay
<1>5. sent[c] = Between(c, 0, Len(Stream[c]))
  BY <1>1, <1>2 DEF Between
<1>6. ~Working(c) /\ Unserved(c) /\ Len(Stream[c]) \in 0..Len(Stream[c]) /\ ~(0 >= Len(Packet(c)))
  BY <1>1, <1>2 DEF Working, Unserved
<1>7. Progress(c, 0)
  <2>1. IsSubsequence(OnItsWay(c), OwnPart(c, Passed(c, 0)))
    BY <1>4, SubsequenceOfAny
  <2>. QED BY <1>5, <1>6, <2>1 DEF Progress, TakenTo, Intact
<1>8. OthersFreeOf(c) /\ OwnSocket(c)
  BY <1>1 DEF OthersFreeOf, OwnSocket, Working
<1>. QED BY <1>2, <1>7, <1>8 DEF Progresses

(* What was received is stored in its order, and to its end.               *)
LEMMA ProgressStored ==
    ASSUME Texts, NEW c \in Client, Progresses(c)
    PROVE  LET stored == OwnPart(c, Contents \o partial)
               packet == OwnPart(c, Packet(c))
           IN  /\ IsSubsequence(stored, packet)
               /\ /\ pc[c] \in {"lockread", "fread", "closeread", "send"}
                  /\ self[c].newline /\ ~self[c].found_ioctl_cmd /\ robbed = {} /\ ~self[c].failed
                  => IsSuffix(stored, packet)
<1>. DEFINE stored == OwnPart(c, OnDevice)
            hand == OwnPart(c, InHand(c))
            packet == OwnPart(c, Packet(c))
<1>1. PICK p \in 0..Len(Stream[c]) : Progress(c, p)
  BY DEF Progresses
<1>2. p \in Nat /\ stored \in Word /\ hand \in Word /\ OnItsWay(c) = stored \o hand
  BY WayTyped, PacketBounds DEF OnItsWay
<1>. DEFINE t == OwnPart(c, Passed(c, p))
<1>3. PICK x \in Word : Packet(c) = Passed(c, p) \o x
  BY <1>2, PassedTyped
<1>4. packet = t \o OwnPart(c, x) /\ t \in Word /\ OwnPart(c, x) \in Word /\ packet \in Word
  <2>1. Passed(c, p) \in Word /\ Packet(c) \in Word
    BY <1>2, PassedTyped, PacketExtracted
  <2>2. OwnPart(c, Passed(c, p) \o x) = t \o OwnPart(c, x) /\ t \in Word /\ OwnPart(c, x) \in Word
    <3>. DEFINE a == Passed(c, p)
    <3>. HIDE DEF a
    <3>1. a \in Word
      BY <2>1 DEF a
    <3>2. OwnPart(c, a \o x) = OwnPart(c, a) \o OwnPart(c, x) /\ OwnPart(c, a) \in Word /\ OwnPart(c, x) \in Word
      BY <1>3, <3>1, OwnConcat
    <3>. QED BY <3>2 DEF a
  <2>3. packet \in Word
    BY <2>1, OwnConcat
  <2>. QED BY <1>3, <2>2, <2>3, Zenon
<1>. HIDE DEF stored, hand, packet, t
<1>5. IsSubsequence(stored, packet)
  <2>1. IsSubsequence(stored \o hand, t)
    BY <1>1, <1>2 DEF Progress, t
  <2>2. IsSubsequence(stored, t)
    BY <1>2, <1>4, <2>1, SubsequenceOfBegin
  <2>3. IsSubsequence(stored, t \o OwnPart(c, x))
    BY <1>2, <1>4, <2>2, SubsequenceOfLonger DEF Word
  <2>. QED BY <1>4, <2>3
<1>6. ASSUME pc[c] \in {"lockread", "fread", "closeread", "send"},
             self[c].newline, ~self[c].found_ioctl_cmd, robbed = {}, ~self[c].failed
      PROVE  IsSuffix(stored, packet)
  <2>1. Intact(c) /\ hand = <<>>
    BY <1>6, EmptyPart DEF Intact, Working, InHand, hand
  <2>2. EndsWith(t, OnItsWay(c)) /\ p >= Len(Packet(c))
    BY <1>1, <1>6, <2>1 DEF Progress, t
  <2>3. Passed(c, p) = Packet(c)
    <3>1. UpTo(c, p) = Len(Packet(c))
      BY <1>2, <2>2, PacketBounds DEF UpTo
    <3>. QED BY <3>1, PacketBounds DEF Passed
  <2>4. OnItsWay(c) = stored
    BY <1>2, <2>1, WordConcat
  <2>5. EndsWith(packet, stored)
    BY <2>2, <2>3, <2>4 DEF t, packet
  <2>. QED BY <1>2, <2>5, EndsAsSuffix
<1>. QED BY <1>5, <1>6, Zenon DEF stored, packet, OnDevice

OrderInv == ServerInv /\ Texts /\ \A c \in Client \ crossed : Progresses(c)

LEMMA OrderStutters ==
    ASSUME UNCHANGED vars
    PROVE  /\ UNCHANGED <<lines, partial, fds, robbed, file, pc, self, sent, client, main, accepted, crossed>>
           /\ \A c \in Client : Progresses(c) => Progresses(c)'
<1>1. UNCHANGED <<lines, partial, fds, robbed, file, pc, self, sent, client, main, accepted, crossed>>
  BY Zenon DEF vars, device, threads, locals, network, mainVars
<1>2. ASSUME NEW c \in Client, Progresses(c)
      PROVE  Progresses(c)'
  <2>1. OthersFreeOf(c)' /\ OwnSocket(c)'
    BY <1>1, <1>2 DEF Progresses, OthersFreeOf, OwnSocket, Working, Clean, Own
  <2>2. OnDevice' = OnDevice /\ InHand(c)' = InHand(c)
    BY <1>1 DEF OnDevice, Contents, InHand
  <2>3. OnItsWay(c)' = OnItsWay(c)
    BY <2>2 DEF OnItsWay, OwnPart, Own
  <2>4. (Unserved(c)' <=> Unserved(c)) /\ (MayReceive(c)' <=> MayReceive(c)) /\ (Intact(c)' <=> Intact(c))
    BY <1>1 DEF Unserved, MayReceive, Intact, Working
  <2>5. PICK p \in 0..Len(Stream[c]) : Progress(c, p)
    BY <1>2 DEF Progresses
  <2>6. /\ (\E n \in p..Len(Stream[c]) : sent'[c] = Between(c, p, n))
        /\ self'[c].newline = self[c].newline
    BY <1>1, <2>5 DEF Progress, TakenTo
  <2>7. Progress(c, p)'
    BY <2>3, <2>4, <2>5, <2>6 DEF Progress, TakenTo, OwnPart, Own, Passed, UpTo, Packet, Between
  <2>. QED BY <2>1, <2>7 DEF Progresses
<1>. QED BY <1>1, <1>2

(* For any number of clients: what the device has of a client's packet is  *)
(* in the order it was sent, over signals, crashes, restarts and writes    *)
(* that fail; and it goes to the packet's end without a gap once the       *)
(* thread has left the receive loop, if no write of the thread failed.     *)
THEOREM StoredInOrder == ASSUME StoredByOthers PROVE Spec => []PacketsStored
<1>1. Init => OrderInv
  BY ServerInit, TextsInit, ProgressInit DEF OrderInv
<1>2. ASSUME OrderInv, [Next]_vars
      PROVE  OrderInv'
  <2>1. ServerInv'
    BY <1>2, ServerNext DEF OrderInv
  <2>2. CASE Next
    <3>1. TextStep
      BY <1>2, <2>2, TextSteps DEF OrderInv
    <3>2. Texts'
      BY <1>2, <3>1, TextsNext DEF OrderInv
    <3>3. ASSUME NEW c \in Client \ crossed'
          PROVE  Progresses(c)'
      <4>1. c \notin crossed
        BY <2>2, <3>3, CrossedStays
      <4>. QED BY <1>2, <2>2, <3>2, <3>3, <4>1, ProgressNext DEF OrderInv
    <3>. QED BY <2>1, <3>2, <3>3 DEF OrderInv
  <2>3. CASE UNCHANGED vars
    <3>1. Texts'
      BY <1>2, <2>3, TextStutters DEF OrderInv
    <3>2. crossed' = crossed /\ \A c \in Client : Progresses(c) => Progresses(c)'
      BY <2>3, OrderStutters
    <3>. QED BY <1>2, <2>1, <3>1, <3>2 DEF OrderInv
  <2>. QED BY <1>2, <2>2, <2>3
<1>3. OrderInv => PacketsStored
  BY ProgressStored, Zenon DEF OrderInv, PacketsStored
<1>. QED BY <1>1, <1>2, <1>3, PTL DEF Spec

(* Thread c has its client's packet, and nothing of it was dropped.        *)
Whole(c) == Intact(c) /\ self[c].newline

(* What it does with the packet until the reply is sent: once the packet   *)
(* is written it is in lines of the device, of which the reply has the     *)
(* end.                                                                    *)
Answering(c) ==
    /\ OthersFreeOf(c) /\ OwnSocket(c)
    /\ pc[c] \in {"recv", "receiving"} => ~self[c].newline
    /\ pc[c] = "ioctl" => self[c].found_ioctl_cmd
    /\ Whole(c) =>
          /\ pc[c] \in {"lock", "write"} => self[c].newString[Len(self[c].newString)] = NL
          /\ pc[c] \in {"unlock", "lockread", "fread", "closeread", "send"} => Clean(c, partial)
          /\ pc[c] = "fread" => self[c].pos = 0
          /\ /\ pc[c] \in {"closeread", "send"}
             /\ self[c].contents # NULL /\ Len(self[c].contents) < BUFFER_SIZE
             => EndsWith(OwnPart(c, self[c].contents), OwnPart(c, Contents))

(* A write that is not of c, when no text of c waits for its newline.      *)
LEMMA ContentsOwn ==
    ASSUME Texts, Texts', NEW c \in Client, NotMine(c), Clean(c, partial)
    PROVE  /\ Clean(c, partial')
           /\ OwnPart(c, Contents) \in Word /\ OwnPart(c, Contents') \in Word
           /\ EndsWith(OwnPart(c, Contents), OwnPart(c, Contents'))
<1>1. Contents \in Word /\ Contents' \in Word /\ partial \in Word
  <2>1. lines' \in Seq(Seq(Letter)) /\ partial \in Word
    BY DEF Texts, Word
  <2>2. FlattenSeq(lines') \in Word
    BY <2>1, FlattenTyped DEF Word
  <2>. QED BY <2>1, <2>2, DeviceTyped DEF Contents
<1>2. OwnPart(c, Contents) \in Word /\ OwnPart(c, Contents') \in Word
  BY <1>1, OwnConcat
<1>3. CASE UNCHANGED <<lines, partial>>
  <2>1. Contents' = Contents
    BY <1>3 DEF Contents
  <2>. QED BY <1>2, <1>3, <2>1, EndsItself
<1>4. ASSUME NEW s \in Word, Clean(c, s), Device!Accept(s, Len(s))
      PROVE  Clean(c, partial') /\ EndsWith(OwnPart(c, Contents), OwnPart(c, Contents'))
  <2>1. partial \o s \in Word /\ Clean(c, partial \o s) /\ Clean(c, <<>>)
    <3>1. Clean(c, <<>>)
      BY DEF Clean, ToSet
    <3>. QED BY <1>1, <1>4, <3>1, ConcatWords
  <2>2. CASE Contents' = Contents /\ partial' = partial \o s
    <3>1. OwnPart(c, Contents') = OwnPart(c, Contents)
      BY <2>2
    <3>. QED BY <1>2, <2>1, <2>2, <3>1, EndsItself
  <2>3. ASSUME partial' = <<>>, NEW x \in Word, Contents \o (partial \o s) = x \o Contents'
        PROVE  Clean(c, partial') /\ EndsWith(OwnPart(c, Contents), OwnPart(c, Contents'))
    <3>. DEFINE b == partial \o s
    <3>1. b \in Word /\ OwnPart(c, b) = <<>>
      BY <2>1, CleanPart
    <3>. HIDE DEF b
    <3>2. OwnPart(c, Contents \o b) = OwnPart(c, Contents) \o OwnPart(c, b)
      BY <1>1, <3>1, OwnConcat
    <3>3. OwnPart(c, x \o Contents') = OwnPart(c, x) \o OwnPart(c, Contents') /\ OwnPart(c, x) \in Word
      BY <1>1, <2>3, OwnConcat
    <3>4. OwnPart(c, Contents) \o <<>> = OwnPart(c, Contents)
      BY <1>2, WordConcat
    <3>5. Contents \o b = x \o Contents'
      BY <2>3 DEF b
    <3>6. OwnPart(c, Contents) = OwnPart(c, x) \o OwnPart(c, Contents')
      BY <3>1, <3>2, <3>3, <3>4, <3>5, Zenon
    <3>. QED BY <2>1, <2>3, <3>3, <3>6 DEF EndsWith
  <2>. QED BY <1>4, <2>2, <2>3, DeviceAccepts
<1>. QED BY <1>2, <1>3, <1>4 DEF NotMine

(* The thread itself does nothing.                                         *)
LEMMA AnsweringRests ==
    ASSUME Texts, Texts', NEW c \in Client, OthersFreeOf(c)', Answering(c), Rests(c)
    PROVE  Answering(c)'
<1>1. pc'[c] = pc[c] /\ self'[c] = self[c] /\ (robbed' = {} => robbed = {}) /\ NotMine(c)
  BY DEF Rests
<1>2. Whole(c)' => Whole(c)
  BY <1>1 DEF Whole, Intact, Working
<1>3. ASSUME Whole(c), pc[c] \in {"unlock", "lockread", "fread", "closeread", "send"}
      PROVE  /\ Clean(c, partial')
             /\ /\ pc[c] \in {"closeread", "send"}
                /\ self[c].contents # NULL /\ Len(self[c].contents) < BUFFER_SIZE
                => EndsWith(OwnPart(c, self[c].contents), OwnPart(c, Contents'))
  <2>1. Clean(c, partial)
    BY <1>3 DEF Answering
  <2>2. /\ Clean(c, partial')
        /\ OwnPart(c, Contents) \in Word /\ OwnPart(c, Contents') \in Word
        /\ EndsWith(OwnPart(c, Contents), OwnPart(c, Contents'))
    BY <1>1, <2>1, ContentsOwn
  <2>3. /\ pc[c] \in {"closeread", "send"}
        /\ self[c].contents # NULL /\ Len(self[c].contents) < BUFFER_SIZE
        => EndsWith(OwnPart(c, self[c].contents), OwnPart(c, Contents))
    BY <1>3 DEF Answering
  <2>. QED BY <2>2, <2>3, EndsFurther
<1>4. OwnSocket(c)'
  BY <1>1 DEF Answering, OwnSocket
<1>. QED BY <1>1, <1>2, <1>3, <1>4 DEF Answering, Clean, Own, OwnPart

LEMMA AnsweringTaken ==
    ASSUME ServerInv, Texts, NEW c \in Client, OthersFreeOf(c)', Takes(c)
    PROVE  Answering(c)'
<1>0. PICK o \in Client : \E k \in 1..Len(sent[o]) :
          /\ pc'[c] = "lock"
          /\ self'[c].newString = extract_data_up_to_newline(SubSeq(sent[o], 1, k))
          /\ self'[c].newline = new_line_found(SubSeq(sent[o], 1, k))
  BY TakesParts
<1>1. PICK k \in 1..Len(sent[o]) :
          /\ pc'[c] = "lock"
          /\ self'[c].newString = extract_data_up_to_newline(SubSeq(sent[o], 1, k))
          /\ self'[c].newline = new_line_found(SubSeq(sent[o], 1, k))
  BY <1>0
<1>. DEFINE buf == SubSeq(sent[o], 1, k)
<1>2. buf \in Word
  <2>1. sent[o] \in Word /\ k \in 0..Len(sent[o])
    BY <1>0, <1>1 DEF Texts, Word
  <2>. QED BY <2>1, CutOff
<1>. HIDE DEF buf
<1>3. ASSUME new_line_found(buf)
      PROVE  LET s == extract_data_up_to_newline(buf) IN s[Len(s)] = NL
  <2>. DEFINE m == Min(NewlineAt(buf))
  <2>0. NewlineAt(buf) \in SUBSET Nat /\ NewlineAt(buf) # {}
    BY <1>3 DEF NewlineAt, new_line_found
  <2>1. m \in NewlineAt(buf)
    BY <2>0, MinValue
  <2>2. extract_data_up_to_newline(buf) = SubSeq(buf, 1, m)
    BY <1>3 DEF extract_data_up_to_newline
  <2>. HIDE DEF m
  <2>3. m \in 1..Len(buf) /\ buf[m] = NL
    BY <2>1 DEF NewlineAt
  <2>4. Len(SubSeq(buf, 1, m)) = m /\ SubSeq(buf, 1, m)[m] = buf[m]
    BY <1>2, <2>3 DEF Word
  <2>. QED BY <2>2, <2>3, <2>4
<1>4. self'[c].newline => self'[c].newString[Len(self'[c].newString)] = NL
  BY <1>1, <1>3 DEF buf
<1>. QED BY <1>1, <1>4 DEF Answering, OwnSocket, Whole

(* The thread has left the loop without a whole packet, or ends.           *)
LEMMA AnsweringNot ==
    ASSUME NEW c \in Client, OthersFreeOf(c)', OwnSocket(c)', ~Whole(c)',
           pc'[c] \in {"recv", "receiving"} => ~self'[c].newline,
           pc'[c] = "ioctl" => self'[c].found_ioctl_cmd
    PROVE  Answering(c)'
BY DEF Answering

(* Thread c writes a piece of the packet, whose last piece ends a line.    *)
LEMMA AnsweringWrite ==
    ASSUME ServerInv, Texts, NEW c \in Client, OthersFreeOf(c)', OwnSocket(c)', Answering(c), Write(c)
    PROVE  Answering(c)'
<1>. DEFINE s == self[c].newString
<1>0. /\ pc \in [Client -> Steps] /\ DOMAIN self = Client /\ Clean(c, <<>>)
      /\ pc[c] = "write" => s \in Word /\ DOMAIN self[c] = LocalNames
  <2>1. pc \in [Client -> Steps] /\ DOMAIN self = Client /\ LocalsHeld(c)
    BY DEF ServerInv, Accounts, StreamInv, DescriptorsTyped, Texts
  <2>2. Clean(c, <<>>)
    BY DEF Clean, ToSet
  <2>. QED BY <2>1, <2>2 DEF LocalsHeld, Working
<1>1. /\ pc[c] = "write" /\ robbed' = robbed
      /\ \/ \E k \in Pieces(s) :
               /\ Device!Accept(Piece(s, k), k)
               /\ self' = [self EXCEPT ![c].newString = Rest(s, k)]
               /\ Goto(c, IF k = Len(s) THEN "unlock" ELSE "write")
         \/ /\ Goto(c, "unlock")
            /\ self' = [self EXCEPT ![c].newString = <<>>, ![c].failed = TRUE]
  BY Zenon DEF Write
<1>. HIDE DEF s
<1>2. CASE /\ Goto(c, "unlock")
           /\ self' = [self EXCEPT ![c].newString = <<>>, ![c].failed = TRUE]
  <2>1. pc'[c] = "unlock" /\ self'[c].failed = TRUE
    BY <1>0, <1>1, <1>2 DEF Goto, LocalNames
  <2>. QED BY <2>1, AnsweringNot DEF Whole, Intact
<1>3. ASSUME NEW k \in Pieces(s), Device!Accept(Piece(s, k), k),
             self' = [self EXCEPT ![c].newString = Rest(s, k)],
             Goto(c, IF k = Len(s) THEN "unlock" ELSE "write")
      PROVE  Answering(c)'
  <2>1. /\ pc'[c] = IF k = Len(s) THEN "unlock" ELSE "write"
        /\ self'[c].newString = Rest(s, k)
    BY <1>0, <1>1, <1>3 DEF Goto, LocalNames
  <2>2. /\ self'[c].newline = self[c].newline /\ self'[c].failed = self[c].failed
        /\ self'[c].found_ioctl_cmd = self[c].found_ioctl_cmd
    BY <1>0, <1>1, <1>3, OwnLocals
  <2>3. Whole(c)' => s[Len(s)] = NL
    BY <1>1, <2>2 DEF Whole, Intact, Working, Answering, s
  <2>4. s \in Word /\ Len(s) \in Nat /\ k \in 0..Len(s) /\ Piece(s, k) \in Word /\ Len(Piece(s, k)) = k
    BY <1>0, <1>1, PieceAndRest
  <2>5. CASE k = Len(s)
    <3>1. Piece(s, k) = s
      BY <2>4, <2>5 DEF Piece, Word
    <3>2. Device!Accept(s, Len(s))
      BY <1>3, <2>5, <3>1, Zenon
    <3>3. s[Len(s)] = NL => partial' = <<>>
      BY <2>4, <3>2, DeviceAccepts
    <3>. QED BY <1>0, <2>1, <2>3, <2>5, <3>3 DEF Answering, Clean, Own
  <2>6. CASE k # Len(s)
    <3>1. Rest(s, k)[Len(Rest(s, k))] = s[Len(s)]
      <4>. DEFINE n == Len(s)
                  u == SubSeq(s, k + 1, n)
      <4>1. s \in Seq(Letter) /\ n \in 1..Len(s) /\ k + 1 \in 1..n /\ k \in Nat
        BY <2>4, <2>6 DEF Word
      <4>. HIDE DEF n
      <4>2. Len(u) = n - k /\ u[n - k] = s[n]
        BY <4>1, SubSeqProperties, SMTT(30)
      <4>. QED BY <4>2 DEF Rest, n
    <3>. QED BY <2>1, <2>3, <2>6, <3>1 DEF Answering
  <2>. QED BY <2>5, <2>6
<1>. QED BY <1>1, <1>2, <1>3

(* Thread c reads the reply: all of the device, or a full buffer.          *)
LEMMA AnsweringFread ==
    ASSUME ServerInv, Texts, NEW c \in Client, OthersFreeOf(c)', Answering(c), Fread(c)
    PROVE  Answering(c)'
<1>0. /\ pc \in [Client -> Steps] /\ DOMAIN self = Client /\ LocalsHeld(c)
      /\ Contents \in Word
  BY DeviceTyped DEF ServerInv, Accounts, StreamInv, DescriptorsTyped, Texts
<1>1. pc[c] = "fread" /\ Goto(c, "closeread") /\ UNCHANGED <<lines, partial, robbed>>
  BY Zenon DEF Fread, device
<1>2. pc'[c] = "closeread" /\ DOMAIN self[c] = LocalNames
  BY <1>0, <1>1 DEF Goto, LocalsHeld, Working
<1>3. OwnSocket(c)'
  BY <1>2 DEF OwnSocket
<1>4. \E x : self' = [self EXCEPT ![c].contents = x]
  BY DEF Fread
<1>5. /\ self'[c].newline = self[c].newline /\ self'[c].failed = self[c].failed
      /\ self'[c].found_ioctl_cmd = self[c].found_ioctl_cmd
  BY <1>0, <1>2, <1>4, OwnLocals
<1>6. ASSUME Whole(c)'
      PROVE  /\ Clean(c, partial')
             /\ Len(self'[c].contents) < BUFFER_SIZE =>
                   EndsWith(OwnPart(c, self'[c].contents), OwnPart(c, Contents'))
  <2>1. Whole(c) /\ robbed = {}
    BY <1>1, <1>5, <1>6 DEF Whole, Intact, Working
  <2>2. Clean(c, partial) /\ self[c].pos = 0
    BY <1>1, <2>1 DEF Answering
  <2>3. fds[file[c]] = [kind |-> "dev", owner |-> c]
    BY <1>1, <2>1, StreamOwn
  <2>4. self' = [self EXCEPT ![c].contents = ReadFrom(self[c].pos)]
    <3>1. fds[file[c]].kind = "dev"
      BY <2>3
    <3>. QED BY <3>1 DEF Fread
  <2>5. self'[c].contents = ReadFrom(0)
    BY <1>0, <1>2, <2>2, <2>4 DEF LocalNames
  <2>. DEFINE d == Contents
              n == Min({0 + BUFFER_SIZE, Len(d)})
  <2>6. d \in Seq(Letter) /\ Len(d) \in Nat
    BY <1>0 DEF Word
  <2>7. n \in {BUFFER_SIZE, Len(d)} /\ n <= Len(d)
    <3>1. {BUFFER_SIZE, Len(d)} \in SUBSET Nat /\ {BUFFER_SIZE, Len(d)} # {}
      BY <2>6
    <3>2. n = Min({BUFFER_SIZE, Len(d)})
      OBVIOUS
    <3>. HIDE DEF d, n
    <3>. QED BY <3>1, <3>2, MinValue
  <2>8. self'[c].contents = SubSeq(d, 1, n)
    BY <2>5 DEF ReadFrom
  <2>. HIDE DEF d, n
  <2>9. ASSUME Len(self'[c].contents) < BUFFER_SIZE
        PROVE  EndsWith(OwnPart(c, self'[c].contents), OwnPart(c, Contents'))
    <3>1. Len(SubSeq(d, 1, n)) = n
      BY <2>6, <2>7
    <3>2. n = Len(d)
      BY <2>7, <2>8, <2>9, <3>1
    <3>3. self'[c].contents = d
      BY <2>6, <2>8, <3>2
    <3>4. Contents' = d
      BY <1>1 DEF Contents, d
    <3>5. OwnPart(c, d) \in Word
      BY <1>0, OwnConcat DEF d
    <3>. QED BY <3>3, <3>4, <3>5, EndsItself
  <2>. QED BY <1>1, <2>2, <2>9
<1>. QED BY <1>2, <1>3, <1>6 DEF Answering, Clean, Own, OwnPart

LEMMA AnsweringOwn ==
    ASSUME ServerInv, Texts, NEW c \in Client, OthersFreeOf(c)', OwnSocket(c)', Answering(c),
           Handler(c), ~Received(c)
    PROVE  Answering(c)'
<1>0. /\ pc \in [Client -> Steps] /\ DOMAIN self = Client
      /\ Working(c) => DOMAIN self[c] = LocalNames
  BY DEF ServerInv, Accounts, StreamInv, DescriptorsTyped, Texts, LocalsHeld
<1>1. robbed' = {} => robbed = {}
  BY RobbedStays
<1>2. CASE Recv(c) \/ EndOfStream(c)
  <2>1. /\ pc[c] \in {"recv", "receiving"} /\ (Goto(c, "receiving") \/ Goto(c, "lockread"))
        /\ self' = self \/ \E x : self' = [self EXCEPT ![c].conn = x]
    <3>1. CASE Recv(c)
      BY <3>1 DEF Recv
    <3>2. CASE EndOfStream(c)
      BY <3>2, Zenon DEF EndOfStream, locals
    <3>. QED BY <1>2, <3>1, <3>2
  <2>2. self'[c].newline = self[c].newline
    BY <1>0, <2>1, OwnLocals DEF Working
  <2>3. ~self'[c].newline
    BY <2>1, <2>2 DEF Answering
  <2>4. pc'[c] \in {"receiving", "lockread"}
    BY <1>0, <2>1 DEF Goto
  <2>. QED BY <2>3, <2>4, AnsweringNot DEF Whole
<1>3. CASE LockAppend(c)
  <2>. DEFINE found == CommandFound(c)
  <2>1. pc[c] = "lock" /\ Goto(c, IF found THEN "unlock" ELSE "write") /\ robbed' = robbed
    BY <1>3, Zenon DEF LockAppend
  <2>4. self[c].found_ioctl_cmd => found
    BY DEF CommandFound
  <2>2. /\ self'[c].newline = self[c].newline /\ self'[c].found_ioctl_cmd = found
        /\ self'[c].newString = self[c].newString /\ self'[c].failed = self[c].failed
    <3>1. self' = [self EXCEPT ![c].found_ioctl_cmd = found, ![c].args = AppendArgs(c),
                               ![c].uncut = AppendUncut(c)]
      BY <1>3, AppendLocals, Zenon
    <3>. HIDE DEF found
    <3>. QED BY <1>0, <2>1, <3>1 DEF LocalNames, Working
  <2>. HIDE DEF found
  <2>3. pc'[c] = IF found THEN "unlock" ELSE "write"
    BY <1>0, <2>1 DEF Goto
  <2>5. CASE found
    <3>1. ~Whole(c)'
      BY <2>2, <2>5 DEF Whole, Intact
    <3>. QED BY <2>3, <2>5, <3>1, AnsweringNot
  <2>6. CASE ~found
    <3>1. Whole(c)' => Whole(c)
      BY <2>1, <2>2, <2>4 DEF Whole, Intact, Working
    <3>2. Whole(c) => self[c].newString[Len(self[c].newString)] = NL
      BY <2>1 DEF Answering
    <3>3. pc'[c] = "write"
      BY <2>3, <2>6
    <3>. QED BY <2>2, <3>1, <3>2, <3>3 DEF Answering
  <2>. QED BY <2>5, <2>6
<1>4. CASE Unlock(c)
  <2>1. /\ pc[c] = "unlock" /\ Goto(c, IF self[c].newline THEN "lockread" ELSE "recv")
        /\ self' = [self EXCEPT ![c].newString = <<>>] /\ UNCHANGED <<lines, partial>>
    BY <1>4, Zenon DEF Unlock, AfterPacket, device
  <2>2. pc'[c] = IF self[c].newline THEN "lockread" ELSE "recv"
    BY <1>0, <2>1 DEF Goto
  <2>3. /\ self'[c].newline = self[c].newline /\ self'[c].failed = self[c].failed
        /\ self'[c].found_ioctl_cmd = self[c].found_ioctl_cmd
    BY <1>0, <2>1, OwnLocals DEF Working
  <2>4. Whole(c)' => Whole(c)
    BY <1>1, <2>1, <2>3 DEF Whole, Intact, Working
  <2>5. Whole(c) => Clean(c, partial)
    BY <2>1 DEF Answering
  <2>6. Whole(c)' => Clean(c, partial')
    BY <2>1, <2>4, <2>5
  <2>. QED BY <2>2, <2>3, <2>6 DEF Answering, Clean, Own
<1>5. CASE LockRead(c)
  <2>1. /\ pc[c] = "lockread" /\ self' = [self EXCEPT ![c].pos = 0] /\ UNCHANGED <<lines, partial>>
        /\ Goto(c, IF self[c].found_ioctl_cmd THEN "ioctl" ELSE "fread")
    BY <1>5, Zenon DEF LockRead, device
  <2>2. pc'[c] = IF self[c].found_ioctl_cmd THEN "ioctl" ELSE "fread"
    BY <1>0, <2>1 DEF Goto
  <2>3. /\ self'[c].newline = self[c].newline /\ self'[c].failed = self[c].failed
        /\ self'[c].found_ioctl_cmd = self[c].found_ioctl_cmd
    BY <1>0, <2>1, OwnLocals DEF Working
  <2>4. self'[c].pos = 0
    BY <1>0, <2>1 DEF Working, LocalNames
  <2>5. Whole(c)' => Whole(c)
    BY <1>1, <2>1, <2>3 DEF Whole, Intact, Working
  <2>6. Whole(c) => Clean(c, partial)
    BY <2>1 DEF Answering
  <2>7. Whole(c)' => Clean(c, partial')
    BY <2>1, <2>5, <2>6
  <2>. QED BY <2>2, <2>3, <2>4, <2>7 DEF Answering, Clean, Own
<1>6. CASE Ioctl(c)
  <2>1. pc[c] = "ioctl" /\ Goto(c, "fread") /\ (self' = self \/ \E x : self' = [self EXCEPT ![c].pos = x])
    BY <1>6 DEF Ioctl
  <2>2. self'[c].found_ioctl_cmd = self[c].found_ioctl_cmd
    BY <1>0, <2>1, OwnLocals DEF Working
  <2>3. self[c].found_ioctl_cmd /\ pc'[c] = "fread"
    BY <1>0, <2>1 DEF Answering, Goto
  <2>. QED BY <2>2, <2>3, AnsweringNot DEF Whole, Intact
<1>7. CASE FreadFails(c)
  <2>1. /\ pc[c] = "fread" /\ Goto(c, "send") /\ UNCHANGED <<lines, partial>>
        /\ self' = [self EXCEPT ![c].contents = NULL]
    BY <1>7, Zenon DEF FreadFails, device
  <2>2. pc'[c] = "send" /\ self'[c].contents = NULL
    BY <1>0, <2>1 DEF Goto, Working, LocalNames
  <2>3. /\ self'[c].newline = self[c].newline /\ self'[c].failed = self[c].failed
        /\ self'[c].found_ioctl_cmd = self[c].found_ioctl_cmd
    BY <1>0, <2>1, OwnLocals DEF Working
  <2>4. Whole(c)' => Whole(c)
    BY <1>1, <2>1, <2>3 DEF Whole, Intact, Working
  <2>5. Whole(c) => Clean(c, partial)
    BY <2>1 DEF Answering
  <2>6. Whole(c)' => Clean(c, partial')
    BY <2>1, <2>4, <2>5
  <2>. QED BY <2>2, <2>6 DEF Answering, Clean, Own
<1>8. CASE CloseRead(c)
  <2>1. pc[c] = "closeread" /\ Goto(c, "send") /\ UNCHANGED <<self, lines, partial>>
    BY <1>8, Zenon DEF CloseRead, device
  <2>2. pc'[c] = "send"
    BY <1>0, <2>1 DEF Goto
  <2>3. Whole(c)' => Whole(c)
    BY <1>1, <2>1 DEF Whole, Intact, Working
  <2>4. Whole(c) => /\ Clean(c, partial)
                    /\ self[c].contents # NULL /\ Len(self[c].contents) < BUFFER_SIZE =>
                          EndsWith(OwnPart(c, self[c].contents), OwnPart(c, Contents))
    BY <2>1 DEF Answering
  <2>5. Contents' = Contents
    BY <2>1 DEF Contents
  <2>. QED BY <2>1, <2>2, <2>3, <2>4, <2>5 DEF Answering, Clean, Own, OwnPart
<1>9. CASE Send(c) \/ Close(c) \/ Flag(c)
  <2>1. Goto(c, "close") \/ Goto(c, "flag") \/ Goto(c, "exit")
    BY <1>9, Zenon DEF Send, Close, Flag
  <2>2. pc[c] # "none" /\ pc'[c] \in {"close", "flag", "exit"}
    BY <1>0, <1>9, <2>1 DEF Goto, Send, Close, Flag
  <2>. QED BY <2>2 DEF Answering
<1>. QED BY <1>2, <1>3, <1>4, <1>5, <1>6, <1>7, <1>8, <1>9, AnsweringWrite, AnsweringFread, Zenon DEF Handler

LEMMA AnsweringNext ==
    ASSUME ServerInv, Texts, Texts', NEW c \in Client, c \notin crossed', Answering(c), Next
    PROVE  Answering(c)'
<1>1. OthersFreeOf(c) /\ OwnSocket(c)
  BY DEF Answering
<1>2. OthersFreeOf(c)'
  BY <1>1, OthersNext
<1>3. OwnSocket(c)'
  BY <1>1, ClientSteps, OwnSocketNext
<1>4. CASE Rests(c)
  BY <1>2, <1>4, AnsweringRests
<1>5. CASE ~Working(c)'
  BY <1>2, <1>3, <1>5, AnsweringNot DEF Working, Whole, Intact
<1>6. CASE Begins(c)
  BY <1>2, <1>3, <1>6, AnsweringNot DEF Begins, Whole
<1>7. CASE Handler(c) /\ ~Received(c)
  BY <1>2, <1>3, <1>7, AnsweringOwn
<1>8. CASE Handler(c) /\ Received(c)
  BY <1>2, <1>8, Receipt, AnsweringTaken
<1>9. CASE \E d \in Client : Handler(d)
  BY <1>1, <1>4, <1>7, <1>8, <1>9, OthersSteps
<1>. QED BY <1>1, <1>4, <1>5, <1>6, <1>9, MainSteps, EnvironmentSteps DEF Next

AnswerInv == ServerInv /\ Texts /\ \A c \in Client \ crossed : Answering(c)

LEMMA AnswerInit ==
    ASSUME Init, NEW c \in Client
    PROVE  Answering(c)
<1>1. \A d \in Client : pc[d] = "none"
  BY DEF Init
<1>. QED BY <1>1 DEF Answering, OthersFreeOf, OwnSocket, Whole, Intact, Working

LEMMA AnswerStutters ==
    ASSUME UNCHANGED vars, NEW c \in Client, Answering(c)
    PROVE  Answering(c)' /\ crossed' = crossed
<1>1. UNCHANGED <<lines, partial, robbed, pc, self, crossed>>
  BY Zenon DEF vars, device, threads, locals, network
<1>2. OthersFreeOf(c)' /\ OwnSocket(c)' /\ (Whole(c)' <=> Whole(c))
  BY <1>1 DEF Answering, OthersFreeOf, OwnSocket, Working, Clean, Own, Whole, Intact
<1>3. Contents' = Contents
  BY <1>1 DEF Contents
<1>. QED BY <1>1, <1>2, <1>3 DEF Answering, Clean, Own, OwnPart

(* For any number of clients: what the device still has of a client's      *)
(* packet is in the reply, at its end, whatever other threads have written *)
(* between the append and the read; unless a write of its own failed.      *)
THEOREM RepliesHaveOwnPacket == Spec => []ReplyHasOwnPacket
<1>1. Init => AnswerInv
  BY ServerInit, TextsInit, AnswerInit DEF AnswerInv
<1>2. ASSUME AnswerInv, [Next]_vars
      PROVE  AnswerInv'
  <2>1. ServerInv'
    BY <1>2, ServerNext DEF AnswerInv
  <2>2. CASE Next
    <3>1. TextStep
      BY <1>2, <2>2, TextSteps DEF AnswerInv
    <3>2. Texts'
      BY <1>2, <3>1, TextsNext DEF AnswerInv
    <3>3. ASSUME NEW c \in Client \ crossed'
          PROVE  Answering(c)'
      <4>1. c \notin crossed
        BY <2>2, <3>3, CrossedStays
      <4>. QED BY <1>2, <2>2, <3>2, <3>3, <4>1, AnsweringNext DEF AnswerInv
    <3>. QED BY <2>1, <3>2, <3>3 DEF AnswerInv
  <2>3. CASE UNCHANGED vars
    <3>1. Texts'
      BY <1>2, <2>3, TextStutters DEF AnswerInv
    <3>2. crossed' = crossed
      BY <2>3, Zenon DEF vars, network
    <3>. QED BY <1>2, <2>1, <2>3, <3>1, <3>2, AnswerStutters DEF AnswerInv
  <2>. QED BY <1>2, <2>2, <2>3
<1>3. AnswerInv => ReplyHasOwnPacket
  <2>1. ASSUME AnswerInv, NEW c \in Client \ crossed,
               pc[c] = "send", robbed = {}, ~self[c].failed, self[c].newline,
               ~self[c].found_ioctl_cmd, self[c].contents # NULL, Len(self[c].contents) < BUFFER_SIZE
        PROVE  IsSuffix(OwnPart(c, Contents), OwnPart(c, self[c].contents))
    <3>1. Whole(c) /\ Answering(c)
      BY <2>1 DEF AnswerInv, Whole, Intact, Working
    <3>2. EndsWith(OwnPart(c, self[c].contents), OwnPart(c, Contents))
      BY <2>1, <3>1 DEF Answering
    <3>3. Contents \in Word
      BY <2>1, DeviceTyped DEF AnswerInv
    <3>4. OwnPart(c, Contents) \in Word
      BY <3>3, OwnConcat
    <3>. QED BY <3>2, <3>4, EndsAsSuffix
  <2>. QED BY <2>1 DEF ReplyHasOwnPacket
<1>. QED BY <1>1, <1>2, <1>3, PTL DEF Spec
-----------------------------------------------------------------------------
(* Seek commands. *)

(* A thread that is about to read after a seek command is where the        *)
(* numbers it has scanned say.                                             *)
Target(c) == PositionOf(self[c].args.write_cmd, self[c].args.write_cmd_offset)
Aimed(c) ==
    /\ pc[c] = "fread" /\ self[c].found_ioctl_cmd /\ robbed = {}
    /\ self[c].args.write_cmd \in 0..(Len(lines) - 1) /\ self[c].args.write_cmd_offset \in 0..15
    => wedged \/ self[c].pos = Target(c)

(* While it is there nobody moves it, writes or seeks. *)
AimStep(c) ==
    pc'[c] = "fread" =>
        \/ /\ pc[c] = "fread" /\ self'[c] = self[c]
           /\ lines' = lines /\ wedged' = wedged
           /\ robbed' = {} => robbed = {}
        \/ Ioctl(c)
        \/ ~self'[c].found_ioctl_cmd

(* The thread at fread has the mutex, so no other is at write or ioctl. *)
LEMMA HandlerAims ==
    ASSUME ServerInv, Texts, NEW c \in Client, NEW d \in Client, Handler(d)
    PROVE  AimStep(c)
<1>0. /\ pc \in [Client -> Steps] /\ DOMAIN self = Client /\ LocalsHeld(d)
      /\ \A e \in Client : Locking(e) => file_mutex = e
  BY DEF ServerInv, Accounts, StreamInv, DescriptorsTyped, OneStreamAtATime, Texts
<1>1. SUFFICES ASSUME pc'[c] = "fread", ~Ioctl(c), self'[c].found_ioctl_cmd
               PROVE  /\ pc[c] = "fread" /\ self'[c] = self[c]
                      /\ lines' = lines /\ wedged' = wedged
                      /\ robbed' = {} => robbed = {}
  BY DEF AimStep
<1>2. CASE c = d
  <2>1. LockRead(c)
    <3>1. \A s : Goto(c, s) => s = "fread"
      BY <1>0, <1>1 DEF Goto
    <3>2. ~(Recv(c) \/ Received(c) \/ EndOfStream(c) \/ LockAppend(c) \/ Write(c) \/ Unlock(c))
      BY <3>1, AppendGoto, WriteGoto DEF Recv, Received, EndOfStream, Unlock, AfterPacket
    <3>3. ~(Fread(c) \/ FreadFails(c) \/ CloseRead(c) \/ Send(c) \/ Close(c) \/ Flag(c))
      BY <3>1 DEF Fread, FreadFails, CloseRead, Send, Close, Flag
    <3>. QED BY <1>1, <1>2, <3>2, <3>3, Zenon DEF Handler
  <2>2. /\ self' = [self EXCEPT ![c].pos = 0] /\ pc[c] = "lockread"
        /\ Goto(c, IF self[c].found_ioctl_cmd THEN "ioctl" ELSE "fread")
    BY <2>1, Zenon DEF LockRead
  <2>3. ~self[c].found_ioctl_cmd
    BY <1>0, <1>1, <2>2 DEF Goto
  <2>4. DOMAIN self[c] = LocalNames
    BY <1>0, <1>2, <2>2 DEF LocalsHeld, Working
  <2>5. self'[c].found_ioctl_cmd = self[c].found_ioctl_cmd
    BY <1>0, <2>2, <2>4 DEF LocalNames
  <2>. QED BY <1>1, <2>3, <2>5, Zenon
<1>3. CASE c # d
  <2>1. pc'[c] = pc[c] /\ self'[c] = self[c]
    <3>1. CASE Received(d)
      BY <1>3, <3>1, Receipt DEF Alone
    <3>2. CASE ~Received(d)
      BY <1>3, <3>2, HandlerLocals DEF Alone
    <3>. QED BY <3>1, <3>2
  <2>2. ~(Write(d) \/ Ioctl(d))
    <3>1. Locking(c)
      BY <1>1, <2>1 DEF Locking, Streaming
    <3>2. ~Locking(d)
      BY <1>0, <1>3, <3>1
    <3>3. Write(d) => pc[d] = "write"
      BY Zenon DEF Write
    <3>4. Ioctl(d) => pc[d] = "ioctl"
      BY Zenon DEF Ioctl
    <3>. QED BY <3>2, <3>3, <3>4 DEF Locking, Streaming
  <2>3. UNCHANGED device
    <3>1. CASE Recv(d) \/ Received(d) \/ EndOfStream(d) \/ LockAppend(d) \/ Unlock(d)
      BY <3>1, Zenon DEF Recv, Received, EndOfStream, LockAppend, Unlock
    <3>2. CASE LockRead(d) \/ Fread(d) \/ FreadFails(d) \/ CloseRead(d)
      BY <3>2, Zenon DEF LockRead, Fread, FreadFails, CloseRead
    <3>3. CASE Send(d) \/ Close(d) \/ Flag(d)
      BY <3>3, Zenon DEF Send, Close, Flag
    <3>. QED BY <2>2, <3>1, <3>2, <3>3, Zenon DEF Handler
  <2>4. lines' = lines /\ wedged' = wedged
    BY <2>3, Zenon DEF device
  <2>. QED BY <1>1, <2>1, <2>4, RobbedStays
<1>. QED BY <1>2, <1>3

LEMMA AimSteps ==
    ASSUME ServerInv, Texts, NEW c \in Client, Next
    PROVE  AimStep(c)
<1>0. pc \in [Client -> Steps] /\ DOMAIN self = Client
  BY DEF ServerInv, Accounts, StreamInv, DescriptorsTyped, Texts
<1>1. ASSUME UNCHANGED <<pc, self>>, UNCHANGED device, robbed' = {} => robbed = {}
      PROVE  AimStep(c)
  BY <1>1, Zenon DEF AimStep, device
<1>2. CASE Main
  <2>1. UNCHANGED device
    BY <1>2, Zenon DEF Main, MainCreate, MainInsert, CleanupThreads, Reap, MainAccept
  <2>2. robbed' = {} => robbed = {}
    BY <1>2, RobbedStays
  <2>3. CASE UNCHANGED <<pc, self>>
    BY <1>1, <2>1, <2>2, <2>3
  <2>4. CASE MainCreate /\ ~UNCHANGED <<pc, self>>
    <3>1. main = "create" /\ Goto(accepted, "recv") /\ self' = [self EXCEPT ![accepted] = NoLocals]
      BY <2>4, Zenon DEF MainCreate, threads, locals
    <3>2. PICK d \in Client : d = accepted
      BY <3>1 DEF ServerInv, ListKept
    <3>3. pc'[c] = "fread" => pc[c] = "fread" /\ self'[c] = self[c]
      BY <1>0, <3>1, <3>2 DEF Goto
    <3>4. lines' = lines /\ wedged' = wedged
      BY <2>1, Zenon DEF device
    <3>. QED BY <2>2, <3>3, <3>4 DEF AimStep
  <2>5. CASE ~MainCreate
    BY <1>2, <2>3, <2>5, Zenon DEF Main, MainInsert, CleanupThreads, Reap, MainAccept, threads, locals
  <2>. QED BY <2>3, <2>4, <2>5
<1>3. CASE Environment
  <2>1. CASE Ended
    BY <2>1 DEF Ended, AimStep
  <2>2. CASE Start \/ \E d \in Client : Connect(d) \/ HangUp(d) \/ MainAcceptFails(d)
    BY <1>1, <2>2, Zenon DEF Start, Connect, HangUp, MainAcceptFails, threads, locals
  <2>. QED BY <1>3, <2>1, <2>2, Zenon DEF Environment, Terminate, LockFails, BrokenPipe, Crash
<1>. QED BY <1>2, <1>3, HandlerAims DEF Next

(* read_char_device comes from fread to closeread by reading only. *)
LEMMA OnlyFread ==
    ASSUME ServerInv, NEW c \in Client, Next, pc[c] = "fread", pc'[c] = "closeread"
    PROVE  Fread(c)
<1>0. pc \in [Client -> Steps]
  BY DEF ServerInv, Accounts, StreamInv, DescriptorsTyped
<1>1. ~UNCHANGED pc /\ \A d, s : Goto(d, s) => d = c /\ s = "closeread"
  <2>1. ASSUME NEW d, NEW s, Goto(d, s), d # c
        PROVE  FALSE
    BY <1>0, <2>1 DEF Goto
  <2>2. ASSUME NEW s, Goto(c, s)
        PROVE  s = "closeread"
    BY <1>0, <2>2 DEF Goto
  <2>3. ~UNCHANGED pc
    OBVIOUS
  <2>. QED BY <2>1, <2>2, <2>3, Zenon
<1>2. ~Main
  <2>1. ~MainCreate
    BY <1>1 DEF MainCreate, threads, locals
  <2>. QED BY <1>1, <2>1, Zenon DEF Main, MainInsert, CleanupThreads, Reap, MainAccept, threads
<1>3. ~Environment
  <2>1. ~Ended
    BY DEF Ended
  <2>. QED BY <1>1, <2>1, Zenon
       DEF Environment, Start, Terminate, Connect, HangUp, MainAcceptFails, LockFails, BrokenPipe,
           Crash, threads
<1>4. ASSUME NEW d \in Client, Handler(d)
      PROVE  Fread(c)
  <2>1. ~(Recv(d) \/ Received(d) \/ EndOfStream(d) \/ LockAppend(d) \/ Write(d) \/ Unlock(d))
    BY <1>1, AppendGoto, WriteGoto DEF Recv, Received, EndOfStream, Unlock, AfterPacket
  <2>2. ~(LockRead(d) \/ Ioctl(d) \/ FreadFails(d) \/ CloseRead(d) \/ Send(d) \/ Close(d) \/ Flag(d))
    BY <1>1 DEF LockRead, Ioctl, FreadFails, CloseRead, Send, Close, Flag
  <2>3. Fread(d) => d = c
    BY <1>1 DEF Fread
  <2>. QED BY <1>4, <2>1, <2>2, <2>3, Zenon DEF Handler
<1>. QED BY <1>2, <1>3, <1>4, Zenon DEF Next

LEMMA IoctlAims ==
    ASSUME Capacity <= 16, ServerInv, Texts, NEW c \in Client, Ioctl(c), robbed = {},
           self'[c].args.write_cmd \in 0..(Len(lines) - 1), self'[c].args.write_cmd_offset \in 0..15
    PROVE  self'[c].pos = Target(c)'
<1>0. /\ DOMAIN self = Client /\ Len(lines) \in Nat /\ Len(lines) <= Capacity
      /\ pc[c] = "ioctl" /\ DOMAIN self[c] = LocalNames /\ lines' = lines
  <2>1. pc[c] = "ioctl" /\ lines' = lines
    BY Zenon DEF Ioctl
  <2>2. DOMAIN self = Client /\ LocalsHeld(c) /\ Len(lines) \in Nat
    BY DEF Texts
  <2>3. Len(lines) <= Capacity
    BY DEF ServerInv, ProcessTyped
  <2>. QED BY <2>1, <2>2, <2>3 DEF LocalsHeld, Working
<1>1. fds[file[c]].kind = "dev"
  <2>1. fds[file[c]] = [kind |-> "dev", owner |-> c]
    BY <1>0, StreamOwn
  <2>. QED BY <2>1
<1>2. PICK m \in Held(self[c].args.write_cmd), n \in Held(self[c].args.write_cmd_offset) :
          self' = IF (encoded_value(m, n) \div 16) % 16 >= Capacity THEN self
                  ELSE [self EXCEPT ![c].pos = PositionOf((encoded_value(m, n) \div 16) % 16,
                                                          encoded_value(m, n) % 16)]
  BY <1>1, Zenon DEF Ioctl
<1>3. self'[c].args = self[c].args
  BY <1>0, <1>2 DEF LocalNames
<1>4. /\ self[c].args.write_cmd \in 0..(Len(lines) - 1)
      /\ self[c].args.write_cmd_offset \in 0..15
  BY <1>3
<1>5. m = self[c].args.write_cmd /\ n = self[c].args.write_cmd_offset
  <2>. DEFINE u == self[c].args.write_cmd
              v == self[c].args.write_cmd_offset
  <2>1. m \in Held(u) /\ n \in Held(v)
    OBVIOUS
  <2>. HIDE <1>2
  <2>0. /\ u \in 0..(Len(lines) - 1) /\ v \in 0..15
        /\ \A x \in 0..(Len(lines) - 1) : x \in Nat
        /\ \A x \in 0..15 : x \in Nat
    BY <1>0, <1>4
  <2>. HIDE DEF u, v
  <2>2. u \in Nat /\ v \in Nat
    BY <2>0, Zenon
  <2>3. m = u /\ n = v
    BY <2>1, <2>2, JunkAssumption DEF Held
  <2>. QED BY <2>3 DEF u, v
<1>6. m \in 0..15 /\ n \in 0..15 /\ ~(m >= Capacity)
  <2>1. m \in 0..(Len(lines) - 1) /\ n \in 0..15
    BY <1>4, <1>5, Zenon
  <2>. HIDE <1>2
  <2>2. m \in Int /\ Len(lines) \in Nat
    BY <2>1, <1>0
  <2>. QED BY <1>0, <2>1, <2>2, SMTT(30)
<1>7. (encoded_value(m, n) \div 16) % 16 = m /\ encoded_value(m, n) % 16 = n
  BY <1>6, Encoded
<1>8. self' = [self EXCEPT ![c].pos = PositionOf(m, n)]
  BY <1>2, <1>6, <1>7
<1>9. self'[c].pos = PositionOf(m, n)
  BY <1>0, <1>8 DEF LocalNames
<1>. QED BY <1>0, <1>3, <1>5, <1>9 DEF Target, PositionOf

LEMMA AimedNext ==
    ASSUME Capacity <= 16, ServerInv, Texts, NEW c \in Client, Aimed(c), AimStep(c)
    PROVE  Aimed(c)'
<1>1. SUFFICES ASSUME pc'[c] = "fread", self'[c].found_ioctl_cmd, robbed' = {},
                      self'[c].args.write_cmd \in 0..(Len(lines') - 1),
                      self'[c].args.write_cmd_offset \in 0..15
               PROVE  wedged' \/ self'[c].pos = Target(c)'
  BY DEF Aimed
<1>2. CASE Ioctl(c)
  <2>1. lines' = lines /\ robbed' = robbed
    BY <1>2, Zenon DEF Ioctl
  <2>. QED BY <1>1, <1>2, <2>1, IoctlAims
<1>3. CASE /\ pc[c] = "fread" /\ self'[c] = self[c]
           /\ lines' = lines /\ wedged' = wedged /\ robbed = {}
  <2>1. Target(c)' = Target(c)
    BY <1>3 DEF Target, PositionOf
  <2>2. wedged \/ self[c].pos = Target(c)
    BY <1>1, <1>3 DEF Aimed
  <2>. QED BY <1>3, <2>1, <2>2, Zenon
<1>. QED BY <1>1, <1>2, <1>3, Zenon DEF AimStep

(* What of a text only its end has, the end has at the same place.         *)
CmdAt(s) == Min(Matches(s)) + 2
CmdDigits(s) == IF CmdAt(s) <= Len(s) THEN DigitsAt(s, CmdAt(s)) ELSE <<>>
SepAt(s) == CmdAt(s) + Len(CmdDigits(s))
OffDigits(s) ==
    IF CmdDigits(s) # <<>> /\ SepAt(s) < Len(s) /\ s[SepAt(s)] = Comma
    THEN DigitsAt(s, SepAt(s) + 1) ELSE <<>>

LEMMA ScannedDigits ==
    ASSUME NEW s, NEW b
    PROVE  /\ ScannedArgs(s, b).write_cmd =
                  IF CmdDigits(s) # <<>> THEN Decimal(CmdDigits(s)) ELSE b.write_cmd
           /\ ScannedArgs(s, b).write_cmd_offset =
                  IF OffDigits(s) # <<>> THEN Decimal(OffDigits(s)) ELSE b.write_cmd_offset
<1>1. ScannedArgs(s, b) =
          [write_cmd        |-> IF CmdDigits(s) # <<>> THEN Decimal(CmdDigits(s)) ELSE b.write_cmd,
           write_cmd_offset |-> IF OffDigits(s) # <<>> THEN Decimal(OffDigits(s)) ELSE b.write_cmd_offset]
  BY DEF ScannedArgs, OffDigits, SepAt, CmdDigits, CmdAt
<1>. QED BY <1>1

LEMMA MaxWithin ==
    ASSUME NEW n \in Nat, NEW S \in SUBSET (0..n), S # {}
    PROVE  Max(S) \in S
<1>. DEFINE T == {n - x : x \in S}
<1>0. \A x \in S : x \in Nat /\ n - x \in Nat /\ n - x \in T
  OBVIOUS
<1>1. T \in SUBSET Nat /\ T # {}
  BY <1>0, Zenon
<1>. HIDE DEF T
<1>2. Min(T) \in T /\ \A y \in T : Min(T) <= y
  BY <1>1, MinValue
<1>3. PICK x \in S : Min(T) = n - x
  BY <1>2 DEF T
<1>4. \A y \in S : n - x <= n - y
  BY <1>0, <1>2, <1>3
<1>5. \A y \in S : x >= y
  BY <1>0, <1>4
<1>. QED BY <1>5 DEF Max

LEMMA DigitsShift ==
    ASSUME NEW w \in Word, NEW p \in 0..Len(w), NEW i \in 1..Len(Rest(w, p))
    PROVE  DigitsAt(Rest(w, p), i) = DigitsAt(w, i + p) /\ Len(DigitsAt(Rest(w, p), i)) \in Nat
<1>. DEFINE s == Rest(w, p)
            l == Len(w)
            k == Len(s)
<1>1. w \in Seq(Letter) /\ l \in Nat /\ l = Len(w) /\ p \in 0..l
  BY DEF Word
<1>. HIDE DEF l
<1>2. /\ s \in Seq(Letter) /\ s = SubSeq(w, p + 1, l)
      /\ k = l - p /\ \A j \in 1..k : s[j] = w[j + p]
  <2>1. s = SubSeq(w, p + 1, l)
    BY DEF Rest, l
  <2>. HIDE DEF s
  <2>2. Len(s) = l - p /\ s \in Seq(Letter)
    BY <1>1, <2>1
  <2>3. ASSUME NEW j \in 1..k
        PROVE  s[j] = w[j + p]
    BY <1>1, <2>1, <2>2, <2>3
  <2>. QED BY <2>1, <2>2, <2>3
<1>3. k \in Nat /\ i \in 1..k
  BY <1>1, <1>2
<1>. HIDE DEF k, s
<1>. DEFINE R == {n \in 0..(k + 1 - i) : \A j \in i..(i + n - 1) : s[j] \in 0..9}
            Q == {n \in 0..(l + 1 - (i + p)) : \A j \in (i + p)..((i + p) + n - 1) : w[j] \in 0..9}
<1>4. k + 1 - i \in Nat /\ l + 1 - (i + p) = k + 1 - i
  BY <1>1, <1>2, <1>3
<1>5. R = Q
  <2>1. ASSUME NEW n \in 0..(k + 1 - i)
        PROVE  (\A j \in i..(i + n - 1) : s[j] \in 0..9)
                 <=> (\A j \in (i + p)..((i + p) + n - 1) : w[j] \in 0..9)
    <3>1. ASSUME \A j \in i..(i + n - 1) : s[j] \in 0..9, NEW j \in (i + p)..((i + p) + n - 1)
          PROVE  w[j] \in 0..9
      <4>1. j - p \in i..(i + n - 1) /\ j - p \in 1..k /\ (j - p) + p = j
        BY <1>1, <1>2, <1>3, <2>1, <3>1
      <4>2. s[j - p] = w[(j - p) + p]
        BY <1>2, <4>1
      <4>. QED BY <3>1, <4>1, <4>2
    <3>2. ASSUME \A j \in (i + p)..((i + p) + n - 1) : w[j] \in 0..9, NEW j \in i..(i + n - 1)
          PROVE  s[j] \in 0..9
      <4>1. j + p \in (i + p)..((i + p) + n - 1) /\ j \in 1..k
        BY <1>1, <1>2, <1>3, <2>1, <3>2
      <4>. QED BY <1>2, <3>2, <4>1
    <3>. QED BY <3>1, <3>2
  <2>. QED BY <1>4, <2>1, Zenon
<1>6. R \in SUBSET (0..(k + 1 - i)) /\ R # {}
  <2>1. 0 \in R
    BY <1>3, <1>4
  <2>. QED BY <2>1
<1>. DEFINE M == Max(R)
<1>7. M \in 0..(k + 1 - i)
  BY <1>4, <1>6, MaxWithin
<1>8. DigitsAt(s, i) = SubSeq(s, i, i + M - 1) /\ DigitsAt(w, i + p) = SubSeq(w, i + p, (i + p) + M - 1)
  <2>1. M = Max(Q)
    BY <1>5
  <2>. HIDE DEF M
  <2>2. DigitsAt(w, i + p) = SubSeq(w, i + p, (i + p) + Max(Q) - 1)
    BY DEF DigitsAt, l
  <2>3. DigitsAt(s, i) = SubSeq(s, i, i + Max(R) - 1)
    BY DEF DigitsAt, k
  <2>. QED BY <2>1, <2>2, <2>3, Zenon DEF M
<1>. HIDE DEF R, Q, M
<1>9. i - 1 \in 0..(i + M - 1) /\ i + M - 1 \in 0..(l - p) /\ p \in 0..l /\ l \in 0..Len(w)
  <2>1. k = l - p /\ k \in Nat /\ i \in 1..k /\ M \in 0..(k + 1 - i) /\ p \in Nat /\ l \in Nat
    BY <1>1, <1>2, <1>3, <1>7
  <2>2. i - 1 \in 0..(i + M - 1) /\ i + M - 1 \in 0..(l - p)
    BY <2>1
  <2>. QED BY <1>1, <2>2
<1>10. /\ (i - 1) + 1 = i /\ (p + (i - 1)) + 1 = i + p /\ p + (i + M - 1) = (i + p) + M - 1
  BY <1>1, <1>3, <1>7
<1>. DEFINE g == i - 1
            h == i + M - 1
<1>11. g \in 0..h /\ h \in 0..(l - p)
  BY <1>9
<1>. HIDE DEF g, h
<1>12. SubSeq(SubSeq(w, p + 1, l), g + 1, h) = SubSeq(w, (p + g) + 1, p + h)
  BY <1>1, <1>9, <1>11, PieceWithin
<1>13. DigitsAt(s, i) = DigitsAt(w, i + p)
  BY <1>2, <1>8, <1>10, <1>12, Zenon DEF g, h, l
<1>14. Len(SubSeq(s, i, i + M - 1)) \in Nat
  <2>1. s \in Seq(Letter) /\ i \in Nat /\ i + M - 1 \in Int /\ (i <= i + M - 1 => i \in 1..Len(s) /\ i + M - 1 \in 1..Len(s))
    BY <1>2, <1>3, <1>7, SMTT(40) DEF k
  <2>. QED BY <2>1
<1>. QED BY <1>8, <1>13, <1>14 DEF s

(* The numbers of a command that is not cut are scanned as they are in the *)
(* whole packet.                                                           *)
LEMMA ScannedShift ==
    ASSUME NEW w \in Word, NEW p \in 0..Len(w), Cardinality(Matches(w)) = 1,
           Matches(Rest(w, p)) # {}, NEW a, NEW b
    PROVE  LET asked == ScannedArgs(w, a)
               args  == ScannedArgs(Rest(w, p), b)
           IN  /\ asked.write_cmd = a.write_cmd \/ args.write_cmd = asked.write_cmd
               /\ asked.write_cmd_offset = a.write_cmd_offset
                    \/ args.write_cmd_offset = asked.write_cmd_offset
<1>. DEFINE s == Rest(w, p)
            l == Len(w)
            k == Len(s)
<1>1. w \in Seq(Letter) /\ l \in Nat /\ p \in 0..l
  BY DEF Word
<1>. HIDE DEF l
<1>2. s \in Seq(Letter) /\ k = l - p /\ k \in Nat /\ \A j \in 1..k : s[j] = w[j + p]
  <2>1. s = SubSeq(w, p + 1, l)
    BY DEF Rest, l
  <2>. HIDE DEF s
  <2>2. Len(s) = l - p /\ s \in Seq(Letter)
    BY <1>1, <2>1 DEF l
  <2>3. ASSUME NEW j \in 1..k
        PROVE  s[j] = w[j + p]
    BY <1>1, <2>1, <2>2, <2>3 DEF l
  <2>. QED BY <2>2, <2>3
<1>. HIDE DEF k
<1>0. \A i \in 1..Len(s) : DigitsAt(s, i) = DigitsAt(w, i + p) /\ Len(DigitsAt(s, i)) \in Nat
  BY DigitsShift
<1>9. Matches(s) # {}
  OBVIOUS
<1>. HIDE DEF s
<1>3. PICK x : Matches(w) = {x}
  <2>1. IsFiniteSet(1..(l - 1))
    BY <1>1, FS_Interval
  <2>2. Matches(w) \subseteq 1..(l - 1)
    BY DEF Matches, l
  <2>3. IsFiniteSet(Matches(w))
    BY <2>1, <2>2, FS_Subset
  <2>. QED BY <2>3, FS_Singleton
<1>4. Matches(s) = {x - p} /\ x \in Nat /\ x - p \in 1..(k - 1)
  <2>1. ASSUME NEW i \in Matches(s)
        PROVE  i \in 1..(k - 1) /\ i = x - p /\ x \in Nat
    <3>1. i \in 1..(k - 1) /\ s[i] = SeekHead /\ s[i + 1] = SeekTail
      BY <2>1 DEF Matches, k
    <3>2. /\ i \in 1..k /\ i + 1 \in 1..k /\ i + p \in 1..(l - 1)
          /\ (i + 1) + p = (i + p) + 1 /\ i + p \in Nat /\ (i + p) - p = i
      BY <1>1, <1>2, <3>1
    <3>3. w[i + p] = SeekHead /\ w[(i + p) + 1] = SeekTail
      BY <1>2, <3>1, <3>2
    <3>4. i + p \in Matches(w)
      BY <3>2, <3>3 DEF Matches, l
    <3>. QED BY <1>3, <3>1, <3>2, <3>4
  <2>. QED BY <1>9, <2>1
<1>5. Min(Matches(s)) = x - p /\ Min(Matches(w)) = x
  <2>1. /\ {x} \in SUBSET Nat /\ {x} # {} /\ {x - p} \in SUBSET Nat /\ {x - p} # {}
    BY <1>4
  <2>2. Min({x}) \in {x} /\ Min({x - p}) \in {x - p}
    BY <2>1, MinValue
  <2>. QED BY <1>3, <1>4, <2>2
<1>6. CmdAt(w) = CmdAt(s) + p /\ CmdAt(s) \in Nat \ {0}
  BY <1>1, <1>4, <1>5 DEF CmdAt
<1>7. CmdDigits(s) = CmdDigits(w) /\ Len(CmdDigits(s)) \in Nat
  <2>. DEFINE i == CmdAt(s)
  <2>. HIDE DEF i
  <2>1. i \in Nat \ {0} /\ CmdAt(w) = i + p /\ (i <= k <=> i + p <= l)
    BY <1>1, <1>2, <1>6 DEF i
  <2>2. CASE i <= k
    <3>1. i \in 1..Len(s)
      BY <1>2, <2>1, <2>2 DEF k
    <3>2. DigitsAt(s, i) = DigitsAt(w, i + p) /\ Len(DigitsAt(s, i)) \in Nat
      BY <1>0, <3>1
    <3>. QED BY <2>1, <2>2, <3>2 DEF CmdDigits, i, k, l
  <2>3. CASE ~(i <= k)
    BY <2>1, <2>3 DEF CmdDigits, i, k, l
  <2>. QED BY <2>2, <2>3
<1>8. OffDigits(s) = OffDigits(w)
  <2>. DEFINE i == SepAt(s)
  <2>1. i \in Nat \ {0} /\ SepAt(w) = i + p
    BY <1>1, <1>6, <1>7 DEF SepAt
  <2>. HIDE DEF i
  <2>2. /\ i < k <=> i + p < l
        /\ i < k => i \in 1..k /\ i + 1 \in 1..Len(s) /\ (i + 1) + p = (i + p) + 1
    BY <1>1, <1>2, <2>1 DEF k
  <2>3. CASE i < k
    <3>1. DigitsAt(s, i + 1) = DigitsAt(w, (i + p) + 1)
      <4>1. DigitsAt(s, i + 1) = DigitsAt(w, (i + 1) + p)
        BY <1>0, <2>2, <2>3
      <4>. QED BY <2>2, <2>3, <4>1
    <3>2. s[i] = w[i + p]
      BY <1>2, <2>2, <2>3
    <3>. QED BY <1>7, <2>1, <2>2, <2>3, <3>1, <3>2 DEF OffDigits, i, k, l
  <2>4. CASE ~(i < k)
    BY <2>1, <2>2, <2>4 DEF OffDigits, i, k, l
  <2>. QED BY <2>3, <2>4
<1>. QED BY <1>7, <1>8, ScannedDigits DEF s

(* What thread c has not yet searched for the command is a piece of its    *)
(* client's packet, with the end of it if it has a newline; and numbers    *)
(* that were not cut are those of the packet.                              *)
PieceOfPacket(c, s, newline) ==
    \E p \in 0..(Len(Packet(c)) - 1) : \E r \in p..Len(Packet(c)) :
        s = Between(c, p, r) /\ (newline => r = Len(Packet(c)))
ScannedAsAsked(c) ==
    self[c].uncut /\ Cardinality(Matches(Packet(c))) = 1 =>
        /\ Asked(c).write_cmd \in Nat => self[c].args.write_cmd = Asked(c).write_cmd
        /\ Asked(c).write_cmd_offset \in Nat
              => self[c].args.write_cmd_offset = Asked(c).write_cmd_offset
Commanded(c) ==
    Working(c) /\ robbed = {} =>
        /\ pc[c] = "lock" => PieceOfPacket(c, self[c].newString, self[c].newline)
        /\ ScannedAsAsked(c)

(* A step after which the command is as it was. *)
KeepsCommand(c) ==
    /\ Working(c) /\ pc'[c] # "lock"
    /\ self'[c].args = self[c].args /\ self'[c].uncut = self[c].uncut

LEMMA OwnCommand ==
    ASSUME ServerInv, Texts, NEW c \in Client, Handler(c), ~Received(c), ~LockAppend(c)
    PROVE  KeepsCommand(c) \/ ~Working(c)'
<1>0. /\ pc \in [Client -> Steps] /\ DOMAIN self = Client
      /\ Working(c) => DOMAIN self[c] = LocalNames
  BY DEF ServerInv, Accounts, StreamInv, DescriptorsTyped, Texts, LocalsHeld
<1>1. ASSUME Working(c), NEW s, Goto(c, s), s # "lock",
             NEW x, \/ self' = self
                    \/ self' = [self EXCEPT ![c].pos = x]
                    \/ self' = [self EXCEPT ![c].contents = x]
                    \/ self' = [self EXCEPT ![c].newString = x]
                    \/ self' = [self EXCEPT ![c].conn = x]
      PROVE  KeepsCommand(c)
  <2>1. pc'[c] = s
    BY <1>0, <1>1 DEF Goto
  <2>2. self'[c].args = self[c].args /\ self'[c].uncut = self[c].uncut
    BY <1>0, <1>1, OwnLocals
  <2>. QED BY <1>1, <2>1, <2>2 DEF KeepsCommand
<1>2. CASE Recv(c)
  <2>1. pc[c] = "recv" /\ Working(c)
    BY <1>2 DEF Recv, Working
  <2>2. CASE Goto(c, "receiving") /\ self' = [self EXCEPT ![c].conn = Socket(c).owner]
    BY <1>1, <2>1, <2>2
  <2>3. CASE Goto(c, "lockread") /\ UNCHANGED self
    BY <1>1, <2>1, <2>3
  <2>. QED BY <1>2, <2>2, <2>3, Zenon DEF Recv
<1>3. CASE Write(c)
  <2>1. pc[c] = "write"
    BY <1>3, Zenon DEF Write
  <2>2. PICK s \in {"write", "unlock"} : Goto(c, s)
    BY <1>3, WriteGoto
  <2>3. CASE \E x : self' = [self EXCEPT ![c].newString = x]
    BY <1>1, <2>1, <2>2, <2>3 DEF Working
  <2>4. CASE self' = [self EXCEPT ![c].newString = <<>>, ![c].failed = TRUE]
    <3>1. self'[c].args = self[c].args /\ self'[c].uncut = self[c].uncut
      BY <1>0, <2>1, <2>4 DEF LocalNames, Working
    <3>2. pc'[c] # "lock"
      BY <1>0, <2>2 DEF Goto
    <3>. QED BY <2>1, <3>1, <3>2 DEF KeepsCommand, Working
  <2>. QED BY <1>3, <2>3, <2>4, Zenon DEF Write
<1>4. CASE Unlock(c)
  <2>1. /\ pc[c] = "unlock" /\ Goto(c, IF self[c].newline THEN "lockread" ELSE "recv")
        /\ self' = [self EXCEPT ![c].newString = <<>>]
    BY <1>4, Zenon DEF Unlock, AfterPacket
  <2>2. Working(c)
    BY <2>1 DEF Working
  <2>3. \E s \in {"lockread", "recv"} : Goto(c, s)
    BY <2>1
  <2>. QED BY <1>1, <2>1, <2>2, <2>3
<1>5. CASE EndOfStream(c) \/ CloseRead(c) \/ Send(c)
  <2>1. /\ pc[c] \in {"receiving", "closeread", "send"} /\ UNCHANGED self
        /\ Goto(c, "lockread") \/ Goto(c, "send") \/ Goto(c, "close")
    BY <1>5, Zenon DEF EndOfStream, CloseRead, Send, locals
  <2>. QED BY <1>1, <2>1 DEF Working
<1>6. CASE LockRead(c)
  <2>1. /\ pc[c] = "lockread" /\ self' = [self EXCEPT ![c].pos = 0]
        /\ Goto(c, "ioctl") \/ Goto(c, "fread")
    BY <1>6, Zenon DEF LockRead
  <2>. QED BY <1>1, <2>1 DEF Working
<1>7. CASE Ioctl(c)
  <2>1. pc[c] = "ioctl" /\ Goto(c, "fread") /\ (self' = self \/ \E x : self' = [self EXCEPT ![c].pos = x])
    BY <1>7 DEF Ioctl
  <2>. QED BY <1>1, <2>1 DEF Working
<1>8. CASE Fread(c) \/ FreadFails(c) \/ Close(c)
  <2>1. /\ pc[c] \in {"fread", "close"} /\ \E x : self' = [self EXCEPT ![c].contents = x]
        /\ Goto(c, "closeread") \/ Goto(c, "send") \/ Goto(c, "flag")
    <3>1. CASE Fread(c)
      BY <3>1 DEF Fread
    <3>2. CASE FreadFails(c)
      BY <3>2, Zenon DEF FreadFails
    <3>3. CASE Close(c)
      BY <3>3, Zenon DEF Close
    <3>. QED BY <1>8, <3>1, <3>2, <3>3
  <2>. QED BY <1>1, <2>1 DEF Working
<1>9. CASE Flag(c)
  <2>1. Goto(c, "exit")
    BY <1>9, Zenon DEF Flag
  <2>2. pc'[c] = "exit"
    BY <1>0, <2>1 DEF Goto
  <2>. QED BY <2>2 DEF Working
<1>. QED BY <1>2, <1>3, <1>4, <1>5, <1>6, <1>7, <1>8, <1>9, Zenon DEF Handler

LEMMA CommandSteps ==
    ASSUME ServerInv, Texts, NEW c \in Client, OthersFreeOf(c), Next
    PROVE  \/ Rests(c) \/ Begins(c) \/ ~Working(c)' \/ KeepsCommand(c)
           \/ LockAppend(c) \/ Takes(c) \/ (pc'[c] = pc[c] /\ self'[c] = self[c] /\ (robbed' = {} => robbed = {}))
<1>1. ASSUME NEW d \in Client, Handler(d), d # c
      PROVE  pc'[c] = pc[c] /\ self'[c] = self[c] /\ (robbed' = {} => robbed = {})
  <2>1. CASE Received(d)
    BY <1>1, <2>1, Receipt, RobbedStays DEF Alone
  <2>2. CASE ~Received(d)
    BY <1>1, <2>2, HandlerLocals, RobbedStays DEF Alone
  <2>. QED BY <2>1, <2>2
<1>2. CASE Handler(c)
  BY <1>2, Receipt, OwnCommand
<1>. QED BY <1>1, <1>2, MainSteps, EnvironmentSteps DEF Next

(* The end of a packet is the end of the packet's text. *)
LEMMA PacketEnd ==
    ASSUME NEW c \in Client, NEW p \in 0..Len(Packet(c))
    PROVE  /\ Between(c, p, Len(Packet(c))) = Rest(Packet(c), p)
           /\ Packet(c) \in Word
<1>. DEFINE s == Stream[c]
            m == Len(Packet(c))
<1>1. s \in Seq(Letter) /\ Len(s) \in Nat /\ m \in 1..Len(s) /\ Packet(c) = SubSeq(s, 1, m)
  BY PacketBounds
<1>. HIDE DEF s, m
<1>2. m \in 0..Len(s) /\ 0 \in 0..m /\ m \in 0..(m - 0) /\ p \in 0..m /\ 0 + 1 = 1 /\ 0 + p = p /\ 0 + m = m
  BY <1>1 DEF m
<1>3. SubSeq(SubSeq(s, 0 + 1, m), p + 1, m) = SubSeq(s, (0 + p) + 1, 0 + m)
  BY <1>1, <1>2, PieceWithin
<1>4. SubSeq(s, 0 + 1, m) \in Seq(Letter)
  BY <1>1, <1>2, PieceWithin
<1>. QED BY <1>1, <1>2, <1>3, <1>4 DEF Between, Rest, Word, s, m

LEMMA AppendCommanded ==
    ASSUME ServerInv, Texts, NEW c \in Client, LockAppend(c), Commanded(c)
    PROVE  Commanded(c)'
<1>. DEFINE s == self[c].newString
<1>0. pc[c] = "lock" /\ Working(c) /\ DOMAIN self = Client /\ DOMAIN self[c] = LocalNames
      /\ pc \in [Client -> Steps] /\ robbed' = robbed
  <2>1. pc[c] = "lock" /\ robbed' = robbed
    BY Zenon DEF LockAppend
  <2>. QED BY <2>1 DEF Working, Texts, LocalsHeld, ServerInv, Accounts, StreamInv, DescriptorsTyped
<1>1. pc'[c] # "lock"
  <2>1. PICK step \in {"write", "unlock"} : Goto(c, step)
    BY AppendGoto
  <2>. QED BY <1>0, <2>1 DEF Goto
<1>2. self'[c].args = AppendArgs(c) /\ self'[c].uncut = AppendUncut(c)
  <2>1. self' = [self EXCEPT ![c].found_ioctl_cmd = CommandFound(c), ![c].args = AppendArgs(c),
                             ![c].uncut = AppendUncut(c)]
    BY AppendLocals, Zenon
  <2>. QED BY <1>0, <2>1 DEF LocalNames
<1>3. SUFFICES ASSUME robbed = {}, self'[c].uncut, Cardinality(Matches(Packet(c))) = 1
               PROVE  /\ Asked(c).write_cmd \in Nat => self'[c].args.write_cmd = Asked(c).write_cmd
                      /\ Asked(c).write_cmd_offset \in Nat
                            => self'[c].args.write_cmd_offset = Asked(c).write_cmd_offset
  BY <1>0, <1>1 DEF Commanded, ScannedAsAsked, Asked, Packet
<1>4. PieceOfPacket(c, s, self[c].newline) /\ ScannedAsAsked(c)
  BY <1>0, <1>3 DEF Commanded
<1>5. CASE Matches(s) = {}
  <2>1. self'[c].args = self[c].args /\ self'[c].uncut = self[c].uncut
    BY <1>2, <1>5 DEF AppendArgs, AppendUncut
  <2>. QED BY <1>3, <1>4, <2>1 DEF ScannedAsAsked
<1>6. CASE Matches(s) # {}
  <2>1. self[c].newline /\ self'[c].args = ScannedArgs(s, self[c].args)
    BY <1>2, <1>3, <1>6 DEF AppendArgs, AppendUncut
  <2>2. PICK p \in 0..(Len(Packet(c)) - 1) : s = Between(c, p, Len(Packet(c)))
    BY <1>4, <2>1 DEF PieceOfPacket
  <2>3. p \in 0..Len(Packet(c))
    <3>1. Len(Packet(c)) \in Nat
      BY PacketBounds
    <3>. QED BY <3>1
  <2>4. Packet(c) \in Word /\ s = Rest(Packet(c), p)
    BY <2>2, <2>3, PacketEnd
  <2>. DEFINE w == Packet(c)
              b == self[c].args
  <2>. HIDE DEF w, b
  <2>5. /\ w \in Word /\ p \in 0..Len(w) /\ Cardinality(Matches(w)) = 1 /\ Matches(Rest(w, p)) # {}
        /\ self'[c].args = ScannedArgs(Rest(w, p), b)
    BY <1>3, <1>6, <2>1, <2>3, <2>4 DEF w, b
  <2>6. LET asked == ScannedArgs(w, Unset)
            args  == ScannedArgs(Rest(w, p), b)
        IN  /\ asked.write_cmd = Unset.write_cmd \/ args.write_cmd = asked.write_cmd
            /\ asked.write_cmd_offset = Unset.write_cmd_offset
                 \/ args.write_cmd_offset = asked.write_cmd_offset
    BY <2>5, ScannedShift
  <2>7. Unset.write_cmd = NULL /\ Unset.write_cmd_offset = NULL /\ NULL \notin Nat
    BY JunkAssumption DEF Unset
  <2>8. Asked(c) = ScannedArgs(w, Unset)
    BY DEF Asked, w
  <2>. QED BY <2>5, <2>6, <2>7, <2>8, Zenon
<1>. QED BY <1>5, <1>6

Seeking(c) ==
    /\ OthersFreeOf(c) /\ OwnSocket(c) /\ Commanded(c)
    /\ \E p \in 0..Len(Stream[c]) : TakenTo(c, p)

LEMMA TakesCommanded ==
    ASSUME ServerInv, Texts, NEW c \in Client, Takes(c), Seeking(c)
    PROVE  Commanded(c)'
<1>1. /\ pc[c] = "receiving" /\ Working(c) /\ robbed' = robbed
      /\ self'[c].args = self[c].args /\ self'[c].uncut = self[c].uncut
  BY DEF Takes, Working
<1>2. SUFFICES ASSUME robbed = {}
               PROVE  PieceOfPacket(c, self'[c].newString, self'[c].newline) /\ ScannedAsAsked(c)'
  BY <1>1 DEF Commanded, PieceOfPacket, Between, Packet
<1>3. ScannedAsAsked(c)'
  <2>1. ScannedAsAsked(c)
    BY <1>1, <1>2 DEF Seeking, Commanded
  <2>. QED BY <1>1, <2>1 DEF ScannedAsAsked, Asked, Packet
<1>4. self[c].conn = c
  BY <1>1, <1>2 DEF Seeking, OwnSocket
<1>5. PICK p \in 0..Len(Stream[c]) : TakenTo(c, p)
  BY DEF Seeking
<1>. DEFINE m == Len(Packet(c))
<1>6. PICK q \in (p + 1)..Len(Stream[c]) :
          /\ p \in 0..(m - 1)
          /\ self'[c].newString = extract_data_up_to_newline(Between(c, p, q))
          /\ self'[c].newline = new_line_found(Between(c, p, q))
  BY <1>4, <1>5, TakesMore
<1>7. /\ self'[c].newline <=> q >= m
      /\ self'[c].newString = Between(c, p, UpTo(c, q)) /\ UpTo(c, q) \in p..Len(Stream[c])
  BY <1>6, PieceReceived
<1>8. m \in Nat /\ Len(Stream[c]) \in Nat
  BY PacketBounds
<1>9. UpTo(c, q) \in p..m /\ (q >= m => UpTo(c, q) = m)
  <2>1. UpTo(c, q) = IF q < m THEN q ELSE m
    BY DEF UpTo
  <2>. HIDE DEF m
  <2>2. q \in Nat /\ p \in Nat
    BY <1>6, <1>8
  <2>. QED BY <1>6, <1>7, <1>8, <2>1, <2>2
<1>. QED BY <1>3, <1>6, <1>7, <1>9 DEF PieceOfPacket

LEMMA SeekingNext ==
    ASSUME ServerInv, Texts, NEW c \in Client, c \notin crossed', Seeking(c), Next
    PROVE  Seeking(c)'
<1>1. OthersFreeOf(c)'
  BY OthersNext DEF Seeking
<1>2. TakesNothing(c) \/ Takes(c)
  BY ClientSteps DEF Seeking
<1>3. OwnSocket(c)'
  BY <1>2, OwnSocketNext DEF Seeking
<1>4. \E p \in 0..Len(Stream[c]) : TakenTo(c, p)'
  <2>1. PICK p \in 0..Len(Stream[c]) : TakenTo(c, p)
    BY DEF Seeking
  <2>2. CASE TakesNothing(c)
    BY <2>1, <2>2, TakesNoMore
  <2>3. CASE Takes(c) /\ self[c].conn # c
    BY <2>1, <2>3, TakesOther
  <2>4. CASE Takes(c) /\ self[c].conn = c
    <3>1. PICK q \in (p + 1)..Len(Stream[c]) : TakenTo(c, q)'
      BY <2>1, <2>4, TakesMore
    <3>2. q \in 0..Len(Stream[c])
      <4>1. Len(Stream[c]) \in Nat
        BY PacketBounds
      <4>. QED BY <4>1
    <3>. QED BY <3>1, <3>2
  <2>. QED BY <1>2, <2>2, <2>3, <2>4
<1>5. Commanded(c)'
  <2>1. CASE pc'[c] = pc[c] /\ self'[c] = self[c] /\ (robbed' = {} => robbed = {})
    BY <2>1 DEF Seeking, Commanded, Working, PieceOfPacket, Between, Packet, ScannedAsAsked, Asked
  <2>2. CASE Begins(c)
    BY <2>2 DEF Begins, Commanded, ScannedAsAsked
  <2>3. CASE ~Working(c)'
    BY <2>3 DEF Commanded
  <2>4. CASE KeepsCommand(c) /\ TakesNothing(c)
    <3>1. Working(c)' /\ robbed' = {} => robbed = {}
      BY <2>4 DEF TakesNothing
    <3>. QED BY <2>4, <3>1 DEF KeepsCommand, Seeking, Commanded, Packet, ScannedAsAsked, Asked
  <2>5. CASE LockAppend(c)
    BY <2>5, AppendCommanded DEF Seeking
  <2>6. CASE Takes(c)
    BY <2>6, TakesCommanded
  <2>. QED BY <1>2, <2>1, <2>2, <2>3, <2>4, <2>5, <2>6, CommandSteps DEF Seeking, Rests
<1>. QED BY <1>1, <1>3, <1>4, <1>5 DEF Seeking

LEMMA SeekingInit ==
    ASSUME Init, NEW c \in Client
    PROVE  Seeking(c)
<1>1. /\ sent = Stream /\ robbed = {}
      /\ \A d \in Client : pc[d] = "none" /\ client[d] = "new"
  BY DEF Init
<1>2. Stream[c] \in Seq(Letter) /\ Len(Stream[c]) \in Nat /\ Len(Packet(c)) \in 1..Len(Stream[c])
  BY PacketBounds
<1>3. sent[c] = Between(c, 0, Len(Stream[c]))
  BY <1>1, <1>2 DEF Between
<1>4. Len(Stream[c]) \in 0..Len(Stream[c]) /\ 0 \in 0..Len(Stream[c]) /\ ~(0 >= Len(Packet(c)))
  BY <1>2
<1>5. TakenTo(c, 0)
  BY <1>3, <1>4 DEF TakenTo
<1>6. OthersFreeOf(c) /\ OwnSocket(c) /\ Commanded(c)
  BY <1>1 DEF OthersFreeOf, OwnSocket, Working, Commanded
<1>. QED BY <1>4, <1>5, <1>6 DEF Seeking

LEMMA SeekingStutters ==
    ASSUME UNCHANGED vars, NEW c \in Client
    PROVE  /\ Seeking(c) => Seeking(c)'
           /\ Aimed(c) => Aimed(c)'
           /\ crossed' = crossed
<1>1. /\ UNCHANGED <<lines, wedged, robbed, pc, self, crossed>>
      /\ UNCHANGED <<sent, client, main, accepted>>
  BY Zenon DEF vars, device, threads, locals, network, mainVars
<1>2. OthersFreeOf(c) /\ OwnSocket(c) => OthersFreeOf(c)' /\ OwnSocket(c)'
  BY <1>1 DEF OthersFreeOf, OwnSocket, Working, Clean, Own
<1>3. Commanded(c) => Commanded(c)'
  BY <1>1 DEF Commanded, Working, PieceOfPacket, Between, Packet, ScannedAsAsked, Asked
<1>4. \A p : TakenTo(c, p) => TakenTo(c, p)'
  BY <1>1 DEF TakenTo, Between, Packet, Unserved, MayReceive
<1>5. Aimed(c) => Aimed(c)'
  BY <1>1 DEF Aimed, Target, PositionOf
<1>. QED BY <1>1, <1>2, <1>3, <1>4, <1>5 DEF Seeking

SeekInv ==
    /\ ServerInv /\ Texts
    /\ \A c \in Client : Aimed(c)
    /\ \A c \in Client \ crossed : Seeking(c)

(* For any number of clients and any cuts before the command: the reply to *)
(* a packet with one seek command, whose rest came in one piece with it,   *)
(* begins at the byte the packet asks for, if the device has that byte and *)
(* its line and offset fit the byte the driver copies, which they do for   *)
(* the driver's AESDCHAR_MAX_WRITE_OPERATIONS_SUPPORTED of 10: no thread   *)
(* writes or seeks between the ioctl and the fread.                        *)
THEOREM SeeksAnswered == ASSUME Capacity <= 16 PROVE Spec => SeekReadsFromTarget
<1>. DEFINE Reads(c) ==
         LET cmd == Asked(c).write_cmd
             off == Asked(c).write_cmd_offset
         IN  /\ pc[c] = "fread" /\ pc'[c] = "closeread" /\ robbed = {}
             /\ self[c].found_ioctl_cmd /\ self[c].uncut
             /\ Cardinality(Matches(Packet(c))) = 1
             /\ cmd \in 0..(Len(lines) - 1)
             /\ off \in 0..(Min({16, Len(lines[cmd + 1])}) - 1)
             => self'[c].contents = ReadFrom(PositionOf(cmd, off))
<1>1. Init => SeekInv
  <2>1. Init => \A c \in Client : Aimed(c)
    BY DEF Init, Aimed
  <2>. QED BY <2>1, ServerInit, TextsInit, SeekingInit DEF SeekInv
<1>2. ASSUME SeekInv, [Next]_vars
      PROVE  SeekInv'
  <2>1. ServerInv'
    BY <1>2, ServerNext DEF SeekInv
  <2>2. CASE Next
    <3>1. Texts'
      BY <1>2, <2>2, TextSteps, TextsNext DEF SeekInv
    <3>2. ASSUME NEW c \in Client
          PROVE  Aimed(c)'
      BY <1>2, <2>2, AimSteps, AimedNext DEF SeekInv
    <3>3. ASSUME NEW c \in Client \ crossed'
          PROVE  Seeking(c)'
      <4>1. c \in Client \ crossed
        BY <2>2, CrossedStays
      <4>. QED BY <1>2, <2>2, <4>1, SeekingNext DEF SeekInv
    <3>. QED BY <2>1, <3>1, <3>2, <3>3 DEF SeekInv
  <2>3. CASE UNCHANGED vars
    <3>1. Texts'
      BY <1>2, <2>3, TextStutters DEF SeekInv
    <3>. QED BY <1>2, <2>1, <2>3, <3>1, SeekingStutters DEF SeekInv
  <2>. QED BY <1>2, <2>2, <2>3
<1>3. ASSUME SeekInv, [Next]_vars, NEW c \in Client \ crossed
      PROVE  Reads(c)
  <2>. DEFINE cmd == Asked(c).write_cmd
              off == Asked(c).write_cmd_offset
              line == Len(lines[cmd + 1])
  <2>1. SUFFICES ASSUME pc[c] = "fread", pc'[c] = "closeread", robbed = {},
                        self[c].found_ioctl_cmd, self[c].uncut,
                        Cardinality(Matches(Packet(c))) = 1,
                        cmd \in 0..(Len(lines) - 1), off \in 0..(Min({16, line}) - 1)
                 PROVE  self'[c].contents = ReadFrom(PositionOf(cmd, off))
    OBVIOUS
  <2>2. Fread(c)
    <3>1. ~UNCHANGED vars
      <4>1. ~UNCHANGED pc
        BY <2>1
      <4>. QED BY <4>1, Zenon DEF vars, threads
    <3>. QED BY <1>3, <2>1, <3>1, OnlyFread DEF SeekInv
  <2>3. fds[file[c]].kind = "dev"
    <3>1. fds[file[c]] = [kind |-> "dev", owner |-> c]
      BY <1>3, <2>1, StreamOwn DEF SeekInv
    <3>. QED BY <3>1
  <2>4. ~wedged /\ self' = [self EXCEPT ![c].contents = ReadFrom(self[c].pos)]
    BY <2>2, <2>3 DEF Fread
  <2>5. DOMAIN self = Client /\ DOMAIN self[c] = LocalNames
    BY <1>3, <2>1 DEF SeekInv, Texts, LocalsHeld, Working
  <2>6. lines \in Seq(Word) /\ Len(lines) \in Nat
    BY <1>3 DEF SeekInv, Texts
  <2>7. cmd \in Nat /\ line \in Nat
    <3>. DEFINE m == cmd
    <3>. HIDE DEF m
    <3>1. m \in 0..(Len(lines) - 1)
      BY <2>1 DEF m
    <3>2. m \in Nat /\ m + 1 \in 1..Len(lines)
      BY <2>6, <3>1
    <3>3. lines[m + 1] \in Seq(Letter)
      BY <2>6, <3>2 DEF Word
    <3>. QED BY <3>2, <3>3 DEF m
  <2>8. off \in 0..15
    <3>. DEFINE n == off
                l == line
                k == Min({16, l})
    <3>1. n \in 0..(k - 1) /\ l \in Nat
      BY <2>1, <2>7
    <3>. HIDE DEF n, l
    <3>2. {16, l} \in SUBSET Nat /\ {16, l} # {} /\ 16 \in {16, l}
      BY <3>1
    <3>3. k \in {16, l} /\ k <= 16
      BY <3>2, MinValue
    <3>. HIDE DEF k
    <3>4. n \in 0..15
      BY <3>1, <3>3
    <3>. QED BY <3>4 DEF n
  <2>9. self[c].args.write_cmd = cmd /\ self[c].args.write_cmd_offset = off
    <3>1. ScannedAsAsked(c)
      BY <1>3, <2>1 DEF SeekInv, Seeking, Commanded, Working
    <3>2. off \in Nat
      BY <2>8
    <3>. QED BY <2>1, <2>7, <3>1, <3>2 DEF ScannedAsAsked
  <2>10. self[c].pos = Target(c)
    BY <1>3, <2>1, <2>4, <2>8, <2>9 DEF SeekInv, Aimed
  <2>11. self'[c].contents = ReadFrom(self[c].pos)
    BY <2>4, <2>5 DEF LocalNames
  <2>. QED BY <2>9, <2>10, <2>11 DEF Target
<1>4. SeekInv /\ [Next]_vars => [\A c \in Client \ crossed : Reads(c)]_vars
  BY <1>3
<1>. QED BY <1>1, <1>2, <1>4, PTL DEF Spec, SeekReadsFromTarget

=============================================================================
