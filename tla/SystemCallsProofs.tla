-------------------------- MODULE SystemCallsProofs --------------------------
(***************************************************************************)
(* Proofs about the system call exercise, for any number of processes,     *)
(* commands and output files, with fork, open and dup2 that can fail and   *)
(* signals that can end a waitpid: the caller keeps its own output         *)
(* (OutputKept), has no child left when a call returns (NoChildLeft), is   *)
(* told no worse than what happened (ResultsRight), and finds the output   *)
(* of a successful command in the file (OutputComplete).                   *)
(*                                                                         *)
(* The argument: as long as no waitpid has failed, the processes form a    *)
(* chain in which each one waits for the next and only the last one acts   *)
(* (Single).  What a waiting process will be told is what its child has    *)
(* done so far (Waits, Outcome).                                           *)
(***************************************************************************)
EXTENDS SystemCalls, TLAPS

Steps == InCall \cup {"free", "program", "command", "written", "zombie"}

Redirects(c) == c.fn = "do_exec_redirect"

Calls ==
    {c \in [fn : {"do_system", "do_exec", "do_exec_redirect"},
            cmd : Commands, out : Outputs \cup {NULL}] : Redirects(c) => c.out \in Outputs}

Types ==
    /\ pc \in [Pid -> Steps]
    /\ parent \in [Pid -> Pid \cup {Nobody}]
    /\ image \in [Pid -> Commands \cup {NULL}]
    /\ call \in [Pid -> Calls \cup {NULL}]
    /\ pid \in [Pid -> Pid \cup {NULL}]
    /\ status \in [Pid -> (0..Killed) \cup {NULL}]
    /\ fd \in [Pid -> Outputs \cup {NULL}]
    /\ stdout \in [Pid -> Outputs \cup {Terminal}]
    /\ DOMAIN last = Pid
    /\ DOMAIN contents = Outputs
    /\ interrupted \in BOOLEAN

(* Where the output of p goes at each step, and which file it has open. *)
Own(p) ==
    LET c == call[p]
    IN  /\ pc[p] \in InCall \cup {"command", "written"} => c \in Calls
        /\ pc[p] \in {"program", "open"} => stdout[p] = Terminal /\ fd[p] = NULL
        /\ pc[p] \in {"fork", "wait", "child"} =>
              stdout[p] = Terminal /\ fd[p] = (IF Redirects(c) THEN c.out ELSE NULL)
        /\ pc[p] \in {"open", "close", "exec"} => Redirects(c)
        /\ pc[p] = "close" => stdout[p] = Terminal
        /\ pc[p] = "exec" => stdout[p] = c.out
        /\ pc[p] \in {"command", "written"} =>
              image[p] = c.cmd /\ (Redirects(c) => stdout[p] = c.out)

(* The steps of a child of do_exec_redirect: it never returns. *)
ChildSteps == {"child", "exec", "command", "written", "zombie"}

(* A process that waits has the child it waits for.  That of               *)
(* do_exec_redirect has ended with status 0 only as the command.           *)
Waits(p) ==
    pc[p] = "wait" =>
        LET q == pid[p]
        IN  /\ q \in Pid /\ parent[q] = p
            /\ Redirects(call[p]) =>
                  /\ call[q] = call[p]
                  /\ pc[q] \in ChildSteps
                  /\ pc[q] = "zombie" /\ status[q] = 0 =>
                        /\ image[q] # NULL
                        /\ ~interrupted => contents[call[p].out] = call[p].cmd

(* A process with a parent is not yet gone, and is waited for. *)
Child(q) ==
    /\ pc[q] = "zombie" => status[q] \in 0..Killed
    /\ parent[q] # Nobody => /\ pc[q] # "free"
                             /\ ~interrupted => pc[parent[q]] = "wait" /\ pid[parent[q]] = q

(* A process that is there and does not wait: the end of the chain. *)
AtFront(p) == pc[p] \notin {"free", "wait"}

Single == ~interrupted => \A p, q \in Pid : AtFront(p) /\ AtFront(q) => p = q

(* What the call of p is about to return, or has returned. *)
Outcome(p) ==
    ~interrupted =>
        /\ pc[p] = "written" /\ Redirects(call[p]) => contents[call[p].out] = call[p].cmd
        /\ pc[p] = "close" => /\ status[p] \in 0..Killed
                              /\ last[p].success = (status[p] = 0)
                              /\ status[p] = 0 => contents[call[p].out] = call[p].cmd
        /\ pc[p] = "program" /\ last[p].call # NULL =>
              /\ last[p].success => last[p].value
              /\ Redirects(last[p].call) => last[p].value = last[p].success

Inv ==
    /\ Types
    /\ Single
    /\ \A p \in Pid : Own(p) /\ Waits(p) /\ Child(p) /\ Outcome(p)

LEMMA InitInv == Init => Inv
  <1> SUFFICES ASSUME Init PROVE Inv
    OBVIOUS
  <1>1. Types
    BY ProcessAssumption DEF Init, Types, Steps, InCall
  <1>2. Single
    BY DEF Init, Single, AtFront
  <1>3. ASSUME NEW p \in Pid
        PROVE  Own(p) /\ Waits(p) /\ Child(p) /\ Outcome(p)
    BY DEF Init, Own, Waits, Child, Outcome, NoResult, InCall
  <1> QED
    BY <1>1, <1>2, <1>3 DEF Inv

(* The state of q is as it was. *)
Same(q) ==
    /\ pc'[q] = pc[q] /\ parent'[q] = parent[q] /\ image'[q] = image[q]
    /\ call'[q] = call[q] /\ pid'[q] = pid[q] /\ status'[q] = status[q]
    /\ fd'[q] = fd[q] /\ stdout'[q] = stdout[q] /\ last'[q] = last[q]

LEMMA SameKept ==
    ASSUME Inv, NEW q \in Pid, Same(q), interrupted' = interrupted \/ interrupted',
           contents' = contents \/ ~AtFront(q) \/ interrupted'
    PROVE  Own(q)' /\ Outcome(q)'
  <1>1. Own(q) /\ Outcome(q)
    BY DEF Inv
  <1>2. Own(q)'
    BY <1>1 DEF Same, Own
  <1>3. Outcome(q)'
    BY <1>1 DEF Same, Outcome, AtFront
  <1> QED
    BY <1>2, <1>3

(* A step of p alone, that neither begins nor ends a process: what is left *)
(* to show of it.                                                          *)
LEMMA LocalStep ==
    ASSUME Inv, NEW p \in Pid, Types', \A q \in Pid : q # p => Same(q),
           parent' = parent, pid' = pid, status' = status,
           pc'[p] \notin {"free", "wait", "zombie"},
           (interrupted' = interrupted /\ AtFront(p)) \/ interrupted',
           Redirects(call[p]) /\ pc[p] \in ChildSteps
               => call'[p] = call[p] /\ pc'[p] \in ChildSteps,
           Own(p)', Outcome(p)'
    PROVE  Inv'
  <1>1. Single'
    <2>1. \A q \in Pid : ~interrupted' => (AtFront(q)' <=> AtFront(q))
      BY DEF AtFront, Same
    <2> QED
      BY <2>1 DEF Inv, Single
  <1>2. ASSUME NEW q \in Pid
        PROVE  Own(q)' /\ Outcome(q)'
    <2>1. q # p => ~AtFront(q) \/ interrupted'
      BY DEF Inv, Single
    <2> QED
      BY <2>1, SameKept
  <1>3. ASSUME NEW r \in Pid
        PROVE  Waits(r)'
    <2> SUFFICES ASSUME pc'[r] = "wait" PROVE Waits(r)'
      BY DEF Waits
    <2>1. r # p
      OBVIOUS
    <2>2. Same(r) /\ pc[r] = "wait" /\ Waits(r)
      BY <2>1 DEF Same, Inv
    <2> DEFINE q == pid[r]
    <2>3. q \in Pid /\ parent[q] = r /\ pid'[r] = q /\ parent'[q] = r
      BY <2>2 DEF Waits
    <2>4. CASE q = p
      BY <2>2, <2>3, <2>4 DEF Waits, Same
    <2>5. CASE q # p
      <3>1. Same(q)
        BY <2>3, <2>5
      <3>2. pc[q] = "zombie" => interrupted'
        BY <2>3, <2>5 DEF Inv, Single, AtFront
      <3> QED
        BY <2>2, <2>3, <3>1, <3>2 DEF Waits, Same
    <2> QED
      BY <2>4, <2>5
  <1>4. ASSUME NEW q \in Pid
        PROVE  Child(q)'
    <2>1. Child(q) /\ parent[q] \in Pid \cup {Nobody}
      BY DEF Inv, Types
    <2>2. q # p => Same(q)
      OBVIOUS
    <2>3. parent[q] # Nobody /\ ~interrupted' => parent[q] # p /\ Same(parent[q])
      BY <2>1 DEF Child, AtFront
    <2> QED
      BY <2>1, <2>2, <2>3 DEF Child, Same
  <1> QED
    BY <1>1, <1>2, <1>3, <1>4 DEF Inv

(* Process p ends. *)
LEMMA EndStep ==
    ASSUME Inv, NEW p \in Pid, NEW how \in 0..Killed, End(p, how),
           pc[p] \in {"program", "fork", "child", "exec", "written"},
           pc[p] \in {"child", "exec"} => how # 0,
           UNCHANGED <<contents, interrupted>>
    PROVE  Inv'
  <1>0. Types /\ pc \in [Pid -> Steps] /\ parent \in [Pid -> Pid \cup {Nobody}]
    BY DEF Inv, Types
  <1>1. /\ UNCHANGED <<image, call, pid, fd, stdout, last>>
        /\ status' = [status EXCEPT ![p] = how]
        /\ pc'[p] = (IF parent[p] = Nobody THEN "free" ELSE "zombie")
        /\ \A q \in Pid : q # p =>
               /\ pc'[q] = IF parent[q] = p /\ pc[q] = "zombie" THEN "free" ELSE pc[q]
               /\ status'[q] = status[q]
        /\ \A q \in Pid : parent'[q] = IF parent[q] = p THEN Nobody ELSE parent[q]
        /\ status'[p] = how
    BY <1>0 DEF End, Types
  <1>2. Types'
    <2>1. pc' \in [Pid -> Steps] /\ parent' \in [Pid -> Pid \cup {Nobody}]
      BY <1>0 DEF End, Steps
    <2> QED
      BY <1>0, <1>1, <2>1 DEF Types
  <1>3. Single'
    BY <1>1 DEF Inv, Single, AtFront
  <1>4. ASSUME NEW q \in Pid
        PROVE  Own(q)' /\ Outcome(q)'
    <2>1. CASE pc'[q] \in {"free", "zombie"}
      BY <2>1 DEF Own, Outcome, InCall
    <2>2. CASE pc'[q] \notin {"free", "zombie"}
      <3>1. q # p /\ pc'[q] = pc[q] /\ status'[q] = status[q]
        BY <1>1, <2>2
      <3>2. Own(q) /\ Outcome(q)
        BY DEF Inv
      <3> QED
        BY <1>1, <3>1, <3>2 DEF Own, Outcome
    <2> QED
      BY <2>1, <2>2
  <1>5. ASSUME NEW r \in Pid
        PROVE  Waits(r)'
    <2> SUFFICES ASSUME pc'[r] = "wait" PROVE Waits(r)'
      BY DEF Waits
    <2>1. r # p /\ pc[r] = "wait"
      BY <1>1
    <2>2. Waits(r)
      BY DEF Inv
    <2> DEFINE q == pid[r]
    <2>3. q \in Pid /\ parent[q] = r /\ pid'[r] = q /\ parent'[q] = r /\ r # Nobody
      BY <1>1, <2>1, <2>2, ProcessAssumption DEF Waits
    <2>4. CASE q = p
      <3>1. Redirects(call[r]) =>
                /\ pc[p] \in {"child", "exec", "written"} /\ call[p] = call[r]
        BY <2>1, <2>2, <2>4 DEF Waits, ChildSteps
      <3>2. ASSUME Redirects(call[r]), how = 0
            PROVE  image[p] # NULL /\ (~interrupted => contents[call[r].out] = call[r].cmd)
        <4>1. pc[p] = "written" /\ call[p] = call[r]
          BY <3>1, <3>2
        <4>2. Own(p) /\ Outcome(p)
          BY DEF Inv
        <4>3. image[p] \in Commands
          BY <4>1, <4>2 DEF Own, Calls
        <4> QED
          BY <3>2, <4>1, <4>2, <4>3, OutputAssumption DEF Outcome
      <3>3. pc'[p] = "zombie"
        BY <1>1, <2>3, <2>4
      <3> QED
        BY <1>1, <2>1, <2>3, <2>4, <3>1, <3>2, <3>3 DEF Waits, ChildSteps
    <2>5. CASE q # p
      <3>1. pc'[q] = pc[q] /\ status'[q] = status[q]
        BY <1>1, <2>1, <2>3, <2>5
      <3> QED
        BY <1>1, <2>1, <2>2, <2>3, <3>1 DEF Waits
    <2> QED
      BY <2>4, <2>5
  <1>6. ASSUME NEW q \in Pid
        PROVE  Child(q)'
    <2>1. Child(q)
      BY DEF Inv
    <2>2. pc'[q] = "zombie" => status'[q] \in 0..Killed
      BY <1>1, <2>1 DEF Child
    <2>3. ASSUME parent'[q] # Nobody
          PROVE  /\ pc'[q] # "free"
                 /\ ~interrupted' => pc'[parent'[q]] = "wait" /\ pid'[parent'[q]] = q
      <3>1. parent'[q] = parent[q] /\ parent[q] # p /\ parent[q] \in Pid
        BY <1>0, <1>1, <2>3
      <3>2. pc[q] # "free" /\ (~interrupted => pc[parent[q]] = "wait" /\ pid[parent[q]] = q)
        BY <2>1, <2>3, <3>1 DEF Child
      <3> QED
        BY <1>1, <2>3, <3>1, <3>2
    <2> QED
      BY <2>2, <2>3 DEF Child
  <1> QED
    BY <1>2, <1>3, <1>4, <1>5, <1>6 DEF Inv

LEMMA ForkInv == ASSUME Inv, NEW p \in Pid, NEW q \in Pid, Fork(p, q) PROVE Inv'
  <1>0. Types
    BY DEF Inv
  <1>1. /\ pc[p] = "fork" /\ pc[q] = "free" /\ p # q
        /\ UNCHANGED <<contents, interrupted>>
    BY DEF Fork
  <1>2. /\ pc'[p] = "wait" /\ pc'[q] = "child"
        /\ parent'[q] = p /\ parent'[p] = parent[p] /\ pid'[p] = q
        /\ call'[p] = call[p] /\ call'[q] = call[p]
        /\ fd'[p] = fd[p] /\ fd'[q] = fd[p]
        /\ stdout'[p] = stdout[p] /\ stdout'[q] = stdout[p]
    BY <1>0, <1>1 DEF Fork, Copy, Types
  <1>3. ASSUME NEW r \in Pid, r # p, r # q
        PROVE  Same(r)
    BY <1>0, <1>3 DEF Fork, Copy, Types, Same
  <1>4. Types'
    BY <1>0 DEF Fork, Copy, Types, Steps, InCall
  <1>5. Own(p) /\ Child(p) /\ Child(q)
    BY DEF Inv
  <1>6. Single'
    BY <1>1, <1>2, <1>3 DEF Inv, Single, AtFront, Same
  <1>7. ASSUME NEW r \in Pid
        PROVE  Own(r)' /\ Outcome(r)'
    <2>1. CASE r \in {p, q}
      BY <1>1, <1>2, <1>5, <2>1 DEF Own, Outcome, InCall
    <2>2. CASE r \notin {p, q}
      BY <1>1, <1>3, <2>2, SameKept
    <2> QED
      BY <2>1, <2>2
  <1>8. ASSUME NEW r \in Pid
        PROVE  Waits(r)'
    <2>1. CASE r = p
      BY <1>1, <1>2, <2>1 DEF Waits, ChildSteps
    <2>2. CASE r = q
      BY <1>2, <2>2 DEF Waits
    <2>3. CASE r \notin {p, q}
      <3> SUFFICES ASSUME pc'[r] = "wait" PROVE Waits(r)'
        BY DEF Waits
      <3>1. Same(r) /\ Waits(r) /\ pc[r] = "wait"
        BY <1>3, <2>3 DEF Inv, Same
      <3> DEFINE x == pid[r]
      <3>2. x \in Pid /\ parent[x] = r /\ pid'[r] = x
        BY <3>1 DEF Waits, Same
      <3>3. pc[x] # "free"
        BY <3>2, ProcessAssumption DEF Inv, Child
      <3>4. x # q
        BY <1>1, <3>3
      <3>5. CASE x = p
        <4>1. ~Redirects(call[r])
          BY <1>1, <3>1, <3>5 DEF Waits, ChildSteps
        <4> QED
          BY <1>2, <3>1, <3>2, <3>5, <4>1 DEF Waits, Same
      <3>6. CASE x # p
        <4>1. Same(x)
          BY <1>3, <3>2, <3>4, <3>6
        <4> QED
          BY <1>1, <3>1, <3>2, <4>1 DEF Waits, Same
      <3> QED
        BY <3>5, <3>6
    <2> QED
      BY <2>1, <2>2, <2>3
  <1>9. ASSUME NEW r \in Pid
        PROVE  Child(r)'
    <2>0. Child(r) /\ parent[r] \in Pid \cup {Nobody}
      BY <1>0 DEF Inv, Types
    <2>1. CASE r = q
      BY <1>2, <2>1 DEF Child
    <2>2. CASE r # q
      <3>1. /\ parent'[r] = parent[r] /\ (pc'[r] = pc[r] \/ pc'[r] = "wait")
            /\ pc'[r] = "zombie" => status'[r] = status[r]
        BY <1>2, <1>3, <2>2 DEF Same
      <3>2. ASSUME parent[r] # Nobody, ~interrupted
            PROVE  pc'[parent[r]] = "wait" /\ pid'[parent[r]] = r
        <4>1. pc[parent[r]] = "wait" /\ pid[parent[r]] = r /\ parent[r] \in Pid
          BY <2>0, <3>2 DEF Child
        <4>2. Same(parent[r])
          BY <1>1, <1>3, <4>1
        <4> QED
          BY <4>1, <4>2 DEF Same
      <3> QED
        BY <1>1, <2>0, <3>1, <3>2 DEF Child
    <2> QED
      BY <2>1, <2>2
  <1> QED
    BY <1>4, <1>6, <1>7, <1>8, <1>9 DEF Inv

LEMMA WaitPidInv == ASSUME Inv, NEW p \in Pid, WaitPid(p) PROVE Inv'
  <1> DEFINE q == pid[p]
  <1>0. Types
    BY DEF Inv
  <1>1. /\ pc[p] = "wait" /\ pc[q] = "zombie" /\ p # q
        /\ UNCHANGED <<image, call, pid, fd, stdout, contents, interrupted>>
    BY DEF WaitPid, ChildEnded
  <1>2. q \in Pid /\ parent[q] = p /\ Waits(p) /\ Own(p) /\ status[q] \in 0..Killed
    BY <1>1 DEF Inv, Waits, Child
  <1>3. /\ pc'[p] = (IF Redirects(call[p]) THEN "close" ELSE "program") /\ pc'[q] = "free"
        /\ parent'[q] = Nobody /\ \A r \in Pid : r # q => parent'[r] = parent[r]
        /\ status'[p] = status[q]
        /\ last'[p] = [call |-> call[p], value |-> TRUE, success |-> CommandSucceeded(q)]
    BY <1>0, <1>1, <1>2 DEF WaitPid, Types, Redirects
  <1>4. ASSUME NEW r \in Pid, r # p, r # q
        PROVE  Same(r)
    BY <1>0, <1>1, <1>2, <1>4 DEF WaitPid, Types, Same
  <1>5. Types'
    BY <1>0, <1>2 DEF WaitPid, Types, Steps, InCall
  <1>6. Single'
    BY <1>1, <1>2, <1>3, <1>4 DEF Inv, Single, AtFront, Same
  <1>7. ASSUME NEW r \in Pid
        PROVE  Own(r)' /\ Outcome(r)'
    <2>1. CASE r = q
      BY <1>3, <2>1 DEF Own, Outcome, InCall
    <2>2. CASE r = p /\ Redirects(call[p])
      <3>1. pc'[p] = "close" /\ call'[p] = call[p] /\ stdout'[p] = stdout[p]
        BY <1>1, <1>3, <2>2
      <3>2. status[q] = 0 => image[q] # NULL /\ (~interrupted => contents[call[p].out] = call[p].cmd)
        BY <1>1, <1>2, <2>2 DEF Waits
      <3>3. last'[p].success = (status[q] = 0)
        BY <1>3, <3>2 DEF CommandSucceeded
      <3> QED
        BY <1>1, <1>2, <1>3, <2>2, <3>1, <3>2, <3>3 DEF Own, Outcome, InCall
    <2>3. CASE r = p /\ ~Redirects(call[p])
      BY <1>1, <1>2, <1>3, <2>3 DEF Own, Outcome, InCall
    <2>4. CASE r \notin {p, q}
      BY <1>1, <1>4, <2>4, SameKept
    <2> QED
      BY <2>1, <2>2, <2>3, <2>4
  <1>8. ASSUME NEW r \in Pid
        PROVE  Waits(r)'
    <2> SUFFICES ASSUME pc'[r] = "wait" PROVE Waits(r)'
      BY DEF Waits
    <2>1. r \notin {p, q} /\ Same(r) /\ Waits(r) /\ pc[r] = "wait"
      BY <1>3, <1>4 DEF Inv, Same
    <2> DEFINE x == pid[r]
    <2>2. x \in Pid /\ parent[x] = r /\ pid'[r] = x
      BY <2>1 DEF Waits, Same
    <2>3. x # q
      BY <1>2, <2>1, <2>2
    <2>4. CASE x = p
      <3>1. ~Redirects(call[r])
        BY <1>1, <2>1, <2>4 DEF Waits, ChildSteps
      <3> QED
        BY <1>3, <2>1, <2>2, <2>3, <2>4, <3>1 DEF Waits, Same
    <2>5. CASE x # p
      <3>1. Same(x)
        BY <1>4, <2>2, <2>3, <2>5
      <3> QED
        BY <1>1, <2>1, <2>2, <3>1 DEF Waits, Same
    <2> QED
      BY <2>4, <2>5
  <1>9. ASSUME NEW r \in Pid
        PROVE  Child(r)'
    <2>0. Child(r) /\ parent[r] \in Pid \cup {Nobody}
      BY <1>0 DEF Inv, Types
    <2>1. CASE r = q
      BY <1>3, <2>1 DEF Child
    <2>2. CASE r # q
      <3>1. /\ parent'[r] = parent[r] /\ (parent[r] # Nobody => pc'[r] # "free")
            /\ pc'[r] = "zombie" => status'[r] \in 0..Killed
        BY <1>1, <1>3, <1>4, <2>0, <2>2 DEF Same, Child
      <3>2. ASSUME parent[r] # Nobody, ~interrupted
            PROVE  pc'[parent[r]] = "wait" /\ pid'[parent[r]] = r
        <4>1. pc[parent[r]] = "wait" /\ pid[parent[r]] = r /\ parent[r] \in Pid
          BY <2>0, <3>2 DEF Child
        <4>2. Same(parent[r])
          BY <1>1, <1>4, <2>2, <4>1
        <4> QED
          BY <4>1, <4>2 DEF Same
      <3> QED
        BY <1>1, <3>1, <3>2 DEF Child
    <2> QED
      BY <2>1, <2>2
  <1> QED
    BY <1>5, <1>6, <1>7, <1>8, <1>9 DEF Inv
-----------------------------------------------------------------------------
(* The steps of one process. *)

LEMMA ProgramInv == ASSUME Inv, NEW p \in Pid, Program(p) PROVE Inv'
  <1>0. Types
    BY DEF Inv
  <1>1. CASE Exit(p)
    <2>1. 0 \in 0..Killed
      BY DEF Killed
    <2> QED
      BY <1>1, <2>1, EndStep DEF Exit
  <1>2. ASSUME NEW fn \in {"do_system", "do_exec", "do_exec_redirect"}, NEW cmd \in Commands,
               NEW out \in Outputs \cup {NULL}, fn = "do_exec_redirect" => out \in Outputs,
               NEW l \in {"program", "open", "fork"}, l = "open" <=> fn = "do_exec_redirect",
               Begin(p, fn, cmd, out), Goto(p, l)
        PROVE  Inv'
    <2> DEFINE c == [fn |-> fn, cmd |-> cmd, out |-> out]
    <2>1. c \in Calls
      BY <1>2 DEF Calls, Redirects
    <2>2. /\ pc[p] = "program" /\ UNCHANGED <<parent, image, pid, status, fd, stdout, contents, interrupted>>
          /\ call' = [call EXCEPT ![p] = c] /\ last' = [last EXCEPT ![p] = NoResult]
          /\ pc' = [pc EXCEPT ![p] = l]
      BY <1>2 DEF Begin, Goto
    <2>3. Redirects(c) <=> fn = "do_exec_redirect"
      BY DEF Redirects
    <2> HIDE DEF c
    <2>4. call'[p] = c /\ last'[p] = NoResult /\ pc'[p] = l
      BY <1>0, <2>2 DEF Types
    <2>5. \A q \in Pid : q # p => Same(q)
      BY <1>0, <2>2 DEF Types, Same
    <2>6. Types'
      BY <1>0, <2>1, <2>2 DEF Types, Steps, InCall
    <2>7. stdout[p] = Terminal /\ fd[p] = NULL
      BY <2>2 DEF Inv, Own
    <2>8. stdout'[p] = Terminal /\ fd'[p] = NULL
      BY <2>2, <2>7
    <2>9. Own(p)'
      <3>1. CASE l = "program"
        BY <3>1, <2>4, <2>8 DEF Own, InCall
      <3>2. CASE l = "open"
        BY <3>2, <1>2, <2>1, <2>3, <2>4, <2>8 DEF Own
      <3>3. CASE l = "fork"
        BY <3>3, <1>2, <2>1, <2>3, <2>4, <2>8 DEF Own
      <3> QED
        BY <3>1, <3>2, <3>3
    <2>10. last'[p].call = NULL
      BY <2>4 DEF NoResult
    <2>11. pc'[p] \notin {"written", "close"}
      BY <2>4
    <2>12. Outcome(p)'
      BY <2>10, <2>11 DEF Outcome
    <2> QED
      BY <2>2, <2>4, <2>5, <2>6, <2>9, <2>12, LocalStep DEF AtFront, ChildSteps
  <1>3. ASSUME NEW cmd \in Commands, do_system(p, cmd) \/ do_exec(p, cmd)
        PROVE  Inv'
    BY <1>2, <1>3 DEF do_system, do_exec
  <1>4. ASSUME NEW cmd \in Commands, NEW out \in Outputs, do_exec_redirect(p, cmd, out)
        PROVE  Inv'
    BY <1>2, <1>4 DEF do_exec_redirect
  <1> QED
    BY <1>1, <1>3, <1>4 DEF Program

(* The call fails before there is a child, or in the child of do_exec. *)
LEMMA ReturnInv ==
    ASSUME Inv, NEW p \in Pid, Return(p, FALSE, FALSE), AtFront(p),
           UNCHANGED <<parent, image, call, pid, status, fd, stdout, contents, interrupted>>,
           pc[p] \in ChildSteps => ~Redirects(call[p]),
           stdout[p] = Terminal, fd[p] = NULL
    PROVE  Inv'
  <1>0. Types
    BY DEF Inv
  <1>1. /\ pc'[p] = "program" /\ last'[p] = [call |-> call[p], value |-> FALSE, success |-> FALSE]
        /\ \A q \in Pid : q # p => Same(q)
    BY <1>0 DEF Return, Goto, Types, Same
  <1>2. Types'
    BY <1>0 DEF Return, Goto, Types, Steps
  <1>3. Own(p)' /\ Outcome(p)'
    BY <1>1 DEF Own, Outcome, InCall
  <1> QED
    BY <1>1, <1>2, <1>3, LocalStep

LEMMA OpenInv == ASSUME Inv, NEW p \in Pid, Open(p) PROVE Inv'
  <1>0. Types /\ Own(p)
    BY DEF Inv
  <1>1. pc[p] = "open" /\ UNCHANGED <<parent, image, call, pid, status, stdout, interrupted>>
    BY DEF Open
  <1>2. call[p] \in Calls /\ Redirects(call[p]) /\ stdout[p] = Terminal /\ fd[p] = NULL
    BY <1>0, <1>1 DEF Own, InCall
  <1>3. CASE Return(p, FALSE, FALSE) /\ UNCHANGED <<fd, contents>>
    BY <1>1, <1>2, <1>3, ReturnInv DEF AtFront, ChildSteps
  <1>4. CASE /\ fd' = [fd EXCEPT ![p] = call[p].out]
             /\ contents' = [contents EXCEPT ![call[p].out] = Empty]
             /\ Goto(p, "fork")
             /\ UNCHANGED last
    <2>1. call[p].out \in Outputs
      BY <1>2 DEF Calls
    <2>2. /\ pc'[p] = "fork" /\ fd'[p] = call[p].out
          /\ \A q \in Pid : q # p => Same(q)
      BY <1>0, <1>1, <1>4 DEF Goto, Types, Same
    <2>3. Types'
      BY <1>0, <1>1, <1>4, <2>1 DEF Goto, Types, Steps, InCall
    <2>4. Own(p)' /\ Outcome(p)'
      BY <1>1, <1>2, <2>2 DEF Own, Outcome
    <2> QED
      BY <1>1, <2>2, <2>3, <2>4, LocalStep DEF AtFront, ChildSteps
  <1> QED
    BY <1>3, <1>4 DEF Open

LEMMA ForkFailsInv == ASSUME Inv, NEW p \in Pid, ForkFails(p) PROVE Inv'
  <1>0. Own(p)
    BY DEF Inv
  <1>1. pc[p] = "fork" /\ UNCHANGED <<contents, interrupted>>
    BY DEF ForkFails
  <1>2. CASE Redirects(call[p])
    <2>1. End(p, Killed) /\ Killed \in 0..Killed
      BY <1>2 DEF ForkFails, abort, Redirects, Killed
    <2> QED
      BY <1>1, <2>1, EndStep
  <1>3. CASE ~Redirects(call[p])
    <2>1. /\ Return(p, FALSE, FALSE)
          /\ UNCHANGED <<parent, image, call, pid, status, fd, stdout>>
      BY <1>3 DEF ForkFails, Redirects
    <2>2. stdout[p] = Terminal /\ fd[p] = NULL
      BY <1>0, <1>1, <1>3 DEF Own
    <2> QED
      BY <1>1, <2>1, <2>2, ReturnInv DEF AtFront, ChildSteps
  <1> QED
    BY <1>2, <1>3

LEMMA Dup2Inv == ASSUME Inv, NEW p \in Pid, Dup2(p) PROVE Inv'
  <1>0. Types /\ Own(p)
    BY DEF Inv
  <1>1. pc[p] = "child" /\ Redirects(call[p]) /\ UNCHANGED <<contents, interrupted>>
    BY DEF Dup2, Redirects
  <1>2. call[p] \in Calls /\ call[p].out \in Outputs /\ fd[p] = call[p].out
    BY <1>0, <1>1 DEF Own, InCall, Calls
  <1>3. CASE abort(p)
    <2>1. End(p, Killed) /\ Killed \in 0..Killed /\ Killed # 0
      BY <1>3 DEF abort, Killed
    <2> QED
      BY <1>1, <2>1, EndStep
  <1>4. CASE /\ stdout' = [stdout EXCEPT ![p] = fd[p]]
             /\ Goto(p, "exec")
             /\ UNCHANGED <<parent, image, call, pid, status, fd, last>>
    <2>1. /\ pc'[p] = "exec" /\ stdout'[p] = call[p].out
          /\ \A q \in Pid : q # p => Same(q)
      BY <1>0, <1>2, <1>4 DEF Goto, Types, Same
    <2>2. Types'
      BY <1>0, <1>1, <1>2, <1>4 DEF Goto, Types, Steps, InCall
    <2>3. Own(p)' /\ Outcome(p)'
      BY <1>1, <1>2, <1>4, <2>1 DEF Own, Outcome
    <2> QED
      BY <1>1, <1>4, <2>1, <2>2, <2>3, LocalStep DEF AtFront, ChildSteps
  <1> QED
    BY <1>3, <1>4 DEF Dup2

LEMMA ExecvInv == ASSUME Inv, NEW p \in Pid, Execv(p) \/ ExecvFails(p) PROVE Inv'
  <1>0. Types /\ Own(p)
    BY DEF Inv
  <1>1. /\ UNCHANGED <<contents, interrupted>>
        /\ pc[p] = "exec" \/ (pc[p] = "child" /\ ~Redirects(call[p]))
    BY DEF Execv, ExecvFails, AtExecv, Redirects
  <1>2. call[p] \in Calls /\ call[p].cmd \in Commands
    BY <1>0, <1>1 DEF Own, InCall, Calls
  <1>3. CASE Execv(p)
    <2>1. UNCHANGED <<parent, call, pid, status, fd, stdout, last>>
      BY <1>3 DEF Execv
    <2>2. /\ pc'[p] = "command" /\ image'[p] = call[p].cmd
          /\ \A q \in Pid : q # p => Same(q)
      BY <1>0, <1>3 DEF Execv, Goto, Types, Same
    <2>3. Types'
      BY <1>0, <1>2, <1>3 DEF Execv, Goto, Types, Steps
    <2>4. Redirects(call[p]) => stdout[p] = call[p].out
      BY <1>0, <1>1 DEF Own
    <2>5. Own(p)' /\ Outcome(p)'
      BY <1>2, <2>1, <2>2, <2>4 DEF Own, Outcome
    <2> QED
      BY <1>1, <2>1, <2>2, <2>3, <2>5, LocalStep DEF AtFront, ChildSteps
  <1>4. CASE ExecvFails(p)
    <2>1. \/ /\ call[p].fn = "do_exec" /\ Return(p, FALSE, FALSE)
             /\ UNCHANGED <<parent, image, call, pid, status, fd, stdout>>
          \/ End(p, Killed) \/ End(p, 127)
      BY <1>4 DEF ExecvFails, ExecvFailed, abort
    <2>2. CASE /\ call[p].fn = "do_exec" /\ Return(p, FALSE, FALSE)
               /\ UNCHANGED <<parent, image, call, pid, status, fd, stdout>>
      <3>1. pc[p] = "child" /\ ~Redirects(call[p])
        BY <1>0, <1>1, <2>2 DEF Own, Redirects
      <3>2. stdout[p] = Terminal /\ fd[p] = NULL
        BY <1>0, <3>1 DEF Own
      <3> QED
        BY <1>1, <2>2, <3>1, <3>2, ReturnInv DEF AtFront
    <2>3. CASE End(p, Killed) \/ End(p, 127)
      <3>1. Killed \in 0..Killed /\ 127 \in 0..Killed /\ Killed # 0 /\ 127 # 0
        BY DEF Killed
      <3> QED
        BY <1>1, <2>3, <3>1, EndStep
    <2> QED
      BY <2>1, <2>2, <2>3
  <1> QED
    BY <1>3, <1>4

LEMMA CommandInv == ASSUME Inv, NEW p \in Pid, Command(p) PROVE Inv'
  <1>0. Types /\ Own(p)
    BY DEF Inv
  <1>1. pc[p] \in {"command", "written"} /\ UNCHANGED interrupted
    BY DEF Command, CommandWrites, CommandEnds
  <1>2. call[p] \in Calls /\ call[p].cmd \in Commands /\ image[p] = call[p].cmd
        /\ (Redirects(call[p]) => stdout[p] = call[p].out /\ call[p].out \in Outputs)
    BY <1>0, <1>1 DEF Own, Calls
  <1>3. CASE CommandWrites(p)
    <2>1. pc[p] = "command" /\ UNCHANGED <<parent, image, call, pid, status, fd, stdout, last>>
      BY <1>3 DEF CommandWrites
    <2>2. pc'[p] = "written" /\ \A q \in Pid : q # p => Same(q)
      BY <1>0, <1>3 DEF CommandWrites, Goto, Types, Same
    <2>3. Types'
      BY <1>0, <1>3 DEF CommandWrites, Goto, Types, Steps
    <2>4. Redirects(call[p]) => contents'[call[p].out] = call[p].cmd
      BY <1>0, <1>2, <1>3, OutputAssumption DEF CommandWrites, Types
    <2>5. Own(p)' /\ Outcome(p)'
      BY <1>2, <2>1, <2>2, <2>4 DEF Own, Outcome
    <2> QED
      BY <1>1, <2>1, <2>2, <2>3, <2>5, LocalStep DEF AtFront, ChildSteps
  <1>4. CASE CommandEnds(p)
    <2>1. pc[p] = "written" /\ End(p, image[p].status) /\ UNCHANGED contents
      BY <1>4 DEF CommandEnds
    <2>2. image[p].status \in 0..Killed
      BY <1>2, CommandAssumption
    <2> QED
      BY <1>1, <2>1, <2>2, EndStep
  <1> QED
    BY <1>3, <1>4 DEF Command

LEMMA WaitFailsInv == ASSUME Inv, NEW p \in Pid, WaitFails(p) PROVE Inv'
  <1>0. Types /\ Own(p)
    BY DEF Inv
  <1>1. /\ pc[p] = "wait" /\ interrupted'
        /\ UNCHANGED <<parent, image, call, pid, status, fd, stdout, contents>>
    BY DEF WaitFails
  <1>2. /\ pc'[p] = (IF Redirects(call[p]) THEN "close" ELSE "program")
        /\ \A q \in Pid : q # p => Same(q)
    BY <1>0 DEF WaitFails, Goto, Types, Same, Redirects
  <1>3. Types'
    BY <1>0 DEF WaitFails, Goto, Types, Steps, InCall
  <1>4. Own(p)' /\ Outcome(p)'
    BY <1>0, <1>1, <1>2 DEF Own, Outcome, InCall
  <1> QED
    BY <1>1, <1>2, <1>3, <1>4, LocalStep DEF ChildSteps

LEMMA CloseInv == ASSUME Inv, NEW p \in Pid, CloseAndReturn(p) PROVE Inv'
  <1>0. Types /\ Own(p) /\ Outcome(p)
    BY DEF Inv
  <1>1. /\ pc[p] = "close" /\ fd' = [fd EXCEPT ![p] = NULL]
        /\ UNCHANGED <<parent, image, call, pid, status, stdout, contents, interrupted>>
    BY DEF CloseAndReturn
  <1>2. PICK value \in IF status[p] = NULL THEN BOOLEAN ELSE {ExitedWithZero(status[p])} :
            Return(p, value, last[p].success)
    BY DEF CloseAndReturn
  <1>3. /\ pc'[p] = "program" /\ fd'[p] = NULL
        /\ last'[p] = [call |-> call[p], value |-> value, success |-> last[p].success]
        /\ \A q \in Pid : q # p => Same(q)
    BY <1>0, <1>1, <1>2 DEF Return, Goto, Types, Same
  <1>4. Types'
    BY <1>0, <1>1, <1>2 DEF Return, Goto, Types, Steps
  <1>5. ~interrupted => value = last[p].success
    BY <1>0, <1>1, <1>2, StatusAssumption DEF Outcome, ExitedWithZero
  <1>6. stdout[p] = Terminal
    BY <1>0, <1>1 DEF Own
  <1>7. Own(p)' /\ Outcome(p)'
    BY <1>1, <1>3, <1>5, <1>6 DEF Own, Outcome, InCall
  <1> QED
    BY <1>1, <1>3, <1>4, <1>7, LocalStep DEF AtFront, ChildSteps

LEMMA NextInv == Inv /\ [Next]_vars => Inv'
  <1> SUFFICES ASSUME Inv, [Next]_vars PROVE Inv'
    OBVIOUS
  <1>1. CASE UNCHANGED vars
    <2>1. UNCHANGED <<pc, parent, image, call, pid, status, fd, stdout, last, contents, interrupted>>
      BY <1>1 DEF vars, process
    <2> QED
      BY <2>1 DEF Inv, Types, Single, AtFront, Own, Waits, Child, Outcome
  <1>2. CASE Next
    BY <1>2, ProgramInv, OpenInv, ForkFailsInv, WaitPidInv, CloseInv, ForkInv, Dup2Inv, ExecvInv,
       CommandInv, WaitFailsInv DEF Next, Call
  <1> QED
    BY <1>1, <1>2

LEMMA Invariant == Spec => []Inv
  BY InitInv, NextInv, PTL DEF Spec
-----------------------------------------------------------------------------
(* Whatever fails, do_exec_redirect redirects the command only: a caller,  *)
(* or a copy of it that a failed execv left behind, has its own standard   *)
(* output and no output file open whenever it is not in a call.            *)
THEOREM OutputKept == Spec => []CallerKeepsItsOutput
  <1>1. Inv => CallerKeepsItsOutput
    BY DEF Inv, Own, CallerKeepsItsOutput
  <1> QED
    BY <1>1, Invariant, PTL

(* As long as no waitpid has failed, no process in the program has a child *)
(* that is still there: do_system, do_exec and do_exec_redirect leave no   *)
(* zombie behind, whichever of their steps fails.                          *)
THEOREM NoChildLeft == Spec => []ChildrenReaped
  <1>1. Inv => ChildrenReaped
    BY ProcessAssumption DEF Inv, Child, ChildrenReaped
  <1> QED
    BY <1>1, Invariant, PTL

(* As long as no waitpid has failed, a call that returns false has not     *)
(* succeeded, and do_exec_redirect returns true exactly when the command   *)
(* was executed and exited with 0.                                         *)
THEOREM ResultsRight == Spec => []ResultsNotWorse
  <1>1. Inv => ResultsNotWorse
    BY DEF Inv, Outcome, Redirects, ResultsNotWorse
  <1> QED
    BY <1>1, Invariant, PTL

(* When do_exec_redirect returns true and no waitpid has failed, the       *)
(* output file holds the output of the command and nothing else: no copy   *)
(* of the program that an earlier call left behind has written to it or    *)
(* truncated it in the meantime.                                           *)
THEOREM OutputComplete == Spec => OutputIsInFile
  <1>1. Inv /\ [Next]_vars =>
            [\A p \in Pid :
                /\ pc[p] = "close" /\ pc'[p] = "program" /\ ~interrupted
                /\ last'[p].value
                => contents[call[p].out] = call[p].cmd]_vars
    <2> SUFFICES ASSUME Inv, Next, NEW p \in Pid, pc[p] = "close", pc'[p] = "program",
                        ~interrupted, last'[p].value
                 PROVE  contents[call[p].out] = call[p].cmd
      BY Zenon
    <2>1. Types /\ Outcome(p) /\ Own(p)
      BY DEF Inv
    <2>2. CASE CloseAndReturn(p)
      <3>1. /\ status[p] \in 0..Killed
            /\ status[p] = 0 => contents[call[p].out] = call[p].cmd
        BY <2>1 DEF Outcome
      <3>2. PICK value \in {status[p] = 0} : Return(p, value, last[p].success)
        BY <2>2, <3>1, StatusAssumption DEF CloseAndReturn, ExitedWithZero
      <3>3. last'[p] = [call |-> call[p], value |-> value, success |-> last[p].success]
        BY <2>1, <3>2 DEF Return, Types
      <3>4. last'[p].value = value
        BY <3>3
      <3>5. status[p] = 0
        BY <3>2, <3>4
      <3> QED
        BY <3>1, <3>5
    <2>3. CASE ~CloseAndReturn(p)
      <3>1. PICK q \in Pid : Program(q) \/ Call(q) \/ Command(q) \/ WaitFails(q)
        BY DEF Next
      <3>2. CASE q = p
        BY <2>3, <3>1, <3>2
        DEF Program, Exit, do_system, do_exec, do_exec_redirect, Begin, Call, Open, ForkFails, WaitPid,
            Fork, Dup2, Execv, ExecvFails, AtExecv, Command, CommandWrites, CommandEnds, WaitFails
      <3>3. CASE q # p
        <4>1. ~AtFront(q)
          BY <3>3 DEF Inv, Single, AtFront
        <4>2. WaitPid(q) \/ WaitFails(q)
          BY <3>1, <4>1
          DEF AtFront, Program, Exit, do_system, do_exec, do_exec_redirect, Begin, Call, Open, ForkFails,
              CloseAndReturn, Fork, Dup2, Execv, ExecvFails, AtExecv, Command, CommandWrites, CommandEnds
        <4>3. pc'[p] \in {pc[p], "free"}
          <5>1. CASE WaitPid(q)
            <6>1. pc' = [pc EXCEPT ![pid[q]] = "free",
                                   ![q] = IF call[q].fn = "do_exec_redirect" THEN "close" ELSE "program"]
              BY <5>1 DEF WaitPid
            <6> QED
              BY <2>1, <3>3, <6>1 DEF Types
          <5>2. CASE WaitFails(q)
            BY <2>1, <3>3, <5>2 DEF WaitFails, Goto, Types
          <5> QED
            BY <4>2, <5>1, <5>2
        <4> QED
          BY <4>3
      <3> QED
        BY <3>2, <3>3
    <2> QED
      BY <2>2, <2>3
  <1> QED
    BY <1>1, Invariant, PTL DEF Spec, OutputIsInFile
=============================================================================
