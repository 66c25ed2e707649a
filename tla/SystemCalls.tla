---------------------------- MODULE SystemCalls ----------------------------
(***************************************************************************)
(* examples/systemcalls: do_system, do_exec and do_exec_redirect, as a     *)
(* program calls them one after the other.  A call forks a child that      *)
(* becomes the command, and waits for it.  A child whose execv fails is    *)
(* still the caller's program: where the code returns instead of ending    *)
(* the process, the call returns a second time, in the child.              *)
(*                                                                         *)
(* External: the caller, which may also exit; the commands; the kernel's   *)
(* fork, execv, dup2, waitpid and exit; the shell behind system().  The    *)
(* output of a command is one text, written at the start of its standard   *)
(* output.                                                                 *)
(***************************************************************************)
EXTENDS Naturals, Sequences

CONSTANTS
    Pid,            \* process identifiers
    Root,           \* the program's first process
    Commands,       \* what is asked for, see CommandAssumption
    Outputs,        \* the files named outputfile
    Faults,         \* whether fork, open and dup2 may fail
    Interrupts,     \* whether a caught signal may end a waitpid
    MaxCalls,       \* bound: calls a process makes, with those before its fork
    Terminal, Empty, NULL, Nobody

(* How a process ended: 0..255 by exit, Killed by a signal. *)
Killed == 256

(* A command has a list of arguments, of which we know whether they begin  *)
(* with a slash; it can be executed or not; it ends by exit with a number  *)
(* or by a signal.                                                         *)
ASSUME CommandAssumption ==
    \A cmd \in Commands :
        /\ cmd.absolute \in Seq(BOOLEAN) /\ Len(cmd.absolute) > 0
        /\ cmd.runs \in BOOLEAN
        /\ cmd.status \in 0..Killed
ASSUME ProcessAssumption == Root \in Pid /\ Nobody \notin Pid /\ NULL \notin Pid
ASSUME OutputAssumption == Terminal \notin Outputs /\ NULL \notin Outputs \cup Commands
ASSUME StatusAssumption == NULL \notin 0..Killed
ASSUME BoundAssumption == MaxCalls \in Nat /\ {Faults, Interrupts} \subseteq BOOLEAN

VARIABLES
    pc,             \* next step of each process; "free" if there is none
    parent,         \* Nobody when the parent is gone or outside the model
    image,          \* the command a process executes, NULL for the program
    call,           \* the call in progress: function, command, outputfile
    pid, status,    \* locals: the child, and what waitpid has stored
    fd, stdout,     \* the outputfile a process has open, its standard output
    calls,          \* number of calls made, for MaxCalls
    last,           \* what the last call returned and what its command did
    contents,       \* of the output files
    interrupted     \* history: some waitpid has failed

process == <<pc, parent, image, call, pid, status, fd, stdout, calls, last>>
vars    == <<process, contents, interrupted>>

NoResult == [call |-> NULL, value |-> FALSE, success |-> FALSE]

Init ==
    /\ pc = [p \in Pid |-> IF p = Root THEN "program" ELSE "free"]
    /\ parent = [p \in Pid |-> Nobody]
    /\ image = [p \in Pid |-> NULL]
    /\ call = [p \in Pid |-> NULL]
    /\ pid = [p \in Pid |-> NULL]
    /\ status = [p \in Pid |-> NULL]
    /\ fd = [p \in Pid |-> NULL]
    /\ stdout = [p \in Pid |-> Terminal]
    /\ calls = [p \in Pid |-> 0]
    /\ last = [p \in Pid |-> NoResult]
    /\ contents = [f \in Outputs |-> Empty]
    /\ interrupted = FALSE

Goto(p, step) == pc' = [pc EXCEPT ![p] = step]

(* The call of p returns value; success says whether the command was       *)
(* executed and ended with exit status 0.                                  *)
Return(p, value, success) ==
    /\ Goto(p, "program")
    /\ last' = [last EXCEPT ![p] = [call |-> call[p], value |-> value, success |-> success]]

(* Process p ends: it is a zombie until its parent has waited for it, its  *)
(* own children lose their parent and those already ended are gone.        *)
End(p, how) ==
    /\ pc' = [q \in Pid |->
                 IF q = p THEN (IF parent[p] = Nobody THEN "free" ELSE "zombie")
                 ELSE IF parent[q] = p /\ pc[q] = "zombie" THEN "free" ELSE pc[q]]
    /\ parent' = [q \in Pid |-> IF parent[q] = p THEN Nobody ELSE parent[q]]
    /\ status' = [status EXCEPT ![p] = how]
    /\ UNCHANGED <<image, call, pid, fd, stdout, calls, last>>

abort(p) == End(p, Killed)
-----------------------------------------------------------------------------
check_absolute_path(cmd, i) == cmd.absolute[i]

(* do_exec looks at the first of two arguments, at the last of three, and  *)
(* at none of any other number.                                            *)
PathRefused(cmd) ==
    LET count == Len(cmd.absolute)
    IN  \/ count = 2 /\ ~check_absolute_path(cmd, 1)
        \/ count = 3 /\ ~check_absolute_path(cmd, 3)

(* The program makes a call. *)
Begin(p, fn, cmd, out) ==
    /\ pc[p] = "program" /\ calls[p] < MaxCalls
    /\ calls' = [calls EXCEPT ![p] = @ + 1]
    /\ call' = [call EXCEPT ![p] = [fn |-> fn, cmd |-> cmd, out |-> out]]
    /\ last' = [last EXCEPT ![p] = NoResult]
    /\ UNCHANGED <<parent, image, pid, status, fd, stdout, contents, interrupted>>

do_system(p, cmd) == Begin(p, "do_system", cmd, NULL) /\ Goto(p, "fork")

do_exec(p, cmd) ==
    /\ Begin(p, "do_exec", cmd, NULL)
    /\ Goto(p, IF PathRefused(cmd) THEN "program" ELSE "fork")

do_exec_redirect(p, cmd, out) == Begin(p, "do_exec_redirect", cmd, out) /\ Goto(p, "open")

(* open with O_TRUNC; or it fails and so does the call. *)
Open(p) ==
    /\ pc[p] = "open"
    /\ \/ /\ fd' = [fd EXCEPT ![p] = call[p].out]
          /\ contents' = [contents EXCEPT ![call[p].out] = Empty]
          /\ Goto(p, "fork")
          /\ UNCHANGED last
       \/ /\ Faults
          /\ Return(p, FALSE, FALSE)
          /\ UNCHANGED <<fd, contents>>
    /\ UNCHANGED <<parent, image, call, pid, status, stdout, calls, interrupted>>

(* fork: the child q is a copy of p. *)
Copy(f, p, q) == [f EXCEPT ![q] = f[p]]

Fork(p, q) ==
    /\ pc[p] = "fork" /\ pc[q] = "free"
    /\ pc' = [pc EXCEPT ![p] = "wait", ![q] = "child"]
    /\ parent' = [parent EXCEPT ![q] = p]
    /\ pid' = [pid EXCEPT ![p] = q, ![q] = NULL]
    /\ image' = Copy(image, p, q) /\ call' = Copy(call, p, q)
    /\ fd' = Copy(fd, p, q) /\ stdout' = Copy(stdout, p, q)
    /\ calls' = Copy(calls, p, q) /\ last' = Copy(last, p, q)
    /\ status' = [status EXCEPT ![p] = NULL, ![q] = NULL]
    /\ UNCHANGED <<contents, interrupted>>

(* Without a process, do_exec_redirect ends the caller. *)
ForkFails(p) ==
    /\ pc[p] = "fork"
    /\ Faults \/ \A q \in Pid : pc[q] # "free"
    /\ IF call[p].fn = "do_exec_redirect"
       THEN abort(p)
       ELSE /\ Return(p, FALSE, FALSE)
            /\ UNCHANGED <<parent, image, call, pid, status, fd, stdout, calls>>
    /\ UNCHANGED <<contents, interrupted>>
-----------------------------------------------------------------------------
(* The child. *)

(* dup2(fd, 1). *)
Dup2(q) ==
    /\ pc[q] = "child" /\ call[q].fn = "do_exec_redirect"
    /\ \/ /\ stdout' = [stdout EXCEPT ![q] = fd[q]]
          /\ Goto(q, "exec")
          /\ UNCHANGED <<parent, image, call, pid, status, fd, calls, last>>
       \/ Faults /\ abort(q)
    /\ UNCHANGED <<contents, interrupted>>

AtExecv(q) ==
    \/ pc[q] = "exec"
    \/ pc[q] = "child" /\ call[q].fn # "do_exec_redirect"

Execv(q) ==
    /\ AtExecv(q) /\ call[q].cmd.runs
    /\ image' = [image EXCEPT ![q] = call[q].cmd]
    /\ Goto(q, "command")
    /\ UNCHANGED <<parent, call, pid, status, fd, stdout, calls, last, contents, interrupted>>

(* Fault: the child of do_exec_redirect returns as that of do_exec does. *)
ExecvFailed_Returns(q) ==
    /\ Return(q, FALSE, FALSE)
    /\ UNCHANGED <<parent, image, call, pid, status, fd, stdout, calls>>

(* Fault: the child tries again, for ever. *)
ExecvFailed_Retries(q) == UNCHANGED process

(* do_exec returns, in the child; do_exec_redirect aborts; the shell of    *)
(* system() exits with 127.                                                *)
ExecvFailed(q) ==
    CASE call[q].fn = "do_exec" ->
            /\ Return(q, FALSE, FALSE)
            /\ UNCHANGED <<parent, image, call, pid, status, fd, stdout, calls>>
      [] call[q].fn = "do_exec_redirect" -> abort(q)
      [] OTHER -> End(q, 127)

ExecvFails(q) ==
    /\ AtExecv(q) /\ ~call[q].cmd.runs
    /\ ExecvFailed(q)
    /\ UNCHANGED <<contents, interrupted>>

(* The command writes its output, and ends. *)
CommandWrites(q) ==
    /\ pc[q] = "command"
    /\ contents' = IF stdout[q] = Terminal THEN contents
                   ELSE [contents EXCEPT ![stdout[q]] = image[q]]
    /\ Goto(q, "written")
    /\ UNCHANGED <<parent, image, call, pid, status, fd, stdout, calls, last, interrupted>>

CommandEnds(q) ==
    /\ pc[q] = "written"
    /\ End(q, image[q].status)
    /\ UNCHANGED <<contents, interrupted>>

(* The program ends by itself. *)
Exit(p) ==
    /\ pc[p] = "program"
    /\ End(p, 0)
    /\ UNCHANGED <<contents, interrupted>>
-----------------------------------------------------------------------------
(* Fault: waitpid is told not to wait. *)
ChildEnded_NoHang(p) == TRUE

ChildEnded(p) == pc[pid[p]] = "zombie"

CommandSucceeded(q) == image[q] # NULL /\ status[q] = 0

(* waitpid returns.  do_exec, and do_system as long as system() does not   *)
(* return -1, do not look at the status.                                   *)
WaitPid(p) ==
    LET q == pid[p]
    IN  /\ pc[p] = "wait" /\ ChildEnded(p)
        /\ pc' = [pc EXCEPT ![q] = "free",
                            ![p] = IF call[p].fn = "do_exec_redirect" THEN "close" ELSE "program"]
        /\ parent' = [parent EXCEPT ![q] = Nobody]
        /\ status' = [status EXCEPT ![p] = status[q]]
        /\ last' = [last EXCEPT ![p] = [call |-> call[p], value |-> TRUE, success |-> CommandSucceeded(q)]]
        /\ UNCHANGED <<image, call, pid, fd, stdout, calls, contents, interrupted>>

(* A signal ends the wait; system() would wait again.  do_exec returns     *)
(* false; do_exec_redirect goes on without a status.                       *)
WaitFails(p) ==
    /\ Interrupts
    /\ pc[p] = "wait" /\ call[p].fn # "do_system"
    /\ interrupted' = TRUE
    /\ last' = [last EXCEPT ![p] = [call |-> call[p], value |-> FALSE, success |-> FALSE]]
    /\ Goto(p, IF call[p].fn = "do_exec_redirect" THEN "close" ELSE "program")
    /\ UNCHANGED <<parent, image, call, pid, status, fd, stdout, calls, contents>>

(* Fault: the exit status alone is looked at, which is 0 after a signal. *)
ExitedWithZero_Signalled(s) == s \in {0, Killed}

(* WIFEXITED(status) && WEXITSTATUS(status) == 0 *)
ExitedWithZero(s) == s = 0

(* close(fd), and the result.  A status that waitpid has not stored is     *)
(* whatever the stack held.                                                *)
CloseAndReturn(p) ==
    /\ pc[p] = "close"
    /\ fd' = [fd EXCEPT ![p] = NULL]
    /\ \E value \in IF status[p] = NULL THEN BOOLEAN ELSE {ExitedWithZero(status[p])} :
          Return(p, value, last[p].success)
    /\ UNCHANGED <<parent, image, call, pid, status, stdout, calls, contents, interrupted>>
-----------------------------------------------------------------------------
Program(p) ==
    \/ Exit(p)
    \/ \E cmd \in Commands : \/ do_system(p, cmd) \/ do_exec(p, cmd)
                             \/ \E out \in Outputs : do_exec_redirect(p, cmd, out)

Call(p) ==
    \/ Open(p) \/ ForkFails(p) \/ WaitPid(p) \/ CloseAndReturn(p)
    \/ \E q \in Pid : Fork(p, q)
    \/ Dup2(p) \/ Execv(p) \/ ExecvFails(p)

Command(p) == CommandWrites(p) \/ CommandEnds(p)

Next == \E p \in Pid : Program(p) \/ Call(p) \/ Command(p) \/ WaitFails(p)

Spec == Init /\ [][Next]_vars

(* Processes run, commands end, and so does the program.  Signals need not *)
(* come.                                                                   *)
Fairness == \A p \in Pid : WF_vars(Program(p)) /\ WF_vars(Call(p)) /\ WF_vars(Command(p))

FairSpec == Spec /\ Fairness
-----------------------------------------------------------------------------
InCall == {"open", "fork", "wait", "close", "child", "exec"}

(* Whatever fails, in the caller or in a child that is still the caller's  *)
(* program, do_exec_redirect redirects the command only and has closed the *)
(* output file when it returns.                                            *)
CallerKeepsItsOutput ==
    \A p \in Pid : pc[p] = "program" => stdout[p] = Terminal /\ fd[p] = NULL

(* A call returns when its child has ended and been waited for: no process *)
(* in the program has a child, unless a waitpid failed.                    *)
ChildrenReaped ==
    ~interrupted =>
        \A p, q \in Pid : pc[p] = "program" /\ parent[q] = p => pc[q] = "free"

(* do_exec_redirect returns true if and only if the command was executed   *)
(* and exited with 0, and the others return false only when it did not;    *)
(* unless a waitpid failed.                                                *)
ResultsNotWorse ==
    ~interrupted =>
        \A p \in Pid : pc[p] = "program" /\ last[p].call # NULL =>
            /\ last[p].success => last[p].value
            /\ last[p].call.fn = "do_exec_redirect" => last[p].value = last[p].success

(* When do_exec_redirect returns true the whole output of the command is   *)
(* in the output file, and nothing else, although earlier calls may have   *)
(* failed and left copies of the program; unless a waitpid failed.         *)
OutputIsInFile ==
    [][\A p \in Pid :
          /\ pc[p] = "close" /\ pc'[p] = "program" /\ ~interrupted
          /\ last'[p].value
          => contents[call[p].out] = call[p].cmd]_vars

(* A call ends, by returning or with its process, as long as commands and  *)
(* the program do: a caller is not left waiting for a child that cannot    *)
(* execute its command.                                                    *)
EveryCallEnds ==
    \A p \in Pid : pc[p] \in InCall ~> pc[p] \notin InCall
=============================================================================
