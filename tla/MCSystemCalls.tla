--------------------------- MODULE MCSystemCalls ---------------------------
(* An instance of the system call exercise: commands of each outcome.      *)
EXTENDS SystemCalls, TLC

CommandOf(absolute, runs, end) == [absolute |-> absolute, runs |-> runs, status |-> end]

(* A command that exits with 0, one that exits with 1, one that is killed, *)
(* one that does not exist, and one that is refused for its path.          *)
AnyOutcome == {CommandOf(<<TRUE>>, TRUE, 0),
               CommandOf(<<TRUE>>, TRUE, 1),
               CommandOf(<<TRUE, FALSE>>, TRUE, Killed),
               CommandOf(<<FALSE, FALSE, TRUE>>, FALSE, 0),
               CommandOf(<<FALSE, FALSE>>, FALSE, 0)}
=============================================================================
