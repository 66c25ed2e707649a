-------------------------- MODULE MCCircularBuffer --------------------------
(* The circular buffer with its real number of slots, and entries of two   *)
(* sizes in two pieces of memory, told apart wherever they are stored.     *)
EXTENDS CircularBuffer

CONSTANTS p1, p2

MCEntries == {[buffptr |-> p1, size |-> 1], [buffptr |-> p2, size |-> 2]}
=============================================================================
