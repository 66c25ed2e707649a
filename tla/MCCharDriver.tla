---------------------------- MODULE MCCharDriver ----------------------------
(* Instances of the driver.  Two slots: the third line evicts the first.   *)
(* Two threads share an open file, the case with the most interleavings.   *)
EXTENDS CharDriver, TLC

CONSTANT a      \* a character other than the newline

(* Lines of two lengths. *)
TwoLengths == {<<NL>>, <<a, NL>>}

(* A step forward, which is out of range at the end of the contents. *)
Forward == {<<1, "SEEK_CUR">>}

(* Encoded as aesdsocket does: line 0 byte 1, and line 1 byte 0. *)
TwoTargets == {[write_cmd |-> 1, write_cmd_offset |-> 0], [write_cmd |-> 16, write_cmd_offset |-> 0]}

(* A line that a fault can cut, and the write of no bytes. *)
FaultyWrites == {<<a, NL>>, <<>>}

(* A step back from the end, out of range on an empty device. *)
Back == {<<-2, "SEEK_END">>}

(* Encoded: line 2, which a buffer of two slots does not have. *)
OutOfRange == {[write_cmd |-> 32, write_cmd_offset |-> 0]}

(* One line, one seek of each interface. *)
OneLine   == {<<NL>>}
OneSeek   == {<<0, "SEEK_END">>}
FirstLine == {[write_cmd |-> 0, write_cmd_offset |-> 0]}

(* Lines of two bytes, and byte 0 of line 1 as aesd_ioctl.h documents it. *)
TwoBytes   == {<<a, NL>>}
SecondLine == {[write_cmd |-> 1, write_cmd_offset |-> 0]}

Symmetry == Permutations(Ptr) \cup Permutations(Proc)
=============================================================================
