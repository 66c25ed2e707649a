------------------------------ MODULE LineLog ------------------------------
(***************************************************************************)
(* What the aesdchar device promises the processes that write to it: the   *)
(* bytes of all writers form one stream, cut into lines; the device keeps  *)
(* the Capacity most recent complete lines and the unfinished one.  A      *)
(* write takes effect at one instant and as a whole, or it fails and       *)
(* changes nothing.  Unloading the driver forgets everything.              *)
(***************************************************************************)
EXTENDS Naturals, Sequences

CONSTANTS
    Capacity,   \* most lines kept
    Payloads,   \* what writers pass to write()
    NL          \* the newline character

VARIABLES
    lines,      \* complete lines, oldest first
    partial     \* the bytes after the last complete line

lineVars == <<lines, partial>>

Blank ==
    /\ lines = <<>>
    /\ partial = <<>>

(* The first k bytes of a write are accepted.  A line is complete when the *)
(* write is accepted to its end and that end is a newline: a newline       *)
(* inside a write does not end a line.                                     *)
Accept(w, k) ==
    LET bytes == partial \o SubSeq(w, 1, k)
    IN  IF k = Len(w) /\ w[k] = NL
        THEN /\ lines' = IF Len(lines) < Capacity THEN Append(lines, bytes)
                                                  ELSE Append(Tail(lines), bytes)
             /\ partial' = <<>>
        ELSE /\ partial' = bytes
             /\ UNCHANGED lines

Forget ==
    /\ lines' = <<>>
    /\ partial' = <<>>

LineNext == Forget \/ \E w \in Payloads : \E k \in 1..Len(w) : Accept(w, k)

LineSpec == Blank /\ [][LineNext]_lineVars
=============================================================================
