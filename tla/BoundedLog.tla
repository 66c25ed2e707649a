----------------------------- MODULE BoundedLog -----------------------------
(***************************************************************************)
(* What the circular buffer of aesd-char-driver promises its caller: a log *)
(* of the most recent Capacity entries, oldest first.  Adding to a full    *)
(* log drops the oldest entry, whose memory the caller gets back so that   *)
(* it can be freed; adding to a log that is not full gives nothing back.   *)
(***************************************************************************)
EXTENDS Naturals, Sequences

CONSTANTS
    Capacity,   \* most entries kept
    Entries,    \* records with the fields buffptr and size
    NULL        \* no memory handed back

VARIABLES
    log,        \* the entries kept, oldest first
    evicted     \* the memory the last addition handed back, or NULL

logVars == <<log, evicted>>

Empty ==
    /\ log = <<>>
    /\ evicted = NULL

(* The log after one more entry. *)
Pushed(l, e) == IF Len(l) < Capacity THEN Append(l, e) ELSE Append(Tail(l), e)

Push(e) ==
    /\ log' = Pushed(log, e)
    /\ evicted' = IF Len(log) < Capacity THEN NULL ELSE Head(log).buffptr

Clear ==
    /\ log' = <<>>
    /\ evicted' = NULL

LogNext == Clear \/ \E e \in Entries : Push(e)

LogSpec == Empty /\ [][LogNext]_logVars
=============================================================================
