--------------------------- MODULE CircularBuffer ---------------------------
(***************************************************************************)
(* The circular buffer of aesd-char-driver on its own: one caller adds     *)
(* entries one at a time and may initialise the buffer again; lookups are  *)
(* pure and are compared, in every reachable state, with a reference that  *)
(* concatenates the entries.  Locking is the caller's (CharDriver).        *)
(***************************************************************************)
EXTENDS CircularBufferOps, SequencesExt

CONSTANT Entries    \* the struct aesd_buffer_entry values callers add

(* Callers add memory they own, with at least one byte in it. *)
ASSUME EntriesAssumption ==
    \A e \in Entries : /\ e = [buffptr |-> e.buffptr, size |-> e.size]
                       /\ e.buffptr # NULL
                       /\ e.size \in Nat \ {0}

VARIABLES
    buffer,     \* struct aesd_circular_buffer
    returned    \* what the last aesd_circular_buffer_add_entry returned

vars == <<buffer, returned>>

Init ==
    /\ buffer = aesd_circular_buffer_init
    /\ returned = NULL

AddEntry(e) ==
    /\ buffer' = aesd_circular_buffer_add_entry(buffer, e)
    /\ returned' = ptr_return(buffer)

Reinit ==
    /\ buffer' = aesd_circular_buffer_init
    /\ returned' = NULL

Next == Reinit \/ \E e \in Entries : AddEntry(e)

Spec == Init /\ [][Next]_vars
-----------------------------------------------------------------------------
TypeOK ==
    /\ buffer \in [entry    : [Slots -> Entries \cup {EmptyEntry}],
                   in_offs  : Slots,
                   out_offs : Slots,
                   full     : BOOLEAN]
    /\ returned \in {e.buffptr : e \in Entries} \cup {NULL}

(* The full flag tells a full buffer from an empty one although in_offs    *)
(* equals out_offs in both: nothing is ever taken out, so out_offs leaves  *)
(* slot 0 only once every slot is in use, and until then exactly the slots *)
(* below in_offs are.                                                      *)
Occupancy ==
    /\ buffer.full  => /\ buffer.in_offs = buffer.out_offs
                       /\ \A i \in Slots : buffer.entry[i] \in Entries
    /\ ~buffer.full => /\ buffer.out_offs = 0
                       /\ \A i \in Slots : i < buffer.in_offs <=> buffer.entry[i] \in Entries

(* The bytes of the entries concatenated end to end, each named by its     *)
(* entry's place in the log and its offset in the entry: the position that *)
(* the comment on aesd_circular_buffer_find_entry_offset_for_fpos means.   *)
Concatenation ==
    LET log == OldestFirst(buffer)
    IN  FlattenSeq([k \in DOMAIN log |-> [i \in 1..log[k].size |-> <<k, i - 1>>]])

(* A lookup finds exactly the byte at that position of the concatenation,  *)
(* and nothing for a position past the last byte written.                  *)
FindIsByteAtOffset ==
    \A off \in 0 .. Len(Concatenation) + 1 :
        LET found == aesd_circular_buffer_find_entry_offset_for_fpos(buffer, off)
        IN  IF off < Len(Concatenation)
            THEN found = [slot   |-> Wrap(buffer.out_offs, Concatenation[off + 1][1] - 1),
                          offset |-> Concatenation[off + 1][2]]
            ELSE found = NULL

(* The position aesd_circular_buffer_get_fpos computes for a byte of an    *)
(* entry is the one where a later lookup finds that byte; the position for *)
(* an entry not written yet is one where a lookup finds nothing.           *)
SeekThenFind ==
    \A k \in Slots :
        LET slot == Wrap(buffer.out_offs, k)
            FoundAt(o) == aesd_circular_buffer_find_entry_offset_for_fpos(
                              buffer, aesd_circular_buffer_get_fpos(buffer, k, o))
        IN  IF k < Count(buffer)
            THEN \A o \in 0 .. buffer.entry[slot].size - 1 :
                     FoundAt(o) = [slot |-> slot, offset |-> o]
            ELSE FoundAt(0) = NULL

(* The buffer is a log of the N most recent entries, and hands back the    *)
(* oldest entry's memory exactly when it drops that entry.                 *)
Log == INSTANCE BoundedLog WITH
           Capacity <- N, log <- OldestFirst(buffer), evicted <- returned
LogSpec == Log!LogSpec
=============================================================================
