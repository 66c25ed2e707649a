-------------------------- MODULE CircularBufferOps --------------------------
(***************************************************************************)
(* The functions of aesd-circular-buffer.c, as operators on the value of a *)
(* struct aesd_circular_buffer.  The state machine of the buffer alone is  *)
(* in CircularBuffer; the driver (CharDriver) applies the same operators   *)
(* to the buffer inside its aesd_device.                                   *)
(***************************************************************************)
EXTENDS Integers

CONSTANTS
    N,      \* AESDCHAR_MAX_WRITE_OPERATIONS_SUPPORTED, 10 in the code
    NULL    \* the null pointer

(* in_offs and out_offs are uint8_t, so the array has at most 255 slots.   *)
ASSUME NAssumption == N \in 1..255

(* No entry is at the null pointer: a lookup that finds one is told from   *)
(* one that finds nothing.                                                 *)
ASSUME NullAssumption == NULL \notin [slot : Nat, offset : Nat]

Slots == 0 .. N - 1

(* A struct aesd_buffer_entry after memset(0). *)
EmptyEntry == [buffptr |-> NULL, size |-> 0]

aesd_circular_buffer_init ==
    [entry    |-> [i \in Slots |-> EmptyEntry],
     in_offs  |-> 0,
     out_offs |-> 0,
     full     |-> FALSE]

(* Fault: no wrap-around. *)
Wrap_Never(offs, k) == offs + k

(* The array index reached k places after offs, with wrap-around. *)
Wrap(offs, k) == (offs + k) % N

(* Fault: the old out_offs is compared, so full is set one entry early. *)
add_entry_StaleOut(buffer, add_entry) ==
    LET in  == Wrap(buffer.in_offs, 1)
        out == IF buffer.full THEN Wrap(buffer.out_offs, 1) ELSE buffer.out_offs
    IN  [entry    |-> [buffer.entry EXCEPT ![buffer.in_offs] = add_entry],
         in_offs  |-> in,
         out_offs |-> out,
         full     |-> in = buffer.out_offs]

(* Fault: out_offs stays behind when the oldest entry is overwritten. *)
add_entry_OutStays(buffer, add_entry) ==
    LET in == Wrap(buffer.in_offs, 1)
    IN  [entry    |-> [buffer.entry EXCEPT ![buffer.in_offs] = add_entry],
         in_offs  |-> in,
         out_offs |-> buffer.out_offs,
         full     |-> buffer.full \/ in = buffer.out_offs]

(* The buffer after aesd_circular_buffer_add_entry: in_offs moves on, and  *)
(* out_offs with it when the entry overwritten was the oldest one.         *)
aesd_circular_buffer_add_entry(buffer, add_entry) ==
    LET in  == Wrap(buffer.in_offs, 1)
        out == IF buffer.full THEN Wrap(buffer.out_offs, 1) ELSE buffer.out_offs
    IN  [entry    |-> [buffer.entry EXCEPT ![buffer.in_offs] = add_entry],
         in_offs  |-> in,
         out_offs |-> out,
         full     |-> in = out]

(* Fault: the overwritten pointer is never handed back. *)
ptr_return_Never(buffer) == NULL

(* What aesd_circular_buffer_add_entry returns: the pointer it overwrote,  *)
(* for the caller to free, when the buffer was full.                       *)
ptr_return(buffer) ==
    IF buffer.full THEN buffer.entry[buffer.in_offs].buffptr ELSE NULL

(* The value of pos in the scan from out_offs, after the first k entries.  *)
BytesBefore(buffer) ==
    LET pos[k \in 0..N] ==
            IF k = 0 THEN 0
            ELSE pos[k-1] + buffer.entry[Wrap(buffer.out_offs, k - 1)].size
    IN  pos

(* Fault: an offset at the end of an entry is still found in it. *)
find_entry_PastEnd(buffer, char_offset) ==
    LET pos   == BytesBefore(buffer)
        stops == {k \in Slots : pos[k+1] = 0 \/ char_offset <= pos[k+1]}
        k     == CHOOSE i \in stops : \A j \in stops : i <= j
    IN  IF stops = {} \/ pos[k+1] = 0
        THEN NULL
        ELSE [slot   |-> Wrap(buffer.out_offs, k),
              offset |-> char_offset - pos[k]]

(* Where char_offset is found: the slot of its entry and its offset there. *)
(* The scan gives up when nothing has been counted after an entry.         *)
aesd_circular_buffer_find_entry_offset_for_fpos(buffer, char_offset) ==
    LET pos   == BytesBefore(buffer)
        stops == {k \in Slots : pos[k+1] = 0 \/ char_offset < pos[k+1]}
        k     == CHOOSE i \in stops : \A j \in stops : i <= j
    IN  IF stops = {} \/ pos[k+1] = 0
        THEN NULL
        ELSE [slot   |-> Wrap(buffer.out_offs, k),
              offset |-> char_offset - pos[k]]

(* Fault: the scan starts at slot 0 instead of out_offs. *)
get_fpos_FromSlotZero(buffer, buff_pos, offset) ==
    BytesBefore([buffer EXCEPT !.out_offs = 0])[IF buff_pos < N THEN buff_pos ELSE N] + offset

(* The file position of byte offset of the buff_pos-th oldest entry.  An   *)
(* index past the last slot leaves the loop with every entry counted.      *)
aesd_circular_buffer_get_fpos(buffer, buff_pos, offset) ==
    BytesBefore(buffer)[IF buff_pos < N THEN buff_pos ELSE N] + offset

(* The occupied slots, oldest first, and the entries in them. *)
Count(buffer) == IF buffer.full THEN N ELSE (buffer.in_offs + N - buffer.out_offs) % N
OldestFirst(buffer) ==
    [k \in 1..Count(buffer) |-> buffer.entry[Wrap(buffer.out_offs, k - 1)]]
=============================================================================
