------------------------ MODULE CircularBufferProofs ------------------------
(***************************************************************************)
(* Proofs about the circular buffer, for every number of slots N and every *)
(* set of entries: the offsets and the full flag describe the occupied     *)
(* slots (BufferInvariant), the buffer is the log of its N most recent     *)
(* entries (BufferIsLog), and the two scans agree with the concatenation   *)
(* of the entries and with each other (FindIsRight, SeekIsRight).          *)
(***************************************************************************)
EXTENDS CircularBuffer, CircularBufferOpsProofs

(* An unused slot is never mistaken for an entry: its pointer is NULL. *)
LEMMA EmptyIsNoEntry == EmptyEntry \notin Entries
  BY EntriesAssumption DEF EmptyEntry

LEMMA SizesPositive == \A e \in Entries : e.size \in Nat \ {0}
  BY EntriesAssumption

(* The type and occupancy invariants of the buffer, together inductive:    *)
(* they say that the buffer is well formed.                                *)
BufferInv == TypeOK /\ Occupancy

LEMMA InvWellFormed == BufferInv => WellFormed(buffer, Entries)
  BY DEF BufferInv, TypeOK, Occupancy, WellFormed

LEMMA BufferInvInductive ==
    /\ Init => BufferInv
    /\ BufferInv /\ [Next]_vars => BufferInv'
  <1>1. ASSUME buffer = aesd_circular_buffer_init, returned = NULL
        PROVE  BufferInv
    <2>1. WellFormed(buffer, Entries)
      BY <1>1, EmptyIsNoEntry, InitWellFormed
    <2> QED
      BY <1>1, <2>1 DEF WellFormed, BufferInv, TypeOK, Occupancy
  <1>2. Init => BufferInv
    BY <1>1 DEF Init
  <1>3. ASSUME BufferInv, NEW e \in Entries, AddEntry(e)
        PROVE  BufferInv'
    <2>1. WellFormed(buffer', Entries)
      BY <1>3, EmptyIsNoEntry, InvWellFormed, AddWellFormed DEF AddEntry
    <2>2. returned' \in {x.buffptr : x \in Entries} \cup {NULL}
      BY <1>3 DEF AddEntry, ptr_return, BufferInv, TypeOK, Occupancy
    <2> QED
      BY <2>1, <2>2 DEF WellFormed, BufferInv, TypeOK, Occupancy
  <1>4. ASSUME Reinit
        PROVE  BufferInv'
    <2>1. WellFormed(buffer', Entries)
      BY <1>4, EmptyIsNoEntry, InitWellFormed DEF Reinit
    <2> QED
      BY <1>4, <2>1 DEF Reinit, WellFormed, BufferInv, TypeOK, Occupancy
  <1>5. ASSUME BufferInv, UNCHANGED vars
        PROVE  BufferInv'
    BY <1>5 DEF vars, BufferInv, TypeOK, Occupancy
  <1> QED
    BY <1>2, <1>3, <1>4, <1>5 DEF Next

LEMMA BufferInvAlways == Spec => []BufferInv
  BY BufferInvInductive, PTL DEF Spec

(* The buffer's parts keep their types: in_offs and out_offs never leave   *)
(* the array, and what is returned is a pointer some caller added.         *)
THEOREM BufferTyped == Spec => []TypeOK
  BY BufferInvAlways, PTL DEF BufferInv

(* For every number of slots, the flag and the offsets that                *)
(* aesd_circular_buffer_add_entry maintains say which slots are in use.    *)
THEOREM BufferInvariant == Spec => []Occupancy
  BY BufferInvAlways, PTL DEF BufferInv
-----------------------------------------------------------------------------
(* Every behaviour of the circular buffer, whatever its size, is one of    *)
(* the bounded log: it keeps the N most recent entries in order and hands  *)
(* back exactly the memory of the entries it drops.                        *)
THEOREM BufferIsLog == Spec => LogSpec
  <1>1. Init => Log!Empty
    BY InitIsEmpty DEF Init, Log!Empty
  <1>2. BufferInv /\ [Next]_vars => [Log!LogNext]_(Log!logVars)
    <2>1. ASSUME BufferInv, NEW e \in Entries, AddEntry(e)
          PROVE  Log!Push(e)
      <3>1. LET L == OldestFirst(buffer)
            IN  /\ OldestFirst(aesd_circular_buffer_add_entry(buffer, e)) =
                       IF Len(L) < N THEN Append(L, e) ELSE Append(Tail(L), e)
                /\ ptr_return(buffer) = IF Len(L) < N THEN NULL ELSE Head(L).buffptr
        BY <2>1, EmptyIsNoEntry, InvWellFormed, AddIsPush
      <3> QED
        BY <2>1, <3>1 DEF AddEntry, Log!Push, Log!Pushed
    <2>2. ASSUME Reinit
          PROVE  Log!LogNext
      BY <2>2, InitIsEmpty DEF Reinit, Log!LogNext, Log!Clear
    <2>3. ASSUME UNCHANGED vars
          PROVE  UNCHANGED Log!logVars
      BY <2>3 DEF vars, Log!logVars
    <2> QED
      BY <2>1, <2>2, <2>3 DEF Next, Log!LogNext
  <1> QED
    BY <1>1, <1>2, BufferInvAlways, PTL DEF Spec, LogSpec, Log!LogSpec
-----------------------------------------------------------------------------
(* The concatenation is as long as the scan over all slots counts, and     *)
(* has byte o of entry k where the scan has counted the entries before k.  *)
LEMMA ConcatenationValue ==
    ASSUME BufferInv
    PROVE  LET B == BytesBefore(buffer)
               L == OldestFirst(buffer)
           IN  /\ Len(Concatenation) = B[N]
               /\ \A k \in 1..Len(L) : \A i \in 1..L[k].size :
                      Concatenation[B[k-1] + i] = <<k, i - 1>>
  <1> DEFINE B == BytesBefore(buffer)
             L == OldestFirst(buffer)
             n == Len(L)
             T == Nat \X Int
             s == [k \in DOMAIN L |-> [i \in 1..L[k].size |-> <<k, i - 1>>]]
  <1>0. 0 \in Slots /\ N \in Nat
    BY NAssumption DEF Slots
  <1>1. WellFormed(buffer, Entries) /\ EmptyEntry \notin Entries
    BY InvWellFormed, EmptyIsNoEntry
  <1>2. L \in Seq(Entries)
    BY <1>1, LogValue
  <1>3. n \in 0..N
    BY <1>0, <1>1, SlotValue
  <1>4. DOMAIN L = 1..n /\ n \in Nat
    BY <1>2, LenProperties
  <1>5. B[N] = B[n]
    BY <1>0, <1>1, <1>3, SizesPositive, Positions
  <1>6. Concatenation = FlattenSeq(s)
    BY DEF Concatenation
  <1> HIDE DEF L, n
  <1>7. ASSUME NEW k \in 1..n
        PROVE  /\ L[k].size \in Nat
               /\ s[k] = [i \in 1..L[k].size |-> <<k, i - 1>>]
               /\ s[k] \in Seq(T) /\ Len(s[k]) = L[k].size
    <2>1. L[k] \in Entries
      BY <1>2, <1>4, ElementOfSeq DEF n
    <2>2. L[k].size \in Nat
      BY <2>1, SizesPositive
    <2>3. s[k] = [i \in 1..L[k].size |-> <<k, i - 1>>]
      BY <1>4
    <2>4. s[k] \in [1..L[k].size -> T]
      BY <1>4, <2>2, <2>3
    <2> HIDE DEF s, T
    <2> QED
      BY <2>2, <2>3, <2>4, FunctionIsSeq
  <1>8. s \in [1..n -> Seq(T)]
    <2> HIDE DEF T
    <2> QED
      BY <1>4, <1>7
  <1> HIDE DEF s, T
  <1>9. Joins(FlattenSeq(s), T, s, BytesBefore(buffer), n)
    <2>1. n \in 0..Len(OldestFirst(buffer))
      BY <1>3 DEF n, L
    <2>2. \A k \in 1..n : Len(s[k]) = OldestFirst(buffer)[k].size
      BY <1>7 DEF L
    <2> QED
      BY <1>1, <1>8, <2>1, <2>2, SizesPositive, ContentsValue
  <1>10. Len(Concatenation) = B[N]
    BY <1>5, <1>6, <1>9 DEF Joins
  <1>11. ASSUME NEW k \in 1..n, NEW i \in 1..L[k].size
         PROVE  Concatenation[B[k-1] + i] = <<k, i - 1>>
    <2>1. i \in 1..Len(s[k]) /\ s[k][i] = <<k, i - 1>>
      BY <1>7
    <2>2. FlattenSeq(s)[BytesBefore(buffer)[k-1] + i] = s[k][i]
      BY <1>9, <2>1 DEF Joins
    <2> QED
      BY <1>6, <2>1, <2>2
  <1> QED
    BY <1>10, <1>11 DEF L, n

LEMMA InvFind == BufferInv => FindIsByteAtOffset
  <1> SUFFICES ASSUME BufferInv, NEW off \in 0 .. Len(Concatenation) + 1
               PROVE  LET found == aesd_circular_buffer_find_entry_offset_for_fpos(buffer, off)
                      IN  IF off < Len(Concatenation)
                          THEN found = [slot   |-> Wrap(buffer.out_offs, Concatenation[off + 1][1] - 1),
                                        offset |-> Concatenation[off + 1][2]]
                          ELSE found = NULL
    BY DEF FindIsByteAtOffset
  <1> DEFINE B == BytesBefore(buffer)
             L == OldestFirst(buffer)
             n == Len(L)
             C == Concatenation
             found == aesd_circular_buffer_find_entry_offset_for_fpos(buffer, off)
  <1>1. WellFormed(buffer, Entries) /\ EmptyEntry \notin Entries
    BY InvWellFormed, EmptyIsNoEntry
  <1>2. /\ Len(C) = B[N]
        /\ \A k \in 1..n : \A i \in 1..L[k].size : C[B[k-1] + i] = <<k, i - 1>>
    BY ConcatenationValue
  <1>3. /\ Sums(B, Sizes(buffer), N)
        /\ \A k \in 1..n : B[k] = B[k-1] + L[k].size
    BY <1>1, SizesPositive, Positions
  <1>4. N \in Nat /\ N \in 0..N /\ 0 \in Slots
    BY NAssumption DEF Slots
  <1>5. \A k \in 0..N : B[k] \in Nat
    BY <1>3 DEF Sums
  <1>6. off \in Nat
    BY <1>2, <1>4, <1>5
  <1>7. /\ \A k \in 1..n : B[k-1] <= off /\ off < B[k]
               => found = [slot |-> Wrap(buffer.out_offs, k - 1), offset |-> off - B[k-1]]
        /\ off >= B[N] => found = NULL
        /\ off < B[N] => \E k \in 1..n : B[k-1] <= off /\ off < B[k]
    BY <1>1, <1>6, SizesPositive, FindValue
  <1>8. n \in 0..N /\ L \in Seq(Entries)
    BY <1>1, <1>4, SlotValue, LogValue
  <1> HIDE DEF B, L, n, C, found
  <1>9. CASE off < Len(C)
    <2>1. PICK k \in 1..n : B[k-1] <= off /\ off < B[k]
      BY <1>2, <1>7, <1>9
    <2>2. found = [slot |-> Wrap(buffer.out_offs, k - 1), offset |-> off - B[k-1]]
      BY <1>7, <2>1
    <2> DEFINE i == off - B[k-1] + 1
    <2>3. k \in 0..N /\ k - 1 \in 0..N /\ k \in Nat
      BY <1>4, <1>8
    <2>4. B[k-1] \in Nat /\ B[k] \in Nat /\ B[k] = B[k-1] + L[k].size
      BY <1>3, <1>5, <2>3
    <2>5. L[k].size \in Nat
      <3>1. L[k] \in Entries
        BY <1>8, ElementOfSeq DEF n
      <3> QED
        BY <3>1, SizesPositive
    <2>6. i \in 1..L[k].size /\ B[k-1] + i = off + 1 /\ i - 1 = off - B[k-1]
      <3> DEFINE x == B[k-1]
                 z == L[k].size
      <3>1. x \in Nat /\ z \in Nat /\ x <= off /\ off < x + z
        BY <2>1, <2>4, <2>5
      <3> HIDE DEF x, z
      <3>2. off - x + 1 \in 1..z /\ x + (off - x + 1) = off + 1 /\ (off - x + 1) - 1 = off - x
        BY <1>6, <3>1
      <3> QED
        BY <3>2 DEF x, z
    <2>7. C[off + 1] = <<k, off - B[k-1]>>
      BY <1>2, <2>6
    <2> QED
      BY <1>9, <2>2, <2>7 DEF C, found
  <1>10. CASE ~(off < Len(C))
    <2>1. off >= B[N]
      BY <1>2, <1>4, <1>5, <1>6, <1>10
    <2> QED
      BY <1>7, <1>10, <2>1 DEF C, found
  <1> QED
    BY <1>9, <1>10

(* For every buffer size and every entry size, a lookup finds exactly the  *)
(* byte at that position of the concatenated entries, across the wrap, and *)
(* nothing past the end.                                                   *)
THEOREM FindIsRight == Spec => []FindIsByteAtOffset
  BY BufferInvAlways, InvFind, PTL

LEMMA InvSeek == BufferInv => SeekThenFind
  <1> DEFINE find(off) == aesd_circular_buffer_find_entry_offset_for_fpos(buffer, off)
             fpos(k, o) == aesd_circular_buffer_get_fpos(buffer, k, o)
             slot(k) == Wrap(buffer.out_offs, k)
             B == BytesBefore(buffer)
             L == OldestFirst(buffer)
             n == Len(L)
  <1> SUFFICES ASSUME BufferInv, NEW k \in Slots
               PROVE  IF k < Count(buffer)
                      THEN \A o \in 0 .. buffer.entry[slot(k)].size - 1 :
                               find(fpos(k, o)) = [slot |-> slot(k), offset |-> o]
                      ELSE find(fpos(k, 0)) = NULL
    BY DEF SeekThenFind
  <1>1. WellFormed(buffer, Entries) /\ EmptyEntry \notin Entries
    BY InvWellFormed, EmptyIsNoEntry
  <1>2. /\ Count(buffer) = n /\ n \in 0..N
        /\ k < n => L[k + 1] = buffer.entry[slot(k)] /\ L[k + 1] \in Entries
    BY <1>1, SlotValue
  <1>3. /\ Sums(B, Sizes(buffer), N)
        /\ \A j \in 1..n : B[j] = B[j-1] + L[j].size
        /\ \A j \in n..N : B[j] = B[n]
    BY <1>1, SizesPositive, Positions
  <1>4. N \in Nat /\ k \in Nat /\ k < N /\ k \in 0..N /\ N \in 0..N
    BY NAssumption DEF Slots
  <1>5. \A j \in 0..N : B[j] \in Nat
    BY <1>3 DEF Sums
  <1>6. \A o : fpos(k, o) = B[k] + o
    BY <1>4 DEF aesd_circular_buffer_get_fpos
  <1>7. \A off \in Nat :
            /\ \A j \in 1..n : B[j-1] <= off /\ off < B[j]
                   => find(off) = [slot |-> slot(j - 1), offset |-> off - B[j-1]]
            /\ off >= B[N] => find(off) = NULL
    BY <1>1, SizesPositive, FindValue
  <1> HIDE DEF find, fpos, slot, B, L, n
  <1>8. CASE k < n
    <2>1. k + 1 \in 1..n /\ (k + 1) - 1 = k
      BY <1>2, <1>4, <1>8
    <2>2. L[k + 1] = buffer.entry[slot(k)] /\ L[k + 1].size \in Nat \ {0}
      BY <1>2, <1>8, SizesPositive
    <2>3. B[k + 1] = B[k] + L[k + 1].size /\ B[k] \in Nat
      BY <1>3, <1>4, <1>5, <2>1
    <2>4. ASSUME NEW o \in 0 .. L[k + 1].size - 1
          PROVE  find(fpos(k, o)) = [slot |-> slot(k), offset |-> o]
      <3>1. B[k] + o \in Nat /\ B[k] <= B[k] + o /\ B[k] + o < B[k + 1] /\ (B[k] + o) - B[k] = o
        BY <2>2, <2>3
      <3>2. find(B[k] + o) = [slot |-> slot((k + 1) - 1), offset |-> (B[k] + o) - B[(k + 1) - 1]]
        BY <1>7, <2>1, <3>1
      <3> QED
        BY <1>6, <2>1, <3>1, <3>2
    <2> QED
      BY <1>2, <1>8, <2>2, <2>4
  <1>9. CASE ~(k < n)
    <2>1. k \in n..N /\ N \in n..N
      BY <1>2, <1>4, <1>9
    <2>2. B[k] = B[N] /\ B[k] \in Nat /\ B[k] + 0 = B[k]
      BY <1>3, <1>4, <1>5, <2>1
    <2> QED
      BY <1>2, <1>6, <1>7, <1>9, <2>2
  <1> QED
    BY <1>8, <1>9

(* For every buffer size, the position get_fpos computes for a byte of an  *)
(* entry is the one at which a lookup finds that byte.                     *)
THEOREM SeekIsRight == Spec => []SeekThenFind
  BY BufferInvAlways, InvSeek, PTL
=============================================================================
