----------------------- MODULE CircularBufferOpsProofs -----------------------
(***************************************************************************)
(* Lemmas about the operators of CircularBufferOps, for any buffer: what   *)
(* an addition does to the log the buffer stands for, and what the scans   *)
(* for a position compute.  The proofs about the buffer on its own and     *)
(* about the driver both rest on them.                                     *)
(***************************************************************************)
EXTENDS CircularBufferOps, TextProofs

(* Advancing an array index by at most N wraps around at most once. *)
LEMMA WrapValue ==
    ASSUME NEW offs \in Slots, NEW k \in 0..N
    PROVE  /\ Wrap(offs, k) = IF offs + k < N THEN offs + k ELSE offs + k - N
           /\ Wrap(offs, k) \in Slots
  <1>1. Wrap(offs, k) = IF offs + k < N THEN offs + k ELSE offs + k - N
    BY NAssumption, SMT DEF Wrap, Slots
  <1> QED
    BY <1>1, NAssumption, SMT DEF Slots

(* The next array index. *)
LEMMA NextSlot ==
    ASSUME NEW offs \in Slots
    PROVE  /\ Wrap(offs, 1) = IF offs + 1 = N THEN 0 ELSE offs + 1
           /\ Wrap(offs, 1) \in Slots
  <1>1. Wrap(offs, 1) = IF offs + 1 = N THEN 0 ELSE offs + 1
    BY NAssumption, SMT DEF Wrap, Slots
  <1> QED
    BY <1>1, NAssumption, SMT DEF Slots

LEMMA ModOnce ==
    ASSUME NEW i \in Slots
    PROVE  (i + N - 0) % N = i
  BY NAssumption, SMT DEF Slots

(* The offsets and the full flag of buffer b say which slots hold entries  *)
(* of the set E.                                                           *)
WellFormed(b, E) ==
    /\ b \in [entry : [Slots -> E \cup {EmptyEntry}], in_offs : Slots,
              out_offs : Slots, full : BOOLEAN]
    /\ b.full  => /\ b.in_offs = b.out_offs
                  /\ \A i \in Slots : b.entry[i] \in E
    /\ ~b.full => /\ b.out_offs = 0
                  /\ \A i \in Slots : i < b.in_offs <=> b.entry[i] \in E

LEMMA InitWellFormed ==
    ASSUME NEW E, EmptyEntry \notin E
    PROVE  WellFormed(aesd_circular_buffer_init, E)
  BY NAssumption DEF WellFormed, aesd_circular_buffer_init, Slots

(* What an addition does to the parts of the buffer, its wrap-arounds      *)
(* resolved.                                                               *)
LEMMA AddParts ==
    ASSUME NEW E, EmptyEntry \notin E, NEW b, WellFormed(b, E), NEW e \in E
    PROVE  LET c == aesd_circular_buffer_add_entry(b, e)
           IN  /\ c \in [entry : [Slots -> E \cup {EmptyEntry}], in_offs : Slots,
                         out_offs : Slots, full : BOOLEAN]
               /\ c.in_offs = IF b.in_offs + 1 = N THEN 0 ELSE b.in_offs + 1
               /\ c.out_offs = IF b.full THEN c.in_offs ELSE 0
               /\ c.full = (b.full \/ b.in_offs + 1 = N)
               /\ \A i \in Slots : c.entry[i] = IF i = b.in_offs THEN e ELSE b.entry[i]
  <1> DEFINE in  == Wrap(b.in_offs, 1)
             out == IF b.full THEN Wrap(b.out_offs, 1) ELSE b.out_offs
             c == aesd_circular_buffer_add_entry(b, e)
  <1>1. /\ b.in_offs \in Slots
        /\ b.out_offs \in Slots
        /\ b.full \in BOOLEAN
        /\ b.entry \in [Slots -> E \cup {EmptyEntry}]
    BY DEF WellFormed
  <1>2. c = [entry    |-> [b.entry EXCEPT ![b.in_offs] = e],
             in_offs  |-> in,
             out_offs |-> out,
             full     |-> in = out]
    BY DEF aesd_circular_buffer_add_entry
  <1>3. in = IF b.in_offs + 1 = N THEN 0 ELSE b.in_offs + 1
    BY <1>1, NextSlot
  <1>4. out = IF b.full THEN in ELSE 0
    BY DEF WellFormed
  <1>5. (in = out) = (b.full \/ b.in_offs + 1 = N)
    BY <1>1, <1>3, <1>4, NAssumption DEF Slots
  <1>6. in \in Slots /\ out \in Slots
    BY <1>1, <1>3, <1>4, NAssumption DEF Slots
  <1> HIDE DEF in, out
  <1>7. /\ c.entry = [b.entry EXCEPT ![b.in_offs] = e]
        /\ c.in_offs = in /\ c.out_offs = out /\ c.full = (in = out)
        /\ c \in [entry : [Slots -> E \cup {EmptyEntry}], in_offs : Slots,
                  out_offs : Slots, full : BOOLEAN]
    BY <1>1, <1>2, <1>6
  <1> HIDE DEF c
  <1> QED
    BY <1>1, <1>3, <1>4, <1>5, <1>7 DEF c

LEMMA AddWellFormed ==
    ASSUME NEW E, EmptyEntry \notin E, NEW b, WellFormed(b, E), NEW e \in E
    PROVE  WellFormed(aesd_circular_buffer_add_entry(b, e), E)
  <1> DEFINE c == aesd_circular_buffer_add_entry(b, e)
  <1>1. /\ c \in [entry : [Slots -> E \cup {EmptyEntry}], in_offs : Slots,
                  out_offs : Slots, full : BOOLEAN]
        /\ c.in_offs = IF b.in_offs + 1 = N THEN 0 ELSE b.in_offs + 1
        /\ c.out_offs = IF b.full THEN c.in_offs ELSE 0
        /\ c.full = (b.full \/ b.in_offs + 1 = N)
        /\ \A i \in Slots : c.entry[i] = IF i = b.in_offs THEN e ELSE b.entry[i]
    BY AddParts
  <1>2. b.in_offs \in Slots /\ b.full \in BOOLEAN
    BY DEF WellFormed
  <1> SUFFICES WellFormed(c, E)
    OBVIOUS
  <1> HIDE DEF c
  <1>3. CASE b.full
    BY <1>1, <1>3 DEF WellFormed
  <1>4. CASE ~b.full /\ b.in_offs + 1 = N
    <2>1. c.full /\ c.in_offs = 0 /\ c.out_offs = 0
      BY <1>1, <1>4
    <2>2. ASSUME NEW i \in Slots
          PROVE  c.entry[i] \in E
      <3>1. i = b.in_offs \/ i < b.in_offs
        BY <1>2, <1>4, NAssumption DEF Slots
      <3> QED
        BY <1>1, <1>4, <3>1 DEF WellFormed
    <2> QED
      BY <1>1, <2>1, <2>2 DEF WellFormed
  <1>5. CASE ~b.full /\ b.in_offs + 1 # N
    <2>1. ~c.full /\ c.out_offs = 0 /\ c.in_offs = b.in_offs + 1
      BY <1>1, <1>5
    <2>2. ASSUME NEW i \in Slots
          PROVE  i < b.in_offs + 1 <=> c.entry[i] \in E
      <3>1. i < b.in_offs + 1 <=> i < b.in_offs \/ i = b.in_offs
        BY <1>2, NAssumption DEF Slots
      <3>2. i < b.in_offs <=> b.entry[i] \in E
        BY <1>5 DEF WellFormed
      <3> QED
        BY <1>1, <3>1, <3>2
    <2> QED
      BY <1>1, <2>1, <2>2 DEF WellFormed
  <1> QED
    BY <1>2, <1>3, <1>4, <1>5

(* A function on 1..n is a sequence of length n. *)
LEMMA FunctionIsSeq ==
    ASSUME NEW S, NEW n \in Nat, NEW f \in [1..n -> S]
    PROVE  f \in Seq(S) /\ Len(f) = n
  BY SeqDef, LenProperties

(* The log a buffer stands for, element by element. *)
LEMMA LogValue ==
    ASSUME NEW E, NEW b, WellFormed(b, E)
    PROVE  /\ OldestFirst(b) \in Seq(E)
           /\ Len(OldestFirst(b)) = IF b.full THEN N ELSE b.in_offs
           /\ \A k \in 1..Len(OldestFirst(b)) :
                  OldestFirst(b)[k] = b.entry[IF b.out_offs + k - 1 < N
                                              THEN b.out_offs + k - 1
                                              ELSE b.out_offs + k - 1 - N]
  <1> DEFINE n == IF b.full THEN N ELSE b.in_offs
             At(k) == b.entry[IF b.out_offs + k - 1 < N
                              THEN b.out_offs + k - 1
                              ELSE b.out_offs + k - 1 - N]
  <1>0. /\ b.in_offs \in Slots /\ b.out_offs \in Slots /\ b.full \in BOOLEAN
        /\ b.full => \A i \in Slots : b.entry[i] \in E
        /\ ~b.full => b.out_offs = 0 /\ \A i \in Slots : i < b.in_offs => b.entry[i] \in E
    BY DEF WellFormed
  <1> USE <1>0
  <1>1. n \in 0..N /\ n \in Nat
    BY NAssumption DEF Slots
  <1>3. Count(b) = n
    <2>1. CASE b.full
      BY <2>1 DEF Count
    <2>2. CASE ~b.full
      <3>1. (b.in_offs + N - 0) % N = b.in_offs
        BY ModOnce
      <3> QED
        BY <2>2, <3>1 DEF Count
    <2> QED
      BY <2>1, <2>2
  <1>4. ASSUME NEW k \in 1..n
        PROVE  b.entry[Wrap(b.out_offs, k - 1)] = At(k) /\ At(k) \in E
    <2>1. k - 1 \in 0..N /\ k - 1 < n
      BY <1>1, NAssumption
    <2>2. Wrap(b.out_offs, k - 1) = IF b.out_offs + (k - 1) < N
                                    THEN b.out_offs + (k - 1)
                                    ELSE b.out_offs + (k - 1) - N
      BY <2>1, WrapValue
    <2>3. b.entry[Wrap(b.out_offs, k - 1)] = At(k)
      BY <2>2 DEF Slots
    <2>4. Wrap(b.out_offs, k - 1) \in Slots
      BY <2>1, WrapValue
    <2>5. b.entry[Wrap(b.out_offs, k - 1)] \in E
      <3>1. CASE b.full
        BY <2>4, <3>1
      <3>2. CASE ~b.full
        BY <2>1, <2>2, <2>4, <3>2, NAssumption DEF Slots
      <3> QED
        BY <3>1, <3>2
    <2> QED
      BY <2>3, <2>5
  <1>5. OldestFirst(b) = [k \in 1..n |-> At(k)]
    BY <1>3, <1>4 DEF OldestFirst
  <1>6. OldestFirst(b) \in [1..n -> E]
    BY <1>4, <1>5
  <1> HIDE DEF n, At
  <1>7. OldestFirst(b) \in Seq(E) /\ Len(OldestFirst(b)) = n
    BY <1>1, <1>6, FunctionIsSeq
  <1>8. ASSUME NEW k \in 1..n
        PROVE  OldestFirst(b)[k] = At(k)
    BY <1>5
  <1> QED
    BY <1>7, <1>8 DEF n, At

(* aesd_circular_buffer_add_entry appends to the log, drops its head when  *)
(* the log is full, and returns the memory of the entry dropped.           *)
LEMMA AddIsPush ==
    ASSUME NEW E, EmptyEntry \notin E, NEW b, WellFormed(b, E), NEW e \in E
    PROVE  LET L == OldestFirst(b)
           IN  /\ OldestFirst(aesd_circular_buffer_add_entry(b, e)) =
                      IF Len(L) < N THEN Append(L, e) ELSE Append(Tail(L), e)
               /\ ptr_return(b) = IF Len(L) < N THEN NULL ELSE Head(L).buffptr
  <1> DEFINE c == aesd_circular_buffer_add_entry(b, e)
             L == OldestFirst(b)
             M == OldestFirst(c)
             in == b.in_offs
             At(d, k) == d.entry[IF d.out_offs + k - 1 < N
                                 THEN d.out_offs + k - 1
                                 ELSE d.out_offs + k - 1 - N]
  <1>2. WellFormed(c, E)
    BY AddWellFormed
  <1>3. /\ L \in Seq(E)
        /\ Len(L) = IF b.full THEN N ELSE in
        /\ \A k \in 1..Len(L) : L[k] = At(b, k)
    BY LogValue
  <1>4. /\ M \in Seq(E)
        /\ Len(M) = IF c.full THEN N ELSE c.in_offs
        /\ \A k \in 1..Len(M) : M[k] = At(c, k)
    BY <1>2, LogValue
  <1>5. /\ in \in Slots
        /\ c.in_offs = IF in + 1 = N THEN 0 ELSE in + 1
        /\ c.out_offs = IF b.full THEN c.in_offs ELSE 0
        /\ c.full = (b.full \/ in + 1 = N)
        /\ \A i \in Slots : c.entry[i] = IF i = in THEN e ELSE b.entry[i]
        /\ ptr_return(b) = IF b.full THEN b.entry[in].buffptr ELSE NULL
    BY AddParts DEF WellFormed, ptr_return
  <1>6. b.full \in BOOLEAN
    BY DEF WellFormed
  <1>n. N \in Int /\ N >= 1
    BY NAssumption
  <1>i. in \in Int /\ 0 <= in /\ in < N
    BY <1>5, <1>n DEF Slots
  <1> HIDE DEF L, M, in, c
  <1> SUFFICES /\ M = IF Len(L) < N THEN Append(L, e) ELSE Append(Tail(L), e)
               /\ ptr_return(b) = IF Len(L) < N THEN NULL ELSE Head(L).buffptr
    BY DEF L, M, c
  <1>7. CASE ~b.full
    <2>1. b.out_offs = 0
      BY <1>7 DEF WellFormed
    <2>2. Len(L) = in /\ Len(M) = in + 1 /\ in < N
      BY <1>3, <1>4, <1>5, <1>7, <1>n, <1>i
    <2>3. ASSUME NEW k \in 1 .. in + 1
          PROVE  M[k] = Append(L, e)[k]
      <3>1. k - 1 \in Slots /\ 0 + k - 1 < N /\ 0 + k - 1 = k - 1
        BY <1>n, <1>i DEF Slots
      <3>2. M[k] = c.entry[k - 1]
        BY <1>4, <1>5, <1>7, <2>2, <3>1, NAssumption DEF Slots
      <3>3. CASE k = in + 1
        BY <1>3, <1>5, <2>2, <3>1, <3>2, <3>3, AppendProperties DEF Slots
      <3>4. CASE k # in + 1
        <4>1. k \in 1..Len(L) /\ k - 1 # in
          BY <1>5, <2>2, <3>4 DEF Slots
        <4>2. L[k] = b.entry[k - 1]
          BY <1>3, <2>1, <3>1, <4>1
        <4>3. Append(L, e)[k] = L[k]
          BY <1>3, <4>1, AppendProperties
        <4> QED
          BY <1>5, <3>1, <3>2, <4>1, <4>2, <4>3
      <3> QED
        BY <3>3, <3>4
    <2>4. M = Append(L, e)
      <3>1. Append(L, e) \in Seq(E) /\ Len(Append(L, e)) = in + 1
        BY <1>3, <2>2, AppendProperties
      <3> QED
        BY <1>4, <2>2, <2>3, <3>1, SeqEqual
    <2> QED
      BY <1>5, <1>7, <2>2, <2>4 DEF L, M
  <1>8. CASE b.full
    <2>1. b.out_offs = in
      BY <1>8 DEF WellFormed, in
    <2>2. Len(L) = N /\ Len(M) = N /\ L # <<>>
      <3>1. Len(L) = N /\ Len(M) = N
        BY <1>3, <1>4, <1>5, <1>8
      <3> QED
        BY <1>n, <3>1, EmptySeq
    <2>3. /\ Tail(L) \in Seq(E)
          /\ Len(Tail(L)) = N - 1
          /\ \A k \in 1 .. N - 1 : Tail(L)[k] = L[k + 1]
      BY <1>3, <2>2, HeadTailProperties
    <2>4. /\ Append(Tail(L), e) \in Seq(E)
          /\ Len(Append(Tail(L), e)) = N
          /\ \A k \in 1 .. N - 1 : Append(Tail(L), e)[k] = Tail(L)[k]
          /\ Append(Tail(L), e)[N] = e
      <3> DEFINE T == Tail(L)
      <3>1. T \in Seq(E) /\ Len(T) = N - 1
        BY <2>3
      <3> HIDE DEF T
      <3>2. /\ Append(T, e) \in Seq(E)
            /\ Len(Append(T, e)) = N
            /\ \A k \in 1 .. N - 1 : Append(T, e)[k] = T[k]
            /\ Append(T, e)[N] = e
        BY <1>n, <3>1, AppendProperties
      <3> QED
        BY <3>2 DEF T
    <2>5. ASSUME NEW k \in 1..N
          PROVE  M[k] = Append(Tail(L), e)[k]
      <3>1. CASE k = N
        <4>1. M[N] = At(c, N)
          BY <1>n, <1>4, <2>2
        <4>2. At(c, N) = c.entry[in]
          BY <1>n, <1>i, <1>5, <1>8
        <4> QED
          BY <1>5, <2>4, <3>1, <4>1, <4>2
      <3>2. CASE k # N
        <4>1. k \in 1 .. N - 1 /\ k + 1 \in 1..N
          BY <3>2, NAssumption
        <4>2. L[k + 1] = At(b, k + 1)
          BY <1>3, <2>2, <4>1
        <4>3. M[k] = At(c, k)
          BY <1>4, <2>2
        <4>4. At(c, k) = At(b, k + 1)
          BY <1>5, <1>8, <2>1, <4>1, NAssumption DEF Slots
        <4> QED
          BY <2>3, <2>4, <4>1, <4>2, <4>3, <4>4
      <3> QED
        BY <3>1, <3>2
    <2>6. M = Append(Tail(L), e)
      <3> QED
        BY <1>4, <2>2, <2>4, <2>5, SeqEqual
    <2>7. ptr_return(b) = Head(L).buffptr
      <3>1. Head(L) = L[1]
        BY <2>2
      <3>2. L[1] = b.entry[in]
        BY <1>3, <1>5, <2>1, <2>2, NAssumption DEF Slots
      <3> QED
        BY <1>5, <1>8, <3>1, <3>2
    <2> QED
      BY <1>n, <2>2, <2>6, <2>7 DEF L, M
  <1> QED
    BY <1>6, <1>7, <1>8

(* The empty buffer stands for the empty log. *)
LEMMA InitIsEmpty == OldestFirst(aesd_circular_buffer_init) = <<>>
  <1>1. (0 + N - 0) % N = 0
    BY NAssumption, SMT
  <1>2. Count(aesd_circular_buffer_init) = 0
    BY <1>1 DEF Count, aesd_circular_buffer_init
  <1> QED
    BY <1>2 DEF OldestFirst

-----------------------------------------------------------------------------
(* f[k] is the sum of the first k numbers of d, for k up to n. *)
Sums(f, d, n) ==
    /\ \A k \in 0..n : f[k] \in Nat
    /\ f[0] = 0
    /\ \A k \in 1..n : f[k] = f[k-1] + d[k-1]

LEMMA SumsExist ==
    ASSUME NEW n \in Nat, NEW d \in [0 .. n - 1 -> Nat]
    PROVE  \E f : Sums(f, d, n)
  <1> DEFINE S == {m \in Nat : m <= n => \E f : Sums(f, d, m)}
  <1>1. Sums([i \in 0..0 |-> 0], d, 0)
    BY DEF Sums
  <1>2. ASSUME NEW m \in Nat, m + 1 <= n, NEW f, Sums(f, d, m)
        PROVE  Sums([i \in 0..m+1 |-> IF i <= m THEN f[i] ELSE f[m] + d[m]], d, m + 1)
    BY <1>2 DEF Sums
  <1>3. \A m \in Nat : m + 1 <= n => m <= n
    OBVIOUS
  <1>4. 0 \in S
    BY <1>1, Zenon
  <1>5. ASSUME NEW m \in Nat, m \in S
        PROVE  m + 1 \in S
    <2>1. m + 1 \in Nat
      OBVIOUS
    <2> QED
      BY <1>2, <1>3, <1>5, <2>1, Zenon
  <1>6. Nat \subseteq S
    <2> HIDE DEF S
    <2> QED
      BY <1>4, <1>5, SetInduction
  <1>7. n <= n
    OBVIOUS
  <1> QED
    BY <1>6, <1>7, Zenon

(* Sums of natural numbers do not shrink. *)
LEMMA SumsGrow ==
    ASSUME NEW n \in Nat, NEW d, NEW f, Sums(f, d, n),
           \A k \in 1..n : d[k-1] \in Nat,
           NEW i \in 0..n, NEW j \in 0..n, i <= j
    PROVE  f[i] <= f[j]
  <1> DEFINE S == {m \in Nat : i + m <= n => f[i] <= f[i+m]}
  <1>1. 0 \in S
    BY DEF Sums
  <1>2. ASSUME NEW m \in Nat, m \in S
        PROVE  m + 1 \in S
    <2> SUFFICES ASSUME i + (m + 1) <= n PROVE f[i] <= f[i + (m + 1)]
      OBVIOUS
    <2>1. i + (m + 1) \in 1..n /\ i + m \in 0..n /\ (i + (m + 1)) - 1 = i + m
      OBVIOUS
    <2>2. f[i + (m + 1)] = f[i + m] + d[(i + (m + 1)) - 1]
      BY <2>1 DEF Sums
    <2>3. d[(i + (m + 1)) - 1] \in Nat /\ f[i + m] \in Nat /\ f[i] \in Nat
      BY <2>1 DEF Sums
    <2>4. f[i] <= f[i + m]
      BY <1>2, <2>1
    <2> QED
      BY <2>2, <2>3, <2>4
  <1>3. Nat \subseteq S
    <2> HIDE DEF S
    <2> QED
      BY <1>1, <1>2, SetInduction
  <1>4. j - i \in Nat /\ i + (j - i) = j /\ i + (j - i) <= n
    OBVIOUS
  <1>5. j - i \in S
    BY <1>3, <1>4
  <1> QED
    BY <1>4, <1>5

(* A number below the sum of all falls to one of them. *)
LEMMA SumsLocate ==
    ASSUME NEW n \in Nat, NEW d, NEW f, Sums(f, d, n), NEW x \in Nat, x < f[n]
    PROVE  \E k \in 1..n : f[k-1] <= x /\ x < f[k]
  <1> DEFINE S == {m \in Nat : m <= n /\ x < f[m] => \E k \in 1..n : f[k-1] <= x /\ x < f[k]}
  <1>1. 0 \in S
    BY DEF Sums
  <1>2. ASSUME NEW m \in Nat, m \in S
        PROVE  m + 1 \in S
    <2> SUFFICES ASSUME m + 1 <= n, x < f[m + 1]
                 PROVE  \E k \in 1..n : f[k-1] <= x /\ x < f[k]
      OBVIOUS
    <2>1. m + 1 \in 1..n /\ m \in 0..n /\ (m + 1) - 1 = m /\ m <= n
      OBVIOUS
    <2>2. f[m] \in Nat
      BY <2>1 DEF Sums
    <2>3. CASE x < f[m]
      BY <1>2, <2>1, <2>3
    <2>4. CASE f[m] <= x
      BY <2>1, <2>4
    <2> QED
      BY <2>2, <2>3, <2>4
  <1>3. Nat \subseteq S
    <2> HIDE DEF S
    <2> QED
      BY <1>1, <1>2, SetInduction
  <1>4. n \in S
    BY <1>3
  <1> QED
    BY <1>4
-----------------------------------------------------------------------------
(* x is as long as the parts of s together, and has element i of part k    *)
(* where the parts before it end: f[k] is the length of the first k parts. *)
Joins(x, T, s, f, n) ==
    /\ x \in Seq(T)
    /\ Len(x) = f[n]
    /\ \A k \in 1..n : \A i \in 1..Len(s[k]) : x[f[k-1] + i] = s[k][i]

(* FlattenSeq joins the sequences it is given. *)
LEMMA FlattenValue ==
    ASSUME NEW T, NEW n \in Nat, NEW s \in [1..n -> Seq(T)],
           NEW f, NEW d, Sums(f, d, n), \A k \in 1..n : d[k-1] = Len(s[k])
    PROVE  Joins(FlattenSeq(s), T, s, f, n)
  <1> DEFINE Good(x, m) ==
                 /\ x \in Seq(T) /\ Len(x) = f[m]
                 /\ \A k \in 1..m : \A i \in 1..Len(s[k]) : x[f[k-1] + i] = s[k][i]
  <1> SUFFICES Good(FlattenSeq(s), n)
    BY DEF Joins
  <1>1. s \in Seq(Seq(T)) /\ Len(s) = n
    BY FunctionIsSeq
  <1>2. CASE n = 0
    <2>1. s = <<>>
      BY <1>1, <1>2, EmptySeq
    <2>2. FlattenSeq(s) = <<>>
      BY <2>1 DEF FlattenSeq
    <2> QED
      BY <1>2, <2>2, EmptySeq DEF Sums
  <1>3. CASE n # 0
    <2>1. PICK g : Flat(g, s, n) /\ FlattenSeq(s) = g[n]
      BY <1>1, <1>3, FlattenIsFlat
    <2> DEFINE S == {m \in Nat : m + 1 <= n => Good(g[m + 1], m + 1)}
    <2>2. 0 \in S
      <3>0. 1 \in 1..n /\ 1 - 1 = 0 /\ \A k \in 1..1 : k = 1
        BY <1>3
      <3>1. g[1] = s[1] /\ s[1] \in Seq(T)
        BY <2>1, <3>0 DEF Flat
      <3>2. Len(s[1]) \in Nat /\ f[0] = 0 /\ f[1] = f[0] + d[1-1] /\ d[1-1] = Len(s[1])
        BY <3>0, <3>1, LenProperties DEF Sums
      <3>3. f[1] = Len(s[1])
        BY <3>2
      <3>4. \A i \in 1..Len(s[1]) : 0 + i = i
        BY <3>2
      <3>5. Good(g[1], 1)
        BY <3>0, <3>1, <3>2, <3>3, <3>4
      <3> QED
        BY <3>5
    <2>3. ASSUME NEW m \in Nat, m \in S
          PROVE  m + 1 \in S
      <3> SUFFICES ASSUME (m + 1) + 1 <= n PROVE Good(g[(m + 1) + 1], (m + 1) + 1)
        OBVIOUS
      <3> DEFINE x == g[m + 1]
                 y == s[m + 2]
      <3>1. /\ m + 1 <= n /\ (m + 1) + 1 = m + 2 /\ m + 2 \in 1..n /\ m + 2 # 1
            /\ (m + 2) - 1 = m + 1 /\ m + 1 \in 0..n
        OBVIOUS
      <3>2. Good(x, m + 1)
        BY <2>3, <3>1
      <3>3. g[m + 2] = x \o y
        BY <2>1, <3>1 DEF Flat
      <3>4. y \in Seq(T)
        BY <3>1
      <3>5. f[m + 2] = f[m + 1] + Len(y) /\ f[m + 1] \in Nat
        BY <3>1 DEF Sums
      <3> HIDE DEF x, y
      <3>6. /\ x \o y \in Seq(T)
            /\ Len(x \o y) = Len(x) + Len(y)
            /\ \A i \in 1 .. Len(x) + Len(y) :
                  (x \o y)[i] = IF i <= Len(x) THEN x[i] ELSE y[i - Len(x)]
        BY <3>2, <3>4, ConcatProperties
      <3>7. ASSUME NEW k \in 1..m+2, NEW i \in 1..Len(s[k])
            PROVE  (x \o y)[f[k-1] + i] = s[k][i]
        <4>0. Len(y) \in Nat /\ Len(x) = f[m + 1] /\ f[m + 1] \in Nat
          BY <3>2, <3>4, <3>5, LenProperties
        <4>1. CASE k = m + 2
          <5>1. s[k] = y /\ f[k-1] = f[m+1]
            BY <3>1, <4>1 DEF y
          <5> DEFINE a == f[m+1]
                     ly == Len(y)
          <5>i. i \in 1..ly /\ a \in Nat /\ ly \in Nat /\ Len(x) = a
            BY <4>0, <5>1
          <5> HIDE DEF a, ly
          <5>3. a + i \in 1 .. a + ly /\ ~(a + i <= a) /\ (a + i) - a = i
            BY <5>i
          <5>2. /\ f[m+1] + i \in 1 .. Len(x) + Len(y)
                /\ ~(f[m+1] + i <= Len(x)) /\ (f[m+1] + i) - Len(x) = i
            BY <5>i, <5>3 DEF a, ly
          <5> QED
            BY <3>6, <5>1, <5>2
        <4>2. CASE k # m + 2
          <5>1. k \in 1..m+1 /\ k \in 1..n /\ k - 1 \in 0..n /\ k \in 0..n
            BY <3>1, <4>2
          <5>2. x[f[k-1] + i] = s[k][i]
            BY <3>2, <5>1
          <5>3. f[k] = f[k-1] + Len(s[k]) /\ f[k-1] \in Nat /\ f[k] \in Nat
            BY <5>1 DEF Sums
          <5>4. ASSUME NEW j \in 1..n
                PROVE  d[j-1] \in Nat
            <6>1. s[j] \in Seq(T) /\ d[j-1] = Len(s[j])
              OBVIOUS
            <6> QED
              BY <6>1, LenProperties
          <5>k. k <= m + 1
            BY <5>1
          <5>5. f[k] <= f[m + 1]
            <6> HIDE DEF x, y
            <6> QED
              BY <3>1, <5>1, <5>k, <5>4, SumsGrow
          <5>6. Len(s[k]) \in Nat
            BY <5>1, LenProperties
          <5>8. i \in 1..Len(s[k])
            OBVIOUS
          <5>7. f[k-1] + i \in 1 .. Len(x) + Len(y) /\ f[k-1] + i <= Len(x)
            <6> DEFINE a == f[m+1]
                       ly == Len(y)
                       lk == Len(s[k])
                       b == f[k-1]
            <6>1. /\ a \in Nat /\ ly \in Nat /\ Len(x) = a /\ lk \in Nat /\ i \in 1..lk
                  /\ b \in Nat /\ b + lk <= a
              BY <4>0, <5>3, <5>5, <5>6, <5>8
            <6> HIDE DEF a, ly, lk, b
            <6>2. b + i \in 1 .. a + ly /\ b + i <= a
              BY <6>1
            <6> QED
              BY <6>1, <6>2 DEF a, ly, b
          <5> QED
            BY <3>6, <5>2, <5>7
        <4> QED
          BY <4>1, <4>2
      <3>8. Len(x \o y) = f[m + 2]
        BY <3>1, <3>2, <3>5, <3>6
      <3>9. Good(x \o y, m + 2)
        BY <3>6, <3>7, <3>8
      <3> HIDE DEF Good
      <3> QED
        BY <3>1, <3>3, <3>9
    <2>4. Nat \subseteq S
      <3> HIDE DEF S
      <3> QED
        BY <2>2, <2>3, SetInduction
    <2>5. n - 1 \in Nat /\ (n - 1) + 1 = n
      BY <1>3
    <2>6. n - 1 \in S
      BY <2>4, <2>5
    <2>7. Good(g[n], n)
      BY <2>5, <2>6
    <2> QED
      BY <2>1, <2>7
  <1> QED
    BY <1>2, <1>3
-----------------------------------------------------------------------------
(* The sizes of the entries in the order of the scan. *)
Sizes(b) == [k \in Slots |-> b.entry[Wrap(b.out_offs, k)].size]

(* The scan counts the bytes before each entry. *)
LEMMA BytesBeforeSums ==
    ASSUME NEW b, Sizes(b) \in [Slots -> Nat]
    PROVE  Sums(BytesBefore(b), Sizes(b), N)
  <1> DEFINE size(k) == b.entry[Wrap(b.out_offs, k)].size
             d == Sizes(b)
             B == BytesBefore(b)
  <1>1. N \in Nat /\ Slots = 0 .. N - 1
    BY NAssumption DEF Slots
  <1>2. \A k \in 1..N : d[k-1] = size(k-1) /\ d[k-1] \in Nat
    BY <1>1 DEF Sizes
  <1> HIDE DEF d
  <1>3. PICK h : Sums(h, d, N)
    BY <1>1, SumsExist DEF d
  <1> DEFINE f == [k \in 0..N |-> h[k]]
  <1> HIDE DEF size
  <1>f. \A k \in 1..N : k # 0 /\ k - 1 \in 0..N
    BY <1>1
  <1>h. h[0] = 0 /\ \A k \in 1..N : h[k] = h[k-1] + size(k-1)
    BY <1>2, <1>3 DEF Sums
  <1>g. \A k \in 0..N : k = 0 \/ k \in 1..N
    BY <1>1
  <1>4. f = [k \in 0..N |-> IF k = 0 THEN 0 ELSE f[k-1] + size(k-1)]
    BY <1>f, <1>g, <1>h
  <1> HIDE DEF f
  <1>5. B = [k \in 0..N |-> IF k = 0 THEN 0 ELSE B[k-1] + size(k-1)]
    BY <1>4 DEF BytesBefore, size
  <1> HIDE DEF B
  <1>6. /\ B[0] = 0
        /\ \A k \in 1..N : B[k] = B[k-1] + d[k-1]
    <2>1. \A k \in 0..N : B[k] = IF k = 0 THEN 0 ELSE B[k-1] + size(k-1)
      BY <1>5
    <2>2. 0 \in 0..N /\ \A k \in 1..N : k \in 0..N /\ k # 0
      BY <1>1
    <2> QED
      BY <1>2, <2>1, <2>2
  <1> DEFINE S == {k \in Nat : k <= N => B[k] \in Nat}
  <1>7. 0 \in S
    BY <1>6
  <1>8. ASSUME NEW k \in Nat, k \in S
        PROVE  k + 1 \in S
    <2> SUFFICES ASSUME k + 1 <= N PROVE B[k + 1] \in Nat
      OBVIOUS
    <2>1. k + 1 \in 1..N /\ (k + 1) - 1 = k /\ k <= N
      BY <1>1
    <2>2. B[k + 1] = B[(k + 1) - 1] + d[(k + 1) - 1] /\ d[(k + 1) - 1] \in Nat
      BY <1>2, <1>6, <2>1
    <2> QED
      BY <1>8, <2>1, <2>2
  <1>9. Nat \subseteq S
    <2> HIDE DEF S
    <2> QED
      BY <1>7, <1>8, SetInduction
  <1>10. \A k \in 0..N : B[k] \in Nat
    BY <1>1, <1>9
  <1> QED
    BY <1>6, <1>10 DEF Sums, B, d
-----------------------------------------------------------------------------
(* The slots from out_offs on hold the log, and the rest of them nothing.  *)
LEMMA SlotValue ==
    ASSUME NEW E, EmptyEntry \notin E, NEW b, WellFormed(b, E), NEW k \in Slots
    PROVE  /\ Wrap(b.out_offs, k) \in Slots
           /\ Count(b) = Len(OldestFirst(b))
           /\ Len(OldestFirst(b)) \in 0..N
           /\ k < Len(OldestFirst(b)) =>
                  /\ OldestFirst(b)[k + 1] = b.entry[Wrap(b.out_offs, k)]
                  /\ OldestFirst(b)[k + 1] \in E
           /\ k >= Len(OldestFirst(b)) => b.entry[Wrap(b.out_offs, k)] = EmptyEntry
  <1> DEFINE L == OldestFirst(b)
             n == IF b.full THEN N ELSE b.in_offs
             w == Wrap(b.out_offs, k)
  <1>1. /\ b.in_offs \in Slots /\ b.out_offs \in Slots /\ b.full \in BOOLEAN
        /\ b.entry \in [Slots -> E \cup {EmptyEntry}]
        /\ ~b.full => b.out_offs = 0
        /\ ~b.full => \A i \in Slots : i < b.in_offs <=> b.entry[i] \in E
    BY DEF WellFormed
  <1>2. /\ L \in Seq(E)
        /\ Len(L) = n
        /\ \A j \in 1..Len(L) : L[j] = b.entry[IF b.out_offs + j - 1 < N
                                               THEN b.out_offs + j - 1
                                               ELSE b.out_offs + j - 1 - N]
    BY LogValue
  <1>3. k \in 0..N /\ k < N /\ k \in Nat /\ N \in Nat
    BY NAssumption DEF Slots
  <1>4. /\ w = IF b.out_offs + k < N THEN b.out_offs + k ELSE b.out_offs + k - N
        /\ w \in Slots
    BY <1>1, <1>3, WrapValue
  <1>5. n \in 0..N
    BY <1>1, <1>3 DEF Slots
  <1>6. Count(b) = n
    <2>1. CASE b.full
      BY <2>1 DEF Count
    <2>2. CASE ~b.full
      <3>1. (b.in_offs + N - 0) % N = b.in_offs
        BY <1>1, ModOnce
      <3> QED
        BY <1>1, <2>2, <3>1 DEF Count
    <2> QED
      BY <2>1, <2>2
  <1> HIDE DEF L, w
  <1>7. ASSUME k < n
        PROVE  L[k + 1] = b.entry[w] /\ L[k + 1] \in E
    <2>1. k + 1 \in 1..Len(L)
      BY <1>2, <1>3, <1>5, <1>7
    <2>2. L[k + 1] = b.entry[IF b.out_offs + (k + 1) - 1 < N
                             THEN b.out_offs + (k + 1) - 1
                             ELSE b.out_offs + (k + 1) - 1 - N]
      BY <1>2, <2>1
    <2>3. b.out_offs + (k + 1) - 1 = b.out_offs + k
      BY <1>1, <1>3 DEF Slots
    <2> QED
      BY <1>2, <1>4, <2>1, <2>2, <2>3, ElementOfSeq
  <1>8. ASSUME k >= n
        PROVE  b.entry[w] = EmptyEntry
    <2>1. ~b.full /\ b.out_offs = 0 /\ k >= b.in_offs
      BY <1>1, <1>3, <1>8
    <2>2. w = k
      BY <1>3, <1>4, <2>1
    <2>3. ~(k < b.in_offs)
      BY <1>1, <1>3, <2>1 DEF Slots
    <2> QED
      BY <1>1, <1>4, <2>1, <2>2, <2>3
  <1> QED
    BY <1>2, <1>4, <1>5, <1>6, <1>7, <1>8 DEF L, w

(* What the scan counts: the sizes of the log's entries up to each one,    *)
(* and no more after the last of them.                                     *)
LEMMA Positions ==
    ASSUME NEW E, EmptyEntry \notin E, \A e \in E : e.size \in Nat \ {0},
           NEW b, WellFormed(b, E)
    PROVE  LET B == BytesBefore(b)
               L == OldestFirst(b)
           IN  /\ Sums(B, Sizes(b), N)
               /\ \A k \in 1..Len(L) : /\ B[k] = B[k-1] + L[k].size
                                       /\ Sizes(b)[k-1] = L[k].size
                                       /\ B[k-1] < B[k]
               /\ \A k \in Len(L)..N : B[k] = B[Len(L)]
               /\ \A i, j \in 0..N : i <= j => B[i] <= B[j]
  <1> DEFINE B == BytesBefore(b)
             L == OldestFirst(b)
             d == Sizes(b)
             n == Len(L)
  <1>0. N \in Nat /\ N >= 1 /\ Slots = 0 .. N - 1 /\ 0 \in Slots
    BY NAssumption DEF Slots
  <1>1. n \in 0..N
    BY <1>0, SlotValue
  <1>2. ASSUME NEW k \in Slots
        PROVE  /\ d[k] \in Nat
               /\ k < n => d[k] = L[k+1].size /\ d[k] # 0
               /\ k >= n => d[k] = 0
    <2>1. /\ k < n => L[k + 1] = b.entry[Wrap(b.out_offs, k)] /\ L[k + 1] \in E
          /\ k >= n => b.entry[Wrap(b.out_offs, k)] = EmptyEntry
      BY SlotValue
    <2>2. d[k] = b.entry[Wrap(b.out_offs, k)].size
      BY DEF Sizes
    <2>3. k < n \/ k >= n
      BY <1>0, <1>1
    <2> QED
      BY <2>1, <2>2, <2>3 DEF EmptyEntry
  <1>3. Sums(B, d, N)
    <2>1. d \in [Slots -> Nat]
      BY <1>2 DEF Sizes
    <2> QED
      BY <2>1, BytesBeforeSums
  <1> HIDE DEF B, L, d, n
  <1>4. \A k \in 1..N : k - 1 \in Slots /\ (k - 1) + 1 = k /\ (k - 1 < n <=> k <= n)
    BY <1>0, <1>1
  <1>5. \A k \in 1..N : d[k-1] \in Nat
    BY <1>2, <1>4
  <1>6. \A i, j \in 0..N : i <= j => B[i] <= B[j]
    BY <1>0, <1>3, <1>5, SumsGrow
  <1>7. ASSUME NEW k \in 1..n
        PROVE  B[k] = B[k-1] + L[k].size /\ d[k-1] = L[k].size /\ B[k-1] < B[k]
    <2>1. k \in 1..N /\ k - 1 \in 0..N /\ k <= n
      BY <1>0, <1>1
    <2>2. d[k-1] = L[k].size /\ d[k-1] # 0 /\ d[k-1] \in Nat
      BY <1>2, <1>4, <2>1
    <2>3. B[k] = B[k-1] + d[k-1] /\ B[k-1] \in Nat
      BY <1>3, <2>1 DEF Sums
    <2> QED
      BY <2>2, <2>3
  <1>8. ASSUME NEW k \in n..N
        PROVE  B[k] = B[n]
    <2> DEFINE S == {m \in Nat : n + m <= N => B[n + m] = B[n]}
    <2>1. 0 \in S
      BY <1>1
    <2>2. ASSUME NEW m \in Nat, m \in S
          PROVE  m + 1 \in S
      <3> SUFFICES ASSUME n + (m + 1) <= N PROVE B[n + (m + 1)] = B[n]
        OBVIOUS
      <3>1. /\ n + (m + 1) \in 1..N /\ (n + (m + 1)) - 1 = n + m /\ n + m <= N
            /\ n + m \in Slots /\ n + m >= n /\ n + m \in 0..N
        BY <1>0, <1>1
      <3>2. B[n + (m + 1)] = B[n + m] + d[n + m] /\ B[n + m] \in Nat
        BY <1>3, <3>1 DEF Sums
      <3>3. d[n + m] = 0
        BY <1>2, <3>1
      <3>4. B[n + m] = B[n]
        BY <2>2, <3>1
      <3> QED
        BY <3>2, <3>3, <3>4
    <2>3. Nat \subseteq S
      <3> HIDE DEF S
      <3> QED
        BY <2>1, <2>2, SetInduction
    <2>4. k - n \in Nat /\ n + (k - n) = k /\ k <= N
      BY <1>0, <1>1
    <2>5. k - n \in S
      BY <2>3, <2>4
    <2> QED
      BY <2>4, <2>5
  <1> QED
    BY <1>3, <1>6, <1>7, <1>8 DEF B, L, d, n

(* The scan stops at the entry that holds the position, if there is one.   *)
LEMMA FindValue ==
    ASSUME NEW E, EmptyEntry \notin E, \A e \in E : e.size \in Nat \ {0},
           NEW b, WellFormed(b, E), NEW off \in Nat
    PROVE  LET B     == BytesBefore(b)
               n     == Len(OldestFirst(b))
               found == aesd_circular_buffer_find_entry_offset_for_fpos(b, off)
           IN  /\ \A k \in 1..n : B[k-1] <= off /\ off < B[k]
                      => found = [slot |-> Wrap(b.out_offs, k - 1), offset |-> off - B[k-1]]
               /\ off >= B[N] => found = NULL
               /\ off < B[N] => \E k \in 1..n : B[k-1] <= off /\ off < B[k]
  <1> DEFINE B == BytesBefore(b)
             L == OldestFirst(b)
             n == Len(L)
             found == aesd_circular_buffer_find_entry_offset_for_fpos(b, off)
             stops == {k \in Slots : B[k+1] = 0 \/ off < B[k+1]}
             first == CHOOSE i \in stops : \A j \in stops : i <= j
  <1>0. N \in Nat /\ N >= 1 /\ Slots = 0 .. N - 1 /\ 0 \in Slots
    BY NAssumption DEF Slots
  <1>1. n \in 0..N
    BY <1>0, SlotValue
  <1>2. /\ Sums(B, Sizes(b), N)
        /\ \A k \in 1..n : B[k-1] < B[k]
        /\ \A k \in n..N : B[k] = B[n]
        /\ \A i, j \in 0..N : i <= j => B[i] <= B[j]
    BY Positions
  <1>3. found = IF stops = {} \/ B[first+1] = 0
                THEN NULL
                ELSE [slot |-> Wrap(b.out_offs, first), offset |-> off - B[first]]
    BY DEF aesd_circular_buffer_find_entry_offset_for_fpos
  <1> HIDE DEF B, L, n, found
  <1>4. \A k \in 0..N : B[k] \in Nat
    BY <1>2 DEF Sums
  <1>5. B[0] = 0
    BY <1>2 DEF Sums
  <1>6. ASSUME NEW k \in 1..n, B[k-1] <= off, off < B[k]
        PROVE  found = [slot |-> Wrap(b.out_offs, k - 1), offset |-> off - B[k-1]]
    <2>1. k - 1 \in Slots /\ (k - 1) + 1 = k /\ k \in 0..N /\ k - 1 \in 0..N
      BY <1>0, <1>1
    <2>2. B[k] \in Nat /\ B[k] # 0
      BY <1>4, <1>6, <2>1
    <2>3. k - 1 \in stops
      BY <1>6, <2>1
    <2>4. ASSUME NEW j \in stops
          PROVE  k - 1 <= j
      <3> SUFFICES ASSUME j < k - 1 PROVE FALSE
        BY <1>0, <2>1
      <3>1. /\ j \in Slots /\ j + 1 \in 1..n /\ j + 1 \in 0..N /\ 1 \in 1..n /\ 1 \in 0..N
            /\ j + 1 <= k - 1 /\ 1 <= j + 1 /\ 1 - 1 = 0
        BY <1>0, <1>1, <2>1
      <3>2. B[j+1] <= B[k-1]
        BY <1>2, <2>1, <3>1
      <3>3. B[1] <= B[j+1] /\ B[0] < B[1]
        BY <1>2, <3>1
      <3>4. B[j+1] = 0 \/ off < B[j+1]
        OBVIOUS
      <3>5. B[j+1] \in Nat /\ B[k-1] \in Nat /\ B[1] \in Nat
        BY <1>4, <2>1, <3>1
      <3> QED
        BY <1>5, <1>6, <3>2, <3>3, <3>4, <3>5
    <2>5. ASSUME NEW i \in stops, \A j \in stops : i <= j
          PROVE  i = k - 1
      <3>1. i <= k - 1 /\ k - 1 <= i /\ i \in Slots
        BY <2>3, <2>4, <2>5
      <3> QED
        BY <1>0, <2>1, <3>1
    <2>6. first = k - 1 /\ stops # {}
      <3>1. first \in stops /\ \A j \in stops : first <= j
        <4> HIDE DEF stops
        <4> QED
          BY <2>3, <2>4
      <3> HIDE DEF stops, first
      <3> QED
        BY <2>5, <3>1
    <2> HIDE DEF stops, first
    <2> QED
      BY <1>3, <2>1, <2>2, <2>6
  <1>7. ASSUME off >= B[N]
        PROVE  found = NULL
    <2>1. CASE n = 0
      <3>1. \A k \in 0..N : B[k] = 0
        BY <1>0, <1>2, <1>5, <2>1
      <3>2. 0 \in stops /\ \A j \in stops : 0 <= j
        BY <1>0, <3>1
      <3>3. first \in stops
        <4> HIDE DEF stops
        <4> QED
          BY <3>2
      <3>4. first \in Slots
        BY <3>3
      <3> HIDE DEF stops, first
      <3>5. first + 1 \in 0..N
        BY <1>0, <3>4
      <3> QED
        BY <1>3, <3>1, <3>5
    <2>2. CASE n # 0
      <3>1. ASSUME NEW j \in stops
            PROVE  FALSE
        <4>1. /\ j \in Slots /\ j + 1 \in 0..N /\ N \in 0..N /\ 1 \in 1..n /\ 1 \in 0..N
              /\ j + 1 <= N /\ 1 <= j + 1 /\ 1 - 1 = 0
          BY <1>0, <1>1, <2>2
        <4>2. B[j+1] <= B[N] /\ B[1] <= B[j+1] /\ B[0] < B[1]
          BY <1>2, <4>1
        <4>3. B[j+1] \in Nat /\ B[N] \in Nat /\ B[1] \in Nat
          BY <1>4, <4>1
        <4>4. B[j+1] = 0 \/ off < B[j+1]
          OBVIOUS
        <4> QED
          BY <1>5, <1>7, <4>2, <4>3, <4>4
      <3> QED
        BY <1>3, <3>1
    <2> QED
      BY <2>1, <2>2
  <1>8. ASSUME off < B[N]
        PROVE  \E k \in 1..n : B[k-1] <= off /\ off < B[k]
    <2>1. PICK k \in 1..N : B[k-1] <= off /\ off < B[k]
      BY <1>0, <1>2, <1>8, SumsLocate
    <2>2. k \in 1..n
      <3> SUFFICES ASSUME k > n PROVE FALSE
        BY <1>0, <1>1
      <3>1. k - 1 \in n..N /\ k \in n..N
        BY <1>0, <1>1
      <3>2. B[k-1] = B[n] /\ B[k] = B[n]
        BY <1>2, <3>1
      <3>3. B[n] \in Nat
        BY <1>1, <1>4
      <3> QED
        BY <2>1, <3>2, <3>3
    <2> QED
      BY <2>1, <2>2
  <1> QED
    BY <1>6, <1>7, <1>8 DEF B, L, n, found

(* The entries of the log as one string, entry by entry: s[k] stands for   *)
(* the bytes of entry k.  The scan counts its length before each entry.    *)
LEMMA ContentsValue ==
    ASSUME NEW E, EmptyEntry \notin E, \A e \in E : e.size \in Nat \ {0},
           NEW b, WellFormed(b, E),
           NEW n \in 0..Len(OldestFirst(b)), NEW T, NEW s \in [1..n -> Seq(T)],
           \A k \in 1..n : Len(s[k]) = OldestFirst(b)[k].size
    PROVE  Joins(FlattenSeq(s), T, s, BytesBefore(b), n)
  <1> DEFINE B == BytesBefore(b)
             d == Sizes(b)
             L == OldestFirst(b)
  <1>0. N \in Nat /\ 0 \in Slots
    BY NAssumption DEF Slots
  <1>1. Len(L) \in 0..N
    BY <1>0, SlotValue
  <1>2. Sums(B, d, N) /\ \A k \in 1..Len(L) : d[k-1] = L[k].size
    BY Positions
  <1> HIDE DEF B, d, L
  <1>3. n \in Nat /\ n <= Len(L) /\ n <= N
    BY <1>0, <1>1 DEF L
  <1>4. Sums(B, d, n)
    BY <1>0, <1>2, <1>3 DEF Sums
  <1>5. ASSUME NEW k \in 1..n
        PROVE  d[k-1] = Len(s[k])
    <2>1. k \in 1..Len(L)
      BY <1>1, <1>3
    <2>2. d[k-1] = L[k].size
      BY <1>2, <2>1
    <2> QED
      BY <2>2 DEF L
  <1>6. Joins(FlattenSeq(s), T, s, B, n)
    BY <1>3, <1>4, <1>5, FlattenValue
  <1> QED
    BY <1>6 DEF B
=============================================================================
