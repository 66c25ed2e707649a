----------------------------- MODULE TextProofs -----------------------------
(***************************************************************************)
(* Lemmas about texts, that is about sequences of any characters: what     *)
(* FlattenSeq and Only compute, and how subsequences and suffixes behave   *)
(* when texts are appended.  The proofs about the buffer and about the     *)
(* server rest on them.                                                    *)
(***************************************************************************)
EXTENDS TextOps, SequencesExt, SequenceTheorems, WellFoundedInduction, TLAPS

(* Induction, for sets: the form in which the provers can use it. *)
LEMMA SetInduction ==
    ASSUME NEW S, 0 \in S, \A n \in Nat : n \in S => n + 1 \in S
    PROVE  Nat \subseteq S
  <1> DEFINE Less == {p \in Nat \X Nat : p[1] < p[2]}
             T == Nat \ S
  <1>1. IsWellFoundedOn(Less, Nat)
    BY NatLessThanWellFounded DEF OpToRel
  <1>2. \A m, n \in Nat : m < n => <<m, n>> \in Less
    BY Zenon
  <1> SUFFICES ASSUME T # {} PROVE FALSE
    OBVIOUS
  <1>3. T \subseteq Nat
    OBVIOUS
  <1> HIDE DEF Less, T
  <1>4. PICK x \in T : \A y \in T : ~(<<y, x>> \in Less)
    <2>1. \E x \in T : \A y \in T : ~(<<y, x>> \in Less)
      BY <1>1, <1>3, WFMin
    <2> QED
      BY <2>1
  <1>5. x \in Nat /\ x \notin S /\ x # 0
    BY <1>4 DEF T
  <1>6. x - 1 \in Nat /\ x - 1 < x /\ (x - 1) + 1 = x
    BY <1>5
  <1>7. x - 1 \notin T
    BY <1>2, <1>3, <1>4, <1>5, <1>6, Zenon
  <1>8. x - 1 \in S
    BY <1>6, <1>7 DEF T
  <1> QED
    BY <1>5, <1>6, <1>8
-----------------------------------------------------------------------------
(* The partial concatenations of the sequences in s, which FlattenSeq      *)
(* goes through.                                                           *)
Flat(g, s, n) == \A i \in 1..n : g[i] = IF i = 1 THEN s[i] ELSE g[i-1] \o s[i]

LEMMA FlatExists ==
    ASSUME NEW n \in Nat, NEW s
    PROVE  \E g : Flat(g, s, n)
  <1> DEFINE S == {m \in Nat : \E g : Flat(g, s, m)}
  <1>1. Flat(s, s, 0)
    BY DEF Flat
  <1>2. ASSUME NEW m \in Nat, NEW g, Flat(g, s, m)
        PROVE  Flat([i \in 1..m+1 |-> IF i <= m THEN g[i]
                                      ELSE IF i = 1 THEN s[i] ELSE g[m] \o s[i]], s, m + 1)
    BY <1>2 DEF Flat
  <1>3. 0 \in S
    BY <1>1, Zenon
  <1>4. ASSUME NEW m \in Nat, m \in S
        PROVE  m + 1 \in S
    <2>1. m + 1 \in Nat
      OBVIOUS
    <2> QED
      BY <1>2, <1>4, <2>1, Zenon
  <1>5. Nat \subseteq S
    <2> HIDE DEF S
    <2> QED
      BY <1>3, <1>4, SetInduction
  <1> QED
    BY <1>5, Zenon

LEMMA FlattenIsFlat ==
    ASSUME NEW n \in Nat, NEW s, Len(s) = n, n # 0
    PROVE  \E g : Flat(g, s, n) /\ FlattenSeq(s) = g[n]
  <1>1. PICK h : Flat(h, s, n)
    BY FlatExists
  <1> DEFINE g == [i \in 1..n |-> h[i]]
             flatten == CHOOSE f : f = [i \in 1..n |-> IF i = 1 THEN s[i] ELSE f[i-1] \o s[i]]
  <1>2. g = [i \in 1..n |-> IF i = 1 THEN s[i] ELSE g[i-1] \o s[i]]
    BY <1>1 DEF Flat
  <1> HIDE DEF g
  <1>3. flatten = [i \in 1..n |-> IF i = 1 THEN s[i] ELSE flatten[i-1] \o s[i]]
    BY <1>2
  <1>4. FlattenSeq(s) = flatten[n]
    BY DEF FlattenSeq
  <1> HIDE DEF flatten
  <1>5. Flat(flatten, s, n)
    BY <1>3 DEF Flat
  <1> QED
    BY <1>4, <1>5
-----------------------------------------------------------------------------
(* g[i] is what Only keeps of the first i characters of s. *)
Keep(s, S, i, kept) == IF s[i] \in S THEN Append(kept, s[i]) ELSE kept
Kept(g, s, S, n) ==
    /\ g[0] = <<>>
    /\ \A i \in 1..n : g[i] = Keep(s, S, i, g[i-1])

LEMMA KeptExists ==
    ASSUME NEW n \in Nat, NEW s, NEW S
    PROVE  \E g : Kept(g, s, S, n)
  <1> DEFINE M == {m \in Nat : \E g : Kept(g, s, S, m)}
  <1>1. Kept([i \in 0..0 |-> <<>>], s, S, 0)
    BY DEF Kept
  <1>2. ASSUME NEW m \in Nat, NEW g, Kept(g, s, S, m)
        PROVE  Kept([i \in 0..m+1 |-> IF i <= m THEN g[i] ELSE Keep(s, S, i, g[m])], s, S, m + 1)
    BY <1>2 DEF Kept
  <1>3. 0 \in M
    BY <1>1, Zenon
  <1>4. ASSUME NEW m \in Nat, m \in M
        PROVE  m + 1 \in M
    <2>1. m + 1 \in Nat
      OBVIOUS
    <2> QED
      BY <1>2, <1>4, <2>1, Zenon
  <1>5. Nat \subseteq M
    <2> HIDE DEF M
    <2> QED
      BY <1>3, <1>4, SetInduction
  <1> QED
    BY <1>5, Zenon

LEMMA OnlyIsKept ==
    ASSUME NEW s, NEW S, Len(s) \in Nat
    PROVE  \E g : Kept(g, s, S, Len(s)) /\ Only(s, S) = g[Len(s)]
  <1> DEFINE n == Len(s)
  <1>n. n \in Nat
    OBVIOUS
  <1>1. PICK h : Kept(h, s, S, n)
    BY KeptExists
  <1> DEFINE g == [i \in 0..n |-> h[i]]
             kept == CHOOSE f : f = [i \in 0..n |-> IF i = 0 THEN <<>> ELSE Keep(s, S, i, f[i-1])]
  <1>2. g = [i \in 0..n |-> IF i = 0 THEN <<>> ELSE Keep(s, S, i, g[i-1])]
    BY <1>1 DEF Kept
  <1>3. Only(s, S) = kept[n]
    BY DEF Only, Keep
  <1> HIDE DEF g, n
  <1>4. kept = [i \in 0..n |-> IF i = 0 THEN <<>> ELSE Keep(s, S, i, kept[i-1])]
    BY <1>2
  <1> HIDE DEF kept
  <1>5. Kept(kept, s, S, n)
    BY <1>4, <1>n DEF Kept
  <1> QED
    BY <1>3, <1>5 DEF n

(* What is kept of the beginning of a text does not depend on the rest. *)
LEMMA KeptAgree ==
    ASSUME NEW T, NEW s \in Seq(T), NEW t \in Seq(T), NEW S, NEW g, NEW h,
           Kept(g, s, S, Len(s)), Kept(h, t, S, Len(t)), NEW n \in Nat,
           n <= Len(s), n <= Len(t), \A i \in 1..n : s[i] = t[i]
    PROVE  g[n] = h[n]
  <1> DEFINE M == {m \in Nat : m <= n => g[m] = h[m]}
  <1>0. Len(s) \in Nat /\ Len(t) \in Nat
    OBVIOUS
  <1>1. 0 \in M
    BY DEF Kept
  <1>2. ASSUME NEW m \in Nat, m \in M
        PROVE  m + 1 \in M
    <2> SUFFICES ASSUME m + 1 <= n PROVE g[m + 1] = h[m + 1]
      OBVIOUS
    <2>1. /\ m + 1 \in 1..Len(s) /\ m + 1 \in 1..Len(t) /\ m + 1 \in 1..n
          /\ (m + 1) - 1 = m /\ m <= n
      BY <1>0
    <2>2. g[m] = h[m] /\ s[m + 1] = t[m + 1]
      BY <1>2, <2>1
    <2>3. g[m + 1] = Keep(s, S, m + 1, g[m]) /\ h[m + 1] = Keep(t, S, m + 1, h[m])
      BY <2>1 DEF Kept
    <2>4. Keep(s, S, m + 1, g[m]) = Keep(t, S, m + 1, h[m])
      <3> DEFINE x == s[m + 1]
                 y == g[m]
      <3>1. x = t[m + 1] /\ y = h[m]
        BY <2>2
      <3> HIDE DEF x, y
      <3> QED
        BY <3>1 DEF Keep, x, y
    <2> QED
      BY <2>3, <2>4, Zenon
  <1>3. Nat \subseteq M
    <2> HIDE DEF M
    <2> QED
      BY <1>1, <1>2, SetInduction
  <1>4. n \in M /\ n <= n
    BY <1>3
  <1> QED
    BY <1>4

(* Only keeps characters of the text. *)
LEMMA OnlyTyped ==
    ASSUME NEW T, NEW s \in Seq(T), NEW S
    PROVE  Only(s, S) \in Seq(T)
  <1>0. Len(s) \in Nat
    OBVIOUS
  <1>1. PICK g : Kept(g, s, S, Len(s)) /\ Only(s, S) = g[Len(s)]
    BY <1>0, OnlyIsKept
  <1> DEFINE M == {m \in Nat : m <= Len(s) => g[m] \in Seq(T)}
  <1>2. 0 \in M
    <2>1. g[0] = <<>>
      BY <1>1 DEF Kept
    <2> QED
      BY <2>1, EmptySeq
  <1>3. ASSUME NEW m \in Nat, m \in M
        PROVE  m + 1 \in M
    <2> SUFFICES ASSUME m + 1 <= Len(s) PROVE g[m + 1] \in Seq(T)
      OBVIOUS
    <2>1. m + 1 \in 1..Len(s) /\ (m + 1) - 1 = m /\ m <= Len(s)
      BY <1>0
    <2>2. g[m] \in Seq(T) /\ s[m + 1] \in T
      BY <1>3, <2>1, ElementOfSeq
    <2>3. Append(g[m], s[m + 1]) \in Seq(T)
      BY <2>2, AppendProperties
    <2>4. g[m + 1] = Keep(s, S, m + 1, g[m])
      BY <1>1, <2>1 DEF Kept
    <2> QED
      BY <2>2, <2>3, <2>4, Zenon DEF Keep
  <1>4. Nat \subseteq M
    <2> HIDE DEF M
    <2> QED
      BY <1>2, <1>3, SetInduction
  <1>5. Len(s) \in M /\ Len(s) <= Len(s)
    BY <1>0, <1>4
  <1> QED
    BY <1>1, <1>5

(* Concatenation under a name: the provers rewrite what they know about    *)
(* sequences, and find such facts by name more easily.                     *)
Cat(s, t) == s \o t
App(s, e) == Append(s, e)

LEMMA CatAppend ==
    ASSUME NEW T, NEW x \in Seq(T), NEW y \in Seq(T), NEW e \in T
    PROVE  App(Cat(x, y), e) = Cat(x, App(y, e))
  BY DEF Cat, App

(* Only goes through the two parts of a text one after the other. *)
LEMMA OnlyConcat ==
    ASSUME NEW T, NEW s \in Seq(T), NEW t \in Seq(T), NEW S
    PROVE  Only(s \o t, S) = Only(s, S) \o Only(t, S)
  <1> DEFINE u == s \o t
             a == Len(s)
             b == Len(t)
  <1>0. /\ a \in Nat /\ b \in Nat /\ u \in Seq(T) /\ Len(u) = a + b
        /\ \A i \in 1..(a + b) : u[i] = IF i <= a THEN s[i] ELSE t[i - a]
    BY ConcatProperties
  <1>1. PICK g : Kept(g, s, S, Len(s)) /\ Only(s, S) = g[Len(s)]
    BY <1>0, OnlyIsKept
  <1>2. PICK h : Kept(h, t, S, Len(t)) /\ Only(t, S) = h[Len(t)]
    BY <1>0, OnlyIsKept
  <1> HIDE DEF u
  <1>3. PICK k : Kept(k, u, S, Len(u)) /\ Only(u, S) = k[Len(u)]
    <2>1. Len(u) \in Nat
      BY <1>0
    <2> HIDE DEF a, b
    <2> QED
      BY <2>1, OnlyIsKept
  <1>4. k[a] = g[a]
    <2>1. a <= Len(u) /\ a <= a /\ \A i \in 1..a : i \in 1..(a + b) /\ i <= a
      <3> HIDE DEF a, b
      <3> QED
        BY <1>0
    <2>2. \A i \in 1..a : u[i] = s[i]
      BY <1>0, <2>1
    <2> QED
      <3> HIDE DEF a, b
      <3>1. Kept(k, u, S, Len(u)) /\ Kept(g, s, S, Len(s)) /\ \A i \in 1..a : u[i] = s[i]
        BY <1>1, <1>3, <2>2
      <3>2. a \in Nat /\ a <= Len(u) /\ a <= Len(s) /\ u \in Seq(T) /\ s \in Seq(T)
        BY <1>0, <2>1 DEF a
      <3> QED
        BY <3>1, <3>2, KeptAgree
  <1>5. g[a] \in Seq(T)
    BY <1>1, OnlyTyped
  <1> DEFINE P(i) == k[a + i] = g[a] \o h[i] /\ h[i] \in Seq(T)
             M == {m \in Nat : m <= b => P(m)}
  <1>6. 0 \in M
    <2>1. h[0] = <<>> /\ a + 0 = a
      BY <1>0, <1>2 DEF Kept
    <2>2. g[a] \o <<>> = g[a]
      BY <1>5, ConcatEmptySeq
    <2>3. P(0)
      BY <1>4, <2>1, <2>2, EmptySeq
    <2> HIDE DEF P
    <2> QED
      BY <2>3
  <1>7. ASSUME NEW m \in Nat, m \in M
        PROVE  m + 1 \in M
    <2> SUFFICES ASSUME m + 1 <= b
                 PROVE  P(m + 1)
      <3> HIDE DEF P, b
      <3> QED
        OBVIOUS
    <2>1. /\ m + 1 \in 1..b /\ (m + 1) - 1 = m /\ m <= b
          /\ a + (m + 1) \in 1..(a + b) /\ (a + (m + 1)) - 1 = a + m
          /\ ~(a + (m + 1) <= a) /\ (a + (m + 1)) - a = m + 1
      <3> HIDE DEF a, b
      <3> QED
        BY <1>0
    <2>2. u[a + (m + 1)] = t[m + 1] /\ t[m + 1] \in T
      BY <1>0, <2>1, ElementOfSeq
    <2>3. k[a + m] = g[a] \o h[m] /\ h[m] \in Seq(T)
      BY <1>7, <2>1
    <2>4. h[m + 1] = Keep(t, S, m + 1, h[m])
      BY <1>2, <2>1 DEF Kept
    <2>5. k[a + (m + 1)] = Keep(u, S, a + (m + 1), k[a + m])
      <3>1. a + (m + 1) \in 1..Len(u)
        BY <1>0, <2>1
      <3> QED
        BY <1>3, <2>1, <3>1 DEF Kept
    <2>6. Append(h[m], t[m + 1]) \in Seq(T)
      BY <2>2, <2>3, AppendProperties
    <2>7. Append(g[a] \o h[m], t[m + 1]) = g[a] \o Append(h[m], t[m + 1])
      <3>1. h[m] \in Seq(T) /\ t[m + 1] \in T
        BY <2>2, <2>3
      <3>2. App(Cat(g[a], h[m]), t[m + 1]) = Cat(g[a], App(h[m], t[m + 1]))
        BY <1>5, <3>1, CatAppend
      <3> QED
        BY <3>2 DEF Cat, App
    <2>8. k[a + (m + 1)] = g[a] \o Keep(t, S, m + 1, h[m])
      <3>1. CASE t[m + 1] \in S
        BY <2>2, <2>3, <2>5, <2>7, <3>1, Zenon DEF Keep
      <3>2. CASE t[m + 1] \notin S
        BY <2>2, <2>3, <2>5, <3>2, Zenon DEF Keep
      <3> QED
        BY <3>1, <3>2
    <2>9. Keep(t, S, m + 1, h[m]) \in Seq(T)
      BY <2>3, <2>6, Zenon DEF Keep
    <2> QED
      BY <2>4, <2>8, <2>9, Zenon
  <1>8. Nat \subseteq M
    <2> HIDE DEF M
    <2> QED
      BY <1>6, <1>7, SetInduction
  <1>9. b \in M /\ b <= b
    <2> HIDE DEF M
    <2> QED
      BY <1>0, <1>8
  <1> QED
    BY <1>0, <1>1, <1>2, <1>3, <1>9 DEF u

LEMMA OnlyEmpty ==
    ASSUME NEW S
    PROVE  Only(<<>>, S) = <<>>
  <1>1. Len(<<>>) = 0 /\ Len(<<>>) \in Nat
    OBVIOUS
  <1>2. PICK g : Kept(g, <<>>, S, Len(<<>>)) /\ Only(<<>>, S) = g[Len(<<>>)]
    BY <1>1, OnlyIsKept
  <1> QED
    BY <1>1, <1>2 DEF Kept

(* Text s has no character that is in S. *)
Avoids(s, S) == \A i \in 1..Len(s) : s[i] \notin S

LEMMA OnlyAvoids ==
    ASSUME NEW T, NEW s \in Seq(T), NEW S, Avoids(s, S)
    PROVE  Only(s, S) = <<>>
  <1>0. Len(s) \in Nat
    OBVIOUS
  <1>1. PICK g : Kept(g, s, S, Len(s)) /\ Only(s, S) = g[Len(s)]
    BY <1>0, OnlyIsKept
  <1> DEFINE M == {m \in Nat : m <= Len(s) => g[m] = <<>>}
  <1>2. 0 \in M
    BY <1>1 DEF Kept
  <1>3. ASSUME NEW m \in Nat, m \in M
        PROVE  m + 1 \in M
    <2> SUFFICES ASSUME m + 1 <= Len(s) PROVE g[m + 1] = <<>>
      OBVIOUS
    <2>1. m + 1 \in 1..Len(s) /\ (m + 1) - 1 = m /\ m <= Len(s)
      BY <1>0
    <2>2. g[m] = <<>> /\ s[m + 1] \notin S
      BY <1>3, <2>1 DEF Avoids
    <2>3. g[m + 1] = Keep(s, S, m + 1, g[m])
      BY <1>1, <2>1 DEF Kept
    <2> QED
      BY <2>2, <2>3, Zenon DEF Keep
  <1>4. Nat \subseteq M
    <2> HIDE DEF M
    <2> QED
      BY <1>2, <1>3, SetInduction
  <1>5. Len(s) \in M /\ Len(s) <= Len(s)
    BY <1>0, <1>4
  <1> QED
    BY <1>1, <1>5

LEMMA AvoidsConcat ==
    ASSUME NEW T, NEW s \in Seq(T), NEW t \in Seq(T), NEW S, Avoids(s, S), Avoids(t, S)
    PROVE  Avoids(s \o t, S)
  BY ConcatProperties DEF Avoids

(* Pieces of texts. *)
LEMMA AvoidsPiece ==
    ASSUME NEW T, NEW s \in Seq(T), NEW S, Avoids(s, S), NEW m \in Nat \ {0}, NEW n \in 0..Len(s)
    PROVE  Avoids(SubSeq(s, m, n), S)
  <1>1. CASE m <= n
    <2>1. /\ Len(SubSeq(s, m, n)) = n - m + 1
          /\ \A i \in 1..(n - m + 1) : SubSeq(s, m, n)[i] = s[m + i - 1] /\ m + i - 1 \in 1..Len(s)
      BY <1>1, SubSeqProperties
    <2> QED
      BY <2>1 DEF Avoids
  <1>2. CASE m > n
    <2>1. SubSeq(s, m, n) = <<>>
      BY <1>2
    <2> QED
      BY <2>1 DEF Avoids
  <1> QED
    BY <1>1, <1>2

LEMMA PieceOfPiece ==
    ASSUME NEW T, NEW s \in Seq(T), NEW m \in 0..Len(s), NEW n \in 0..m
    PROVE  /\ SubSeq(s, 1, m) \in Seq(T) /\ Len(SubSeq(s, 1, m)) = m
           /\ SubSeq(SubSeq(s, 1, m), 1, n) = SubSeq(s, 1, n)
  <1> DEFINE u == SubSeq(s, 1, m)
  <1>1. u \in Seq(T) /\ Len(u) = m /\ \A i \in 1..m : u[i] = s[i]
    BY SubSeqProperties
  <1> HIDE DEF u
  <1>2. SubSeq(u, 1, n) \in Seq(T) /\ Len(SubSeq(u, 1, n)) = n /\ \A i \in 1..n : SubSeq(u, 1, n)[i] = u[i]
    BY <1>1, SubSeqProperties
  <1>3. SubSeq(s, 1, n) \in Seq(T) /\ Len(SubSeq(s, 1, n)) = n /\ \A i \in 1..n : SubSeq(s, 1, n)[i] = s[i]
    BY SubSeqProperties
  <1>4. SubSeq(u, 1, n) = SubSeq(s, 1, n)
    BY <1>1, <1>2, <1>3, SeqEqual
  <1> QED
    BY <1>1, <1>4 DEF u

LEMMA PieceOfLeft ==
    ASSUME NEW T, NEW s \in Seq(T), NEW t \in Seq(T), NEW i \in Nat, NEW k \in Nat, i + k <= Len(s)
    PROVE  SubSeq(s \o t, i + 1, i + k) = SubSeq(s, i + 1, i + k)
  <1> DEFINE u == s \o t
  <1>1. /\ u \in Seq(T) /\ Len(u) = Len(s) + Len(t) /\ Len(s) \in Nat /\ Len(t) \in Nat
        /\ \A j \in 1..Len(s) : u[j] = s[j]
    BY ConcatProperties
  <1> HIDE DEF u
  <1>2. CASE k = 0
    <2>1. SubSeq(u, i + 1, i + k) = <<>> /\ SubSeq(s, i + 1, i + k) = <<>>
      BY <1>1, <1>2
    <2> QED
      BY <2>1 DEF u
  <1>3. CASE k # 0
    <2>1. /\ SubSeq(s, i + 1, i + k) \in Seq(T) /\ Len(SubSeq(s, i + 1, i + k)) = k
          /\ \A j \in 1..k : SubSeq(s, i + 1, i + k)[j] = s[i + j]
      BY <1>1, <1>3, SubSeqProperties
    <2>2. /\ SubSeq(u, i + 1, i + k) \in Seq(T) /\ Len(SubSeq(u, i + 1, i + k)) = k
          /\ \A j \in 1..k : SubSeq(u, i + 1, i + k)[j] = u[i + j]
      BY <1>1, <1>3, SubSeqProperties
    <2>3. \A j \in 1..k : i + j \in 1..Len(s)
      BY <1>1
    <2>4. SubSeq(u, i + 1, i + k) = SubSeq(s, i + 1, i + k)
      BY <1>1, <2>1, <2>2, <2>3, SeqEqual
    <2> QED
      BY <2>4 DEF u
  <1> QED
    BY <1>2, <1>3

LEMMA PieceOfRight ==
    ASSUME NEW T, NEW s \in Seq(T), NEW t \in Seq(T)
    PROVE  SubSeq(s \o t, Len(s) + 1, Len(s) + Len(t)) = t
  <1> DEFINE u == s \o t
             a == Len(s)
             b == Len(t)
  <1>1. /\ u \in Seq(T) /\ Len(u) = a + b /\ a \in Nat /\ b \in Nat
        /\ \A j \in 1..(a + b) : u[j] = IF j <= a THEN s[j] ELSE t[j - a]
    BY ConcatProperties
  <1>2. b = Len(t)
    OBVIOUS
  <1> HIDE DEF u, a
  <1>3. CASE b = 0
    <2>1. t = <<>>
      BY <1>2, <1>3
    <2>2. SubSeq(u, a + 1, a + b) = <<>>
      BY <1>1, <1>3
    <2> QED
      BY <2>1, <2>2 DEF u, a
  <1>4. CASE b # 0
    <2> HIDE DEF b
    <2>1. /\ SubSeq(u, a + 1, a + b) \in Seq(T) /\ Len(SubSeq(u, a + 1, a + b)) = b
          /\ \A j \in 1..b : SubSeq(u, a + 1, a + b)[j] = u[a + j]
      BY <1>1, <1>4, SubSeqProperties
    <2>2. \A j \in 1..b : u[a + j] = t[j]
      <3>1. \A j \in 1..b : a + j \in 1..(a + b) /\ ~(a + j <= a) /\ (a + j) - a = j
        BY <1>1
      <3> QED
        BY <1>1, <3>1
    <2>3. SubSeq(u, a + 1, a + b) = t
      BY <1>2, <2>1, <2>2, SeqEqual
    <2> QED
      BY <2>3 DEF u, a, b
  <1> QED
    BY <1>3, <1>4
-----------------------------------------------------------------------------
(* FlattenSeq, one sequence after the other. *)
LEMMA FlatAgree ==
    ASSUME NEW s, NEW t, NEW g, NEW h, NEW n \in Nat, Flat(g, s, n), Flat(h, t, n),
           \A i \in 1..n : s[i] = t[i]
    PROVE  \A i \in 1..n : g[i] = h[i]
  <1> DEFINE M == {m \in Nat : \A i \in 1..m : i <= n => g[i] = h[i]}
  <1>1. 0 \in M
    OBVIOUS
  <1>2. ASSUME NEW m \in Nat, m \in M
        PROVE  m + 1 \in M
    <2> SUFFICES ASSUME m + 1 <= n PROVE g[m + 1] = h[m + 1]
      BY <1>2
    <2>1. m + 1 \in 1..n /\ (m + 1) - 1 = m
      OBVIOUS
    <2>2. s[m + 1] = t[m + 1]
      BY <2>1
    <2>3. CASE m = 0
      BY <2>1, <2>2, <2>3 DEF Flat
    <2>4. CASE m # 0
      <3>1. m \in 1..m /\ m <= n /\ m + 1 # 1
        BY <2>1, <2>4
      <3>2. g[m] = h[m]
        BY <1>2, <3>1
      <3>3. g[m + 1] = Cat(g[m], s[m + 1]) /\ h[m + 1] = Cat(h[m], t[m + 1])
        BY <2>1, <3>1 DEF Flat, Cat
      <3> QED
        BY <2>2, <3>2, <3>3
    <2> QED
      BY <2>3, <2>4
  <1>3. Nat \subseteq M
    <2> HIDE DEF M
    <2> QED
      BY <1>1, <1>2, SetInduction
  <1>4. n \in M
    BY <1>3
  <1> QED
    BY <1>4

LEMMA FlattenEmpty == FlattenSeq(<<>>) = <<>>
  BY DEF FlattenSeq

LEMMA FlattenSingle ==
    ASSUME NEW T, NEW s \in Seq(T), Len(s) = 1
    PROVE  FlattenSeq(s) = s[1]
  <1>0. 1 \in Nat /\ 1 # 0
    OBVIOUS
  <1>1. PICK g : Flat(g, s, 1) /\ FlattenSeq(s) = g[1]
    BY <1>0, FlattenIsFlat
  <1> QED
    BY <1>1 DEF Flat

LEMMA FlattenAppend ==
    ASSUME NEW T, NEW s \in Seq(Seq(T)), NEW x \in Seq(T)
    PROVE  FlattenSeq(Append(s, x)) = FlattenSeq(s) \o x
  <1> DEFINE u == Append(s, x)
             n == Len(s)
  <1>1. /\ n \in Nat /\ u \in Seq(Seq(T)) /\ Len(u) = n + 1 /\ u[n + 1] = x
        /\ \A i \in 1..n : u[i] = s[i]
    BY AppendProperties
  <1>2. CASE n = 0
    <2>1. s = <<>> /\ u = <<x>>
      BY <1>2
    <2>2. Len(u) = 1 /\ u[1] = x
      BY <1>1, <1>2
    <2>3. FlattenSeq(u) = x
      <3> HIDE DEF u
      <3> QED
        BY <1>1, <2>2, FlattenSingle
    <2>4. FlattenSeq(s) \o x = x
      BY <2>1, FlattenEmpty, ConcatEmptySeq
    <2> QED
      BY <2>3, <2>4
  <1>3. CASE n # 0
    <2>1. PICK g : Flat(g, s, n) /\ FlattenSeq(s) = g[n]
      BY <1>1, <1>3, FlattenIsFlat
    <2> HIDE DEF u
    <2>2. PICK h : Flat(h, u, n + 1) /\ FlattenSeq(u) = h[n + 1]
      <3>1. n + 1 \in Nat /\ n + 1 # 0
        BY <1>1
      <3> HIDE DEF n
      <3> QED
        BY <1>1, <3>1, FlattenIsFlat
    <2> HIDE DEF n
    <2>3. Flat(h, u, n)
      BY <1>1, <2>2 DEF Flat
    <2>4. g[n] = h[n]
      <3>1. \A i \in 1..n : g[i] = h[i]
        BY <1>1, <2>1, <2>3, FlatAgree, SMTT(30)
      <3> QED
        BY <1>1, <1>3, <3>1, SMTT(30)
    <2>5. n + 1 \in 1..n+1 /\ n + 1 # 1 /\ (n + 1) - 1 = n
      BY <1>1, <1>3
    <2>6. h[n + 1] = Cat(h[n], u[n + 1])
      BY <2>2, <2>5 DEF Flat, Cat
    <2> QED
      BY <1>1, <2>1, <2>2, <2>4, <2>6 DEF Cat, u
  <1> QED
    BY <1>2, <1>3

LEMMA FlattenTyped ==
    ASSUME NEW T, NEW s \in Seq(Seq(T))
    PROVE  FlattenSeq(s) \in Seq(T)
  <1> DEFINE n == Len(s)
  <1>1. n \in Nat /\ \A i \in 1..n : s[i] \in Seq(T)
    OBVIOUS
  <1>2. CASE n = 0
    <2>1. s = <<>>
      BY <1>2
    <2> QED
      BY <2>1, FlattenEmpty, EmptySeq
  <1>3. CASE n # 0
    <2>1. PICK g : Flat(g, s, n) /\ FlattenSeq(s) = g[n]
      BY <1>1, <1>3, FlattenIsFlat
    <2> HIDE DEF n
    <2> DEFINE M == {m \in Nat : 1 <= m /\ m <= n => g[m] \in Seq(T)}
    <2>2. 0 \in M
      OBVIOUS
    <2>3. ASSUME NEW m \in Nat, m \in M
          PROVE  m + 1 \in M
      <3> SUFFICES ASSUME m + 1 <= n PROVE g[m + 1] \in Seq(T)
        OBVIOUS
      <3>1. m + 1 \in 1..n /\ (m + 1) - 1 = m /\ (m + 1 = 1 <=> m = 0) /\ s[m + 1] \in Seq(T)
        BY <1>1
      <3>2. CASE m = 0
        BY <2>1, <3>1, <3>2 DEF Flat
      <3>3. CASE m # 0
        <4>1. g[m + 1] = Cat(g[m], s[m + 1])
          BY <2>1, <3>1, <3>3 DEF Flat, Cat
        <4>2. g[m] \in Seq(T)
          BY <1>1, <2>3, <3>1, <3>3
        <4> QED
          BY <3>1, <4>1, <4>2, ConcatProperties DEF Cat
      <3> QED
        BY <3>2, <3>3
    <2>4. Nat \subseteq M
      <3> HIDE DEF M
      <3> QED
        BY <2>2, <2>3, SetInduction
    <2>5. n \in M
      BY <1>1, <2>4
    <2> QED
      BY <1>1, <1>3, <2>1, <2>5
  <1> QED
    BY <1>2, <1>3

(* What is put together from texts without some characters is one. *)
LEMMA FlattenAvoids ==
    ASSUME NEW T, NEW s \in Seq(Seq(T)), NEW S, \A i \in 1..Len(s) : Avoids(s[i], S)
    PROVE  Avoids(FlattenSeq(s), S)
  <1> DEFINE Q == {x \in T : x \notin S}
  <1>1. \A i \in 1..Len(s) : s[i] \in Seq(Q)
    <2>1. ASSUME NEW i \in 1..Len(s)
          PROVE  s[i] \in Seq(Q)
      <3> DEFINE x == s[i]
      <3>1. x \in Seq(T) /\ Len(x) \in Nat /\ \A j \in 1..Len(x) : x[j] \in T /\ x[j] \notin S
        BY DEF Avoids
      <3> HIDE DEF x
      <3>2. x \in Seq(Q)
        BY <3>1, SMTT(30)
      <3> QED
        BY <3>2 DEF x
    <2> QED
      BY <2>1
  <1> HIDE DEF Q
  <1>2. s \in Seq(Seq(Q))
    BY <1>1
  <1>3. FlattenSeq(s) \in Seq(Q)
    BY <1>2, FlattenTyped
  <1> QED
    BY <1>3 DEF Avoids, Q

LEMMA CatAssociative ==
    ASSUME NEW T, NEW x \in Seq(T), NEW y \in Seq(T), NEW z \in Seq(T)
    PROVE  Cat(Cat(x, y), z) = Cat(x, Cat(y, z)) /\ Cat(x, y) \in Seq(T)
  <1>1. x \o y \in Seq(T) /\ (x \o y) \o z = x \o (y \o z)
    BY ConcatAssociative, ConcatProperties, SMTT(20)
  <1> QED
    BY <1>1, Zenon DEF Cat

LEMMA FlattenHead ==
    ASSUME NEW T, NEW s \in Seq(Seq(T)), s # <<>>
    PROVE  FlattenSeq(s) = Head(s) \o FlattenSeq(Tail(s))
  <1> DEFINE t == Tail(s)
             n == Len(t)
             a == Head(s)
  <1>1. /\ n \in Nat /\ t \in Seq(Seq(T)) /\ Len(s) = n + 1 /\ a = s[1] /\ a \in Seq(T)
        /\ \A i \in 1..n : t[i] = s[i + 1] /\ t[i] \in Seq(T)
    BY HeadTailProperties
  <1>2. n + 1 \in Nat /\ n + 1 # 0
    BY <1>1
  <1>3. PICK g : Flat(g, s, n + 1) /\ FlattenSeq(s) = g[n + 1]
    <2> HIDE DEF n
    <2> QED
      BY <1>1, <1>2, FlattenIsFlat
  <1>4. CASE n = 0
    <2>1. t = <<>>
      <3> HIDE DEF t
      <3> QED
        BY <1>1, <1>4
    <2>2. g[1] = s[1] /\ n + 1 = 1
      BY <1>3, <1>4 DEF Flat
    <2>3. a \o <<>> = a
      BY <1>1, ConcatEmptySeq
    <2> QED
      BY <1>1, <1>3, <2>1, <2>2, <2>3, FlattenEmpty
  <1>5. CASE n # 0
    <2>1. PICK h : Flat(h, t, n) /\ FlattenSeq(t) = h[n]
      BY <1>1, <1>5, FlattenIsFlat
    <2> HIDE DEF n, t, a
    <2> DEFINE P(m) == g[m + 1] = Cat(a, h[m]) /\ h[m] \in Seq(T)
               M == {m \in Nat : 1 <= m /\ m <= n => P(m)}
    <2>2. 0 \in M
      OBVIOUS
    <2>3. ASSUME NEW m \in Nat, m \in M
          PROVE  m + 1 \in M
      <3> SUFFICES ASSUME m + 1 <= n PROVE P(m + 1)
        <4> HIDE DEF P
        <4> QED
          OBVIOUS
      <3>1. /\ m + 1 \in 1..n /\ (m + 1) - 1 = m /\ (m + 1 = 1 <=> m = 0)
            /\ (m + 1) + 1 \in 1..n+1 /\ ((m + 1) + 1) - 1 = m + 1 /\ (m + 1) + 1 # 1
        BY <1>1
      <3>2. t[m + 1] = s[(m + 1) + 1] /\ t[m + 1] \in Seq(T)
        BY <1>1, <3>1
      <3>3. g[(m + 1) + 1] = Cat(g[m + 1], t[m + 1])
        BY <1>3, <3>1, <3>2 DEF Flat, Cat
      <3>4. CASE m = 0
        <4>1. 1 \in 1..n+1 /\ m + 1 = 1
          BY <1>1, <3>4
        <4>2. g[1] = a
          BY <1>1, <1>3, <4>1 DEF Flat
        <4>3. h[m + 1] = t[m + 1]
          BY <2>1, <3>1, <3>4 DEF Flat
        <4> QED
          BY <3>2, <3>3, <4>1, <4>2, <4>3
      <3>5. CASE m # 0
        <4>1. g[m + 1] = Cat(a, h[m]) /\ h[m] \in Seq(T)
          BY <1>1, <2>3, <3>1, <3>5
        <4>2. h[m + 1] = Cat(h[m], t[m + 1])
          BY <2>1, <3>1, <3>5 DEF Flat, Cat
        <4>3. Cat(Cat(a, h[m]), t[m + 1]) = Cat(a, Cat(h[m], t[m + 1]))
          <5>1. a \in Seq(T) /\ h[m] \in Seq(T) /\ t[m + 1] \in Seq(T)
            BY <1>1, <3>2, <4>1
          <5> DEFINE y == h[m]
                     z == t[m + 1]
          <5> HIDE DEF y, z
          <5>2. y \in Seq(T) /\ z \in Seq(T)
            BY <5>1 DEF y, z
          <5>3. Cat(Cat(a, y), z) = Cat(a, Cat(y, z))
            BY <5>1, <5>2, CatAssociative
          <5> QED
            BY <5>3 DEF y, z
        <4>4. Cat(h[m], t[m + 1]) \in Seq(T)
          BY <3>2, <4>1, CatAssociative
        <4> QED
          BY <3>3, <4>1, <4>2, <4>3, <4>4
      <3> QED
        BY <3>4, <3>5
    <2>4. Nat \subseteq M
      <3> HIDE DEF M
      <3> QED
        BY <2>2, <2>3, SetInduction
    <2>5. n \in M
      BY <1>1, <2>4
    <2>6. P(n)
      BY <1>1, <1>5, <2>5
    <2> QED
      BY <1>3, <2>1, <2>6 DEF Cat, t, a
  <1> QED
    BY <1>4, <1>5
-----------------------------------------------------------------------------
(* Subsequences. *)
LEMMA SubsequenceOfAny ==
    ASSUME NEW t
    PROVE  IsSubsequence(<<>>, t)
  <1> DEFINE at == [i \in 1..0 |-> i]
  <1>0. 1..Len(<<>>) = {} /\ 1..0 = {}
    OBVIOUS
  <1>1. at \in [1..Len(<<>>) -> 1..Len(t)]
    BY <1>0
  <1> HIDE DEF at
  <1> QED
    BY <1>0, <1>1 DEF IsSubsequence

(* Both grow by the same text. *)
LEMMA SubsequenceGrows ==
    ASSUME NEW T, NEW s \in Seq(T), NEW t \in Seq(T), NEW x \in Seq(T), IsSubsequence(s, t)
    PROVE  IsSubsequence(s \o x, t \o x)
  <1> DEFINE a == Len(s)
             b == Len(t)
             n == Len(x)
             u == s \o x
             v == t \o x
  <1>1. /\ a \in Nat /\ b \in Nat /\ n \in Nat
        /\ Len(u) = a + n /\ Len(v) = b + n
        /\ \A i \in 1..(a + n) : u[i] = IF i <= a THEN s[i] ELSE x[i - a]
        /\ \A i \in 1..(b + n) : v[i] = IF i <= b THEN t[i] ELSE x[i - b]
    BY ConcatProperties
  <1>2. PICK at \in [1..a -> 1..b] :
            /\ \A i \in 1..a : s[i] = t[at[i]]
            /\ \A i, j \in 1..a : i < j => at[i] < at[j]
    BY DEF IsSubsequence
  <1> HIDE DEF a, b, n, u, v
  <1> DEFINE to == [i \in 1..(a + n) |-> IF i <= a THEN at[i] ELSE (i - a) + b]
  <1>3. ASSUME NEW i \in 1..(a + n)
        PROVE  to[i] \in 1..(b + n) /\ u[i] = v[to[i]]
    <2>1. CASE i <= a
      <3>0. i \in 1..a
        BY <1>1, <2>1
      <3>1. i \in 1..a /\ at[i] \in 1..b /\ to[i] = at[i]
        BY <1>2, <2>1, <3>0
      <3>2. at[i] \in 1..(b + n) /\ at[i] <= b
        BY <1>1, <3>1
      <3> QED
        BY <1>1, <1>2, <2>1, <3>1, <3>2
    <2>2. CASE ~(i <= a)
      <3>1. to[i] = (i - a) + b /\ (i - a) + b \in 1..(b + n) /\ ~((i - a) + b <= b)
            /\ ((i - a) + b) - b = i - a
        BY <1>1, <2>2
      <3> QED
        BY <1>1, <2>2, <3>1
    <2> QED
      BY <2>1, <2>2
  <1>4. ASSUME NEW i \in 1..(a + n), NEW j \in 1..(a + n), i < j
        PROVE  to[i] < to[j]
    <2>1. CASE j <= a
      <3>1. i \in 1..a /\ j \in 1..a /\ i <= a
        BY <1>1, <1>4, <2>1
      <3> QED
        BY <1>2, <1>4, <2>1, <3>1
    <2>2. CASE i <= a /\ ~(j <= a)
      <3>1. i \in 1..a /\ at[i] \in 1..b
        BY <1>1, <1>2, <2>2
      <3> QED
        BY <1>1, <2>2, <3>1
    <2>3. CASE ~(i <= a)
      BY <1>1, <1>4, <2>3
    <2> QED
      BY <2>1, <2>2, <2>3
  <1>5. to \in [1..(a + n) -> 1..(b + n)]
    BY <1>3
  <1> HIDE DEF to
  <1>6. IsSubsequence(u, v)
    BY <1>1, <1>3, <1>4, <1>5 DEF IsSubsequence
  <1> QED
    BY <1>6 DEF u, v

(* The beginning and the rest of a subsequence are subsequences. *)
LEMMA SubsequenceParts ==
    ASSUME NEW T, NEW x \in Seq(T), NEW s \in Seq(T), NEW t \in Seq(T), IsSubsequence(x \o s, t)
    PROVE  IsSubsequence(x, t) /\ IsSubsequence(s, t)
  <1> DEFINE a == Len(x)
             n == Len(s)
             u == x \o s
             b == Len(t)
  <1>1. /\ a \in Nat /\ b \in Nat /\ n \in Nat /\ Len(u) = a + n
        /\ \A i \in 1..(a + n) : u[i] = IF i <= a THEN x[i] ELSE s[i - a]
    BY ConcatProperties
  <1> HIDE DEF u
  <1>2. PICK at \in [1..(a + n) -> 1..b] :
            /\ \A i \in 1..(a + n) : u[i] = t[at[i]]
            /\ \A i, j \in 1..(a + n) : i < j => at[i] < at[j]
    BY <1>1 DEF IsSubsequence, u
  <1> HIDE DEF a, b, n
  <1>3. IsSubsequence(x, t)
    <2> DEFINE to == [i \in 1..a |-> at[i]]
    <2>1. \A i \in 1..a : i \in 1..(a + n) /\ i <= a /\ to[i] = at[i]
      BY <1>1
    <2>2. /\ to \in [1..a -> 1..b]
          /\ \A i \in 1..a : x[i] = t[to[i]]
          /\ \A i, j \in 1..a : i < j => to[i] < to[j]
      BY <1>1, <1>2, <2>1
    <2> HIDE DEF to
    <2> QED
      BY <2>2 DEF IsSubsequence, a, b
  <1>4. IsSubsequence(s, t)
    <2> DEFINE to == [i \in 1..n |-> at[a + i]]
    <2>1. \A i \in 1..n : /\ a + i \in 1..(a + n) /\ ~(a + i <= a) /\ (a + i) - a = i
                          /\ to[i] = at[a + i]
      BY <1>1
    <2>2. \A i, j \in 1..n : i < j => a + i < a + j
      BY <1>1
    <2>3. \A i \in 1..n : s[i] = t[to[i]]
      BY <1>1, <1>2, <2>1, SMTT(30)
    <2>4. \A i, j \in 1..n : i < j => to[i] < to[j]
      BY <1>2, <2>1, <2>2
    <2>5. to \in [1..n -> 1..b]
      BY <1>2, <2>1
    <2> HIDE DEF to
    <2> QED
      BY <2>3, <2>4, <2>5 DEF IsSubsequence, n, b
  <1> QED
    BY <1>3, <1>4

(* A piece of a piece, wherever it begins. *)
LEMMA PieceWithin ==
    ASSUME NEW T, NEW s \in Seq(T), NEW n \in 0..Len(s), NEW p \in 0..n,
           NEW k \in 0..(n - p), NEW i \in 0..k
    PROVE  /\ SubSeq(s, p + 1, n) \in Seq(T) /\ Len(SubSeq(s, p + 1, n)) = n - p
           /\ SubSeq(SubSeq(s, p + 1, n), i + 1, k) = SubSeq(s, (p + i) + 1, p + k)
  <1> DEFINE u == SubSeq(s, p + 1, n)
  <1>0. Len(s) \in Nat
    OBVIOUS
  <1>1. u \in Seq(T) /\ Len(u) = n - p /\ \A j \in 1..(n - p) : u[j] = s[p + j]
    <2>1. CASE p = n
      <3>1. u = <<>>
        BY <1>0, <2>1
      <3> QED
        BY <2>1, <3>1, EmptySeq
    <2>2. CASE p # n
      BY <1>0, <2>2, SubSeqProperties
    <2> QED
      BY <2>1, <2>2
  <1> HIDE DEF u
  <1>2. CASE i = k
    <2>1. SubSeq(u, i + 1, k) = <<>> /\ SubSeq(s, (p + i) + 1, p + k) = <<>>
      BY <1>0, <1>1, <1>2
    <2> QED
      BY <1>1, <2>1 DEF u
  <1>3. CASE i # k
    <2>1. /\ SubSeq(u, i + 1, k) \in Seq(T) /\ Len(SubSeq(u, i + 1, k)) = k - i
          /\ \A j \in 1..(k - i) : SubSeq(u, i + 1, k)[j] = u[i + j] /\ i + j \in 1..(n - p)
      BY <1>0, <1>1, <1>3, SubSeqProperties
    <2>2. /\ SubSeq(s, (p + i) + 1, p + k) \in Seq(T) /\ Len(SubSeq(s, (p + i) + 1, p + k)) = k - i
          /\ \A j \in 1..(k - i) : SubSeq(s, (p + i) + 1, p + k)[j] = s[p + (i + j)]
      BY <1>0, <1>3, SubSeqProperties
    <2>3. SubSeq(u, i + 1, k) = SubSeq(s, (p + i) + 1, p + k)
      BY <1>1, <2>1, <2>2, SeqEqual
    <2> QED
      BY <1>1, <2>3 DEF u
  <1> QED
    BY <1>2, <1>3

LEMMA PiecesJoin ==
    ASSUME NEW T, NEW s \in Seq(T), NEW q \in 0..Len(s), NEW p \in 0..q
    PROVE  /\ SubSeq(s, 1, q) = SubSeq(s, 1, p) \o SubSeq(s, p + 1, q)
           /\ SubSeq(s, 1, p) \in Seq(T) /\ SubSeq(s, p + 1, q) \in Seq(T)
  <1> DEFINE a == SubSeq(s, 1, p)
             b == SubSeq(s, p + 1, q)
             u == SubSeq(s, 1, q)
  <1>0. Len(s) \in Nat
    OBVIOUS
  <1>1. a \in Seq(T) /\ Len(a) = p /\ \A j \in 1..p : a[j] = s[j]
    BY <1>0, SubSeqProperties
  <1>2. u \in Seq(T) /\ Len(u) = q /\ \A j \in 1..q : u[j] = s[j]
    BY <1>0, SubSeqProperties
  <1>3. b \in Seq(T) /\ Len(b) = q - p /\ \A j \in 1..(q - p) : b[j] = s[p + j]
    <2>1. CASE p = q
      <3>1. b = <<>>
        BY <1>0, <2>1
      <3> QED
        BY <2>1, <3>1, EmptySeq
    <2>2. CASE p # q
      BY <1>0, <2>2, SubSeqProperties
    <2> QED
      BY <2>1, <2>2
  <1> HIDE DEF a, b, u
  <1>4. /\ a \o b \in Seq(T) /\ Len(a \o b) = q
        /\ \A j \in 1..q : (a \o b)[j] = IF j <= p THEN a[j] ELSE b[j - p]
    <2>1. /\ a \o b \in Seq(T) /\ Len(a \o b) = Len(a) + Len(b)
          /\ \A j \in 1..(Len(a) + Len(b)) : (a \o b)[j] = IF j <= Len(a) THEN a[j] ELSE b[j - Len(a)]
      BY <1>1, <1>3, ConcatProperties
    <2>2. Len(a) = p /\ Len(b) = q - p /\ p + (q - p) = q
      BY <1>0, <1>1, <1>3
    <2> QED
      BY <2>1, <2>2
  <1>5. \A j \in 1..q : (a \o b)[j] = u[j]
    <2>1. ASSUME NEW j \in 1..q
          PROVE  (a \o b)[j] = u[j]
      <3>1. CASE j <= p
        BY <1>1, <1>2, <1>4, <3>1
      <3>2. CASE ~(j <= p)
        <4>1. j - p \in 1..(q - p) /\ p + (j - p) = j
          BY <1>0, <3>2
        <4> QED
          BY <1>2, <1>3, <1>4, <3>2, <4>1
      <3> QED
        BY <3>1, <3>2
    <2> QED
      BY <2>1
  <1>6. u = a \o b
    <2> DEFINE v == a \o b
    <2>1. v \in Seq(T) /\ Len(v) = q /\ \A j \in 1..q : v[j] = u[j]
      BY <1>4, <1>5
    <2> HIDE DEF v
    <2>2. u = v
      BY <1>2, <2>1, SeqEqual
    <2> QED
      BY <2>2 DEF v
  <1> QED
    BY <1>1, <1>3, <1>6 DEF a, b, u

(* A text that is left out something of goes on being one when the other   *)
(* text grows.                                                             *)
LEMMA SubsequenceOfLonger ==
    ASSUME NEW T, NEW s \in Seq(T), NEW t \in Seq(T), NEW x \in Seq(T), IsSubsequence(s, t)
    PROVE  IsSubsequence(s, t \o x)
  <1>1. IsSubsequence(s \o x, t \o x)
    BY SubsequenceGrows
  <1> DEFINE v == t \o x
  <1>2. v \in Seq(T)
    BY ConcatProperties
  <1>3. IsSubsequence(s \o x, v)
    BY <1>1
  <1> HIDE DEF v
  <1>4. IsSubsequence(s, v)
    BY <1>2, <1>3, SubsequenceParts
  <1> QED
    BY <1>4 DEF v

LEMMA SubsequenceOfEmpty ==
    ASSUME NEW T, NEW s \in Seq(T), IsSubsequence(s, <<>>)
    PROVE  s = <<>>
  <1>1. PICK at \in [1..Len(s) -> 1..Len(<<>>)] : TRUE
    BY DEF IsSubsequence
  <1>2. 1..Len(<<>>) = {} /\ Len(s) \in Nat
    OBVIOUS
  <1>3. Len(s) = 0
    <2>1. ASSUME Len(s) # 0
          PROVE  FALSE
      <3>1. 1 \in 1..Len(s)
        BY <1>2, <2>1
      <3>2. at[1] \in 1..Len(<<>>)
        BY <1>1, <3>1
      <3> QED
        BY <1>2, <3>2
    <2> QED
      BY <2>1
  <1> QED
    BY <1>2, <1>3
=============================================================================
