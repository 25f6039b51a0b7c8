------------------------------ MODULE CdrProofs ------------------------------
(***************************************************************************)
(* What the operations of the encoder keep: the buffer has room for what   *)
(* was written, and what was written before an operation is not disturbed. *)
(* And what the operations of the decoder return: from where an encoder    *)
(* put a number, a text or a sequence, just that.                          *)
(***************************************************************************)
EXTENDS Iors, TLAPS

\* The folds of the encoder.
ByNumber == INSTANCE FoldFacts WITH Op <- LAMBDA e, v, w : PutNumber(e, v)
ByElement == INSTANCE FoldFacts WITH Op <- LAMBDA all, v, w : all \o InOrder(v, w)
ByField == INSTANCE FoldFacts WITH Op <- LAMBDA e, f, w : PutField(e, f)
ByComponent == INSTANCE FoldFacts WITH Op <- LAMBDA e, c, w : PutBlob(PutUlong(e, c.id), c.octets)
ByProfile == INSTANCE FoldFacts WITH Op <- LAMBDA e, p, r : PutProfile(e, p, r)
ByOctet == INSTANCE FoldFacts WITH Op <- LAMBDA n, o, w : n * 256 + o
ByRead == INSTANCE FoldFacts WITH Op <- LAMBDA d, i, w : IF d.ok THEN GetNumber(d, w) ELSE d
ByType == INSTANCE FoldFacts WITH Op <- LAMBDA d, t, w : GetField(d, t)
BySeptets == INSTANCE FoldFacts WITH Op <- LAMBDA e, n, w : PutAsn1Number(e, n)

StackEntry == {n \in Nat : n >= 4 /\ n % 4 = 0}

\* The states of an encoder that has room for what was written.
Encoders ==
    {e \in [offset : Nat, bytes : Seq(Octet), sizeStack : Seq(StackEntry), little : BOOLEAN] :
        e.offset <= Len(e.bytes) /\ Len(e.bytes) > 0}

\* The encoder e after it went on to an offset not below from: what it had
\* written is still there.
Beyond(e, from, stack) ==
    {d \in Encoders :
        /\ d.offset >= from
        /\ d.sizeStack = stack
        /\ d.little = e.little
        /\ Len(d.bytes) >= Len(e.bytes)
        /\ \A i \in 1..e.offset : d.bytes[i] = e.bytes[i]}

Later(e) == Beyond(e, e.offset, e.sizeStack)
-----------------------------------------------------------------------------
(***************************************************************************)
(* Sequences: what Append, \o and SubSeq return.                           *)
(***************************************************************************)
LEMMA SubSeqProperties ==
    ASSUME NEW S, NEW s, NEW m \in Int, NEW n \in Int, \A i \in m..n : s[i] \in S
    PROVE  /\ SubSeq(s, m, n) \in Seq(S)
           /\ Len(SubSeq(s, m, n)) = IF m <= n THEN n - m + 1 ELSE 0
           /\ \A i \in 1..n - m + 1 : SubSeq(s, m, n)[i] = s[m + i - 1]
  OBVIOUS

LEMMA ConcatProperties ==
    ASSUME NEW S, NEW s \in Seq(S), NEW t \in Seq(S)
    PROVE  /\ s \o t \in Seq(S) /\ Len(s \o t) = Len(s) + Len(t)
           /\ \A i \in 1..Len(s) + Len(t) :
                 (s \o t)[i] = IF i <= Len(s) THEN s[i] ELSE t[i - Len(s)]
  OBVIOUS

LEMMA ConcatAssociative ==
    ASSUME NEW S, NEW s \in Seq(S), NEW t \in Seq(S), NEW u \in Seq(S)
    PROVE  (s \o t) \o u = s \o (t \o u)
  OBVIOUS

LEMMA ConcatEmptySeq ==
    ASSUME NEW S, NEW s \in Seq(S)
    PROVE  s \o <<>> = s /\ <<>> \o s = s
  OBVIOUS

LEMMA AppendIsConcat ==
    ASSUME NEW S, NEW s \in Seq(S), NEW x \in S
    PROVE  Append(s, x) = s \o <<x>>
  OBVIOUS

-----------------------------------------------------------------------------
(***************************************************************************)
(* Alignment and growth.                                                   *)
(***************************************************************************)
AlignWidth == {1, 2, 4, 8}

LEMMA AlignedUp ==
    ASSUME NEW offset \in Nat, NEW n \in AlignWidth
    PROVE  /\ Aligned(offset, n) \in Nat
           /\ Aligned(offset, n) >= offset
           /\ Aligned(offset, n) < offset + n
           /\ Aligned(offset, n) % n = 0
  <1>1. CASE n = 1
    BY <1>1 DEF Aligned
  <1>2. CASE n = 2
    BY <1>2 DEF Aligned
  <1>3. CASE n = 4
    BY <1>3 DEF Aligned
  <1>4. CASE n = 8
    BY <1>4 DEF Aligned
  <1>. QED
    BY <1>1, <1>2, <1>3, <1>4 DEF AlignWidth

\* What the loop of doublings computes.
IsGrown(grown, need) ==
    grown = [n \in Nat \ {0} |-> IF n > need THEN n ELSE grown[2 * n]]

IsGrownAbove(grown, bottom, need) ==
    grown = [n \in {m \in Nat \ {0} : m + bottom > need} |->
                IF n > need THEN n ELSE grown[2 * n]]

LEMMA GrownExists ==
    ASSUME NEW need \in Nat
    PROVE  \E grown : IsGrown(grown, need)
  <1> DEFINE Dom(k) == {m \in Nat \ {0} : m + k > need}
             T == {k \in Nat : \E g : IsGrownAbove(g, k, need)}
  <1>1. 0 \in T
    <2> DEFINE g == [n \in Dom(0) |-> n]
    <2>1. \A n \in Dom(0) : n > need /\ g[n] = n
      OBVIOUS
    <2>2. g = [n \in Dom(0) |-> IF n > need THEN n ELSE g[2 * n]]
      BY <2>1
    <2> HIDE DEF g
    <2>3. IsGrownAbove(g, 0, need)
      BY <2>2 DEF IsGrownAbove
    <2>. QED
      BY <2>3
  <1>2. ASSUME NEW k \in Nat, k \in T
        PROVE  k + 1 \in T
    <2>1. PICK g : IsGrownAbove(g, k, need)
      BY <1>2
    <2> DEFINE h == [n \in Dom(k + 1) |-> IF n > need THEN n ELSE g[2 * n]]
    <2>2. \A n \in Dom(k + 1) : n <= need => 2 * n \in Dom(k)
      OBVIOUS
    <2>3. \A n \in Dom(k) : n \in Dom(k + 1)
      OBVIOUS
    <2>4. g = [n \in Dom(k) |-> IF n > need THEN n ELSE g[2 * n]]
      BY <2>1 DEF IsGrownAbove
    <2>5. \A n \in Dom(k) : g[n] = IF n > need THEN n ELSE g[2 * n]
      <3> HIDE DEF Dom
      <3>. QED
        BY <2>4
    <2>6. \A n \in Dom(k) : h[n] = g[n]
      <3> HIDE DEF Dom
      <3>. QED
        BY <2>3, <2>5
    <2>7. \A n \in Dom(k + 1) : ~(n > need) => h[2 * n] = g[2 * n]
      <3>1. \A n \in Dom(k + 1) : n \in Nat
        OBVIOUS
      <3> HIDE DEF Dom, h
      <3>. QED
        BY <2>2, <2>6, <3>1
    <2>8. h = [n \in Dom(k + 1) |-> IF n > need THEN n ELSE h[2 * n]]
      <3> HIDE DEF Dom
      <3>. QED
        BY <2>7
    <2> HIDE DEF h
    <2>9. IsGrownAbove(h, k + 1, need)
      BY <2>8 DEF IsGrownAbove
    <2>. QED
      BY <2>9
  <1>3. need \in T
    <2> HIDE DEF T
    <2>. QED
      BY <1>1, <1>2, ByNumber!Induct
  <1>4. PICK g : IsGrownAbove(g, need, need)
    BY <1>3
  <1>5. Dom(need) = Nat \ {0}
    OBVIOUS
  <1>. QED
    BY <1>4, <1>5, Zenon DEF IsGrown, IsGrownAbove

LEMMA DoubledIsEnough ==
    ASSUME NEW size \in Nat \ {0}, NEW need \in Nat
    PROVE  Doubled(size, need) \in Nat /\ Doubled(size, need) > need /\ Doubled(size, need) >= size
  <1> DEFINE grown == CHOOSE g : IsGrown(g, need)
  <1>1. IsGrown(grown, need)
    BY GrownExists
  <1>2. Doubled(size, need) = grown[size]
    BY DEF Doubled, IsGrown
  <1> HIDE DEF grown
  <1>3. \A n \in Nat \ {0} : grown[n] = IF n > need THEN n ELSE grown[2 * n]
    BY <1>1 DEF IsGrown
  <1> DEFINE T == {k \in Nat : \A n \in Nat \ {0} : n + k > need =>
                      grown[n] \in Nat /\ grown[n] > need /\ grown[n] >= n}
  <1>4. 0 \in T
    BY <1>3
  <1>5. ASSUME NEW k \in Nat, k \in T
        PROVE  k + 1 \in T
    <2>1. ASSUME NEW n \in Nat \ {0}, n + (k + 1) > need
          PROVE  grown[n] \in Nat /\ grown[n] > need /\ grown[n] >= n
      <3>1. CASE n > need
        BY <1>3, <3>1
      <3>2. CASE ~(n > need)
        <4>1. 2 * n \in Nat \ {0} /\ 2 * n + k > need
          BY <2>1
        <4>2. grown[2 * n] \in Nat /\ grown[2 * n] > need /\ grown[2 * n] >= 2 * n
          BY <1>5, <4>1
        <4>. QED
          BY <1>3, <3>2, <4>2
      <3>. QED
        BY <3>1, <3>2
    <2>. QED
      BY <2>1
  <1>6. need \in T
    <2> HIDE DEF T
    <2>. QED
      BY <1>4, <1>5, ByNumber!Induct
  <1>. QED
    BY <1>2, <1>6

LEMMA EnlargedKeeps ==
    ASSUME NEW bytes \in Seq(Octet), NEW size \in Nat, size >= Len(bytes)
    PROVE  /\ Enlarged(bytes, size) \in Seq(Octet)
           /\ Len(Enlarged(bytes, size)) = size
           /\ \A i \in 1..Len(bytes) : Enlarged(bytes, size)[i] = bytes[i]
  <1> DEFINE zeros == [i \in 1..size - Len(bytes) |-> 0]
  <1>1. size - Len(bytes) \in Nat
    OBVIOUS
  <1>2. zeros \in Seq(Octet) /\ Len(zeros) = size - Len(bytes)
    BY <1>1 DEF Octet
  <1>3. Enlarged(bytes, size) = bytes \o zeros
    BY DEF Enlarged
  <1> HIDE DEF zeros
  <1>. QED
    BY <1>2, <1>3
-----------------------------------------------------------------------------
(***************************************************************************)
(* The primitive operations.                                               *)
(***************************************************************************)
LEMMA LaterIsBeyond ==
    ASSUME NEW e \in Encoders, NEW d \in Later(e), NEW from, NEW stack,
           NEW c \in Beyond(d, from, stack), from >= d.offset, from \in Nat
    PROVE  c \in Beyond(e, from, stack)
  <1>1. 1..e.offset \subseteq 1..d.offset
    BY DEF Encoders, Beyond, Later
  <1>2. \A i \in 1..e.offset : c.bytes[i] = e.bytes[i]
    BY <1>1 DEF Beyond, Later
  <1>. QED
    BY <1>2 DEF Beyond, Later, Encoders

LEMMA LaterIsLater ==
    ASSUME NEW e \in Encoders, NEW d \in Later(e), NEW c \in Later(d)
    PROVE  c \in Later(e)
  <1>1. 1..e.offset \subseteq 1..d.offset
    BY DEF Encoders, Beyond, Later
  <1>2. \A i \in 1..e.offset : c.bytes[i] = e.bytes[i]
    BY <1>1 DEF Beyond, Later
  <1>. QED
    BY <1>2 DEF Beyond, Later, Encoders

LEMMA NowIsLater ==
    ASSUME NEW e \in Encoders
    PROVE  e \in Later(e)
  BY DEF Encoders, Beyond, Later

LEMMA LaterIsEncoder ==
    ASSUME NEW e \in Encoders, NEW d \in Later(e)
    PROVE  d \in Encoders
  BY DEF Encoders, Beyond, Later

\* An operation has reserved n octets when it has made sure that as many fit.
Reserved(e, n) ==
    {d \in Later(e) : /\ d.offset + n <= Len(d.bytes)
                      /\ \A i \in 1..Len(e.bytes) : d.bytes[i] = e.bytes[i]}

LEMMA VaryingReserves ==
    ASSUME NEW e \in Encoders, NEW align \in AlignWidth, NEW n \in Nat
    PROVE  /\ ReserveVarying(e, align, n) \in Reserved(e, n)
           /\ ReserveVarying(e, align, n).offset = Aligned(e.offset, align)
  <1> DEFINE at == Aligned(e.offset, align)
             size == Doubled(Len(e.bytes), at + n)
             d == ReserveVarying(e, align, n)
  <1>1. /\ e.offset \in Nat /\ e.bytes \in Seq(Octet) /\ Len(e.bytes) \in Nat \ {0}
        /\ e.offset <= Len(e.bytes)
    BY DEF Encoders
  <1>2. at \in Nat /\ at >= e.offset
    BY <1>1, AlignedUp
  <1>3. size \in Nat /\ size > at + n /\ size >= Len(e.bytes)
    <2> HIDE DEF at
    <2>1. at + n \in Nat
      BY <1>2
    <2>. QED
      BY <1>1, <2>1, DoubledIsEnough, Zenon
  <1>4. d = [e EXCEPT !.offset = at, !.bytes = Enlarged(e.bytes, size)]
    BY DEF ReserveVarying
  <1> HIDE DEF at, size, d
  <1>5. /\ Enlarged(e.bytes, size) \in Seq(Octet)
        /\ Len(Enlarged(e.bytes, size)) = size
        /\ \A i \in 1..Len(e.bytes) : Enlarged(e.bytes, size)[i] = e.bytes[i]
    BY <1>1, <1>3, EnlargedKeeps
  <1>6. /\ d.offset = at /\ d.bytes = Enlarged(e.bytes, size)
        /\ d.sizeStack = e.sizeStack /\ d.little = e.little
        /\ d \in [offset : Nat, bytes : Seq(Octet), sizeStack : Seq(StackEntry), little : BOOLEAN]
    BY <1>1, <1>2, <1>4, <1>5, Zenon DEF Encoders
  <1>7. d \in Encoders
    BY <1>1, <1>2, <1>3, <1>5, <1>6 DEF Encoders
  <1>8. \A i \in 1..e.offset : d.bytes[i] = e.bytes[i]
    BY <1>1, <1>5, <1>6
  <1>9. d \in Later(e) /\ d.offset + n <= Len(d.bytes)
    BY <1>1, <1>2, <1>3, <1>5, <1>6, <1>7, <1>8 DEF Later, Beyond
  <1>. QED
    BY <1>5, <1>6, <1>9 DEF Reserved, d, at

LEMMA OneReserves ==
    ASSUME NEW e \in Encoders
    PROVE  ReserveOne(e) \in Reserved(e, 1) /\ ReserveOne(e).offset = e.offset
  <1> DEFINE d == ReserveOne(e)
  <1>1. /\ e.offset \in Nat /\ e.bytes \in Seq(Octet) /\ Len(e.bytes) \in Nat \ {0}
        /\ e.offset <= Len(e.bytes)
    BY DEF Encoders
  <1>2. CASE Len(e.bytes) <= e.offset + 1
    <2>1. d = [e EXCEPT !.bytes = Enlarged(e.bytes, 2 * Len(e.bytes))]
      BY <1>2 DEF ReserveOne, Encoders
    <2>2. /\ Enlarged(e.bytes, 2 * Len(e.bytes)) \in Seq(Octet)
          /\ Len(Enlarged(e.bytes, 2 * Len(e.bytes))) = 2 * Len(e.bytes)
          /\ \A i \in 1..Len(e.bytes) : Enlarged(e.bytes, 2 * Len(e.bytes))[i] = e.bytes[i]
      BY <1>1, EnlargedKeeps
    <2> HIDE DEF d
    <2>3. /\ d.offset = e.offset /\ d.bytes = Enlarged(e.bytes, 2 * Len(e.bytes))
          /\ d.sizeStack = e.sizeStack /\ d.little = e.little
          /\ d \in [offset : Nat, bytes : Seq(Octet), sizeStack : Seq(StackEntry), little : BOOLEAN]
      BY <2>1, <2>2 DEF Encoders
    <2>4. d \in Encoders
      BY <1>1, <2>2, <2>3 DEF Encoders
    <2>5. \A i \in 1..e.offset : d.bytes[i] = e.bytes[i]
      BY <1>1, <2>2, <2>3
    <2>. QED
      BY <1>1, <2>2, <2>3, <2>4, <2>5 DEF Later, Beyond, Reserved, d
  <1>3. CASE ~(Len(e.bytes) <= e.offset + 1)
    <2>1. d = e
      BY <1>3 DEF ReserveOne, Encoders
    <2>. QED
      BY <1>1, <1>3, <2>1, NowIsLater DEF Reserved
  <1>. QED
    BY <1>2, <1>3

LEMMA PutKeeps ==
    ASSUME NEW e \in Encoders, NEW octets \in Seq(Octet), e.offset + Len(octets) <= Len(e.bytes)
    PROVE  /\ Put(e, octets) \in Later(e)
           /\ Put(e, octets).offset = e.offset + Len(octets)
           /\ Len(Put(e, octets).bytes) = Len(e.bytes)
           /\ \A i \in 1..Len(e.bytes) :
                 Put(e, octets).bytes[i] = IF i \in e.offset + 1..e.offset + Len(octets)
                                           THEN octets[i - e.offset] ELSE e.bytes[i]
  <1> DEFINE d == Put(e, octets)
             bytes == [i \in DOMAIN e.bytes |-> IF i \in e.offset + 1..e.offset + Len(octets)
                                                THEN octets[i - e.offset] ELSE e.bytes[i]]
  <1>1. /\ e.offset \in Nat /\ e.bytes \in Seq(Octet) /\ Len(e.bytes) \in Nat \ {0}
        /\ DOMAIN e.bytes = 1..Len(e.bytes) /\ Len(octets) \in Nat
    BY DEF Encoders
  <1>2. \A i \in 1..Len(e.bytes) :
            (IF i \in e.offset + 1..e.offset + Len(octets)
             THEN octets[i - e.offset] ELSE e.bytes[i]) \in Octet
    BY <1>1
  <1>3. bytes \in Seq(Octet) /\ Len(bytes) = Len(e.bytes)
    <2>1. bytes = [i \in 1..Len(e.bytes) |-> IF i \in e.offset + 1..e.offset + Len(octets)
                                                THEN octets[i - e.offset] ELSE e.bytes[i]]
      BY <1>1
    <2>. QED
      BY <1>1, <1>2, <2>1
  <1>4. \A i \in 1..Len(e.bytes) :
            bytes[i] = IF i \in e.offset + 1..e.offset + Len(octets)
                       THEN octets[i - e.offset] ELSE e.bytes[i]
    BY <1>1
  <1>5. d = [e EXCEPT !.bytes = bytes, !.offset = e.offset + Len(octets)]
    BY DEF Put, Encoders
  <1> HIDE DEF d, bytes
  <1>6. /\ d.offset = e.offset + Len(octets) /\ d.bytes = bytes
        /\ d.sizeStack = e.sizeStack /\ d.little = e.little
        /\ d \in [offset : Nat, bytes : Seq(Octet), sizeStack : Seq(StackEntry), little : BOOLEAN]
    <2>1. e \in [offset : Nat, bytes : Seq(Octet), sizeStack : Seq(StackEntry), little : BOOLEAN]
      BY DEF Encoders
    <2>2. e.offset + Len(octets) \in Nat
      BY <1>1
    <2>. QED
      BY <1>3, <1>5, <2>1, <2>2, Zenon
  <1>7. d \in Encoders
    BY <1>1, <1>3, <1>6 DEF Encoders
  <1>8. \A i \in 1..e.offset : d.bytes[i] = e.bytes[i]
    BY <1>1, <1>4, <1>6, e.offset <= Len(e.bytes) DEF Encoders
  <1>. QED
    BY <1>1, <1>3, <1>4, <1>6, <1>7, <1>8 DEF Later, Beyond, d
-----------------------------------------------------------------------------
(***************************************************************************)
(* Numbers, texts and sequences.                                           *)
(***************************************************************************)
AnyWord == {p \in Seq(Octet) : Len(p) \in AlignWidth}

LEMMA InOrderKeeps ==
    ASSUME NEW p \in Seq(Octet), NEW little \in BOOLEAN
    PROVE  InOrder(p, little) \in Seq(Octet) /\ Len(InOrder(p, little)) = Len(p)
  <1>1. Reverse(p) \in Seq(Octet) /\ Len(Reverse(p)) = Len(p)
    <2>1. Len(p) \in Nat /\ \A i \in 1..Len(p) : (Len(p) - i) + 1 \in 1..Len(p)
      OBVIOUS
    <2>2. \A i \in 1..Len(p) : p[(Len(p) - i) + 1] \in Octet
      BY <2>1
    <2>. QED
      BY <2>1, <2>2 DEF Reverse
  <1>. QED
    BY <1>1 DEF InOrder

LEMMA PatternIsWord ==
    ASSUME NEW n \in Int, NEW width \in {1, 2, 4}
    PROVE  Pattern(n, width) \in AnyWord /\ Len(Pattern(n, width)) = width
  <1>1. \A w \in {16777216, 65536, 256, 1} : (n \div w) % 256 \in Octet
    BY SMTT(30) DEF Octet
  <1>2. \A i \in 1..width : Weight[4 - width + i] \in {16777216, 65536, 256, 1}
    BY SMTT(30) DEF Weight
  <1>3. \A i \in 1..width : (n \div Weight[4 - width + i]) % 256 \in Octet
    BY <1>1, <1>2
  <1>4. Pattern(n, width) \in Seq(Octet) /\ Len(Pattern(n, width)) = width
    BY <1>3 DEF Pattern
  <1>. QED
    BY <1>4, Zenon DEF AnyWord, AlignWidth

LEMMA OctetKeeps ==
    ASSUME NEW e \in Encoders, NEW o \in Octet
    PROVE  /\ PutOctet(e, o) \in Later(e)
           /\ PutOctet(e, o).offset = e.offset + 1
           /\ PutOctet(e, o).bytes[e.offset + 1] = o
  <1> DEFINE d == ReserveOne(e)
  <1>1. d \in Reserved(e, 1) /\ d.offset = e.offset
    BY OneReserves
  <1>2. d \in Later(e) /\ d \in Encoders /\ d.offset + 1 <= Len(d.bytes)
    BY <1>1, LaterIsEncoder DEF Reserved
  <1>3. <<o>> \in Seq(Octet) /\ Len(<<o>>) = 1 /\ <<o>>[1] = o
    OBVIOUS
  <1>4. PutOctet(e, o) = Put(d, <<o>>)
    BY DEF PutOctet
  <1>5. e.offset \in Nat
    BY DEF Encoders
  <1> HIDE DEF d
  <1>6. /\ Put(d, <<o>>) \in Later(d) /\ Put(d, <<o>>).offset = d.offset + 1
        /\ \A i \in 1..Len(d.bytes) :
              Put(d, <<o>>).bytes[i] = IF i \in d.offset + 1..d.offset + 1
                                       THEN <<o>>[i - d.offset] ELSE d.bytes[i]
    BY <1>2, <1>3, PutKeeps, Zenon
  <1>7. Put(d, <<o>>).bytes[e.offset + 1] = o
    <2> DEFINE j == e.offset + 1
    <2>1. j \in 1..Len(d.bytes) /\ j \in d.offset + 1..d.offset + 1 /\ j - d.offset = 1
      BY <1>1, <1>2, <1>5 DEF Encoders
    <2> HIDE DEF j
    <2>2. Put(d, <<o>>).bytes[j] = <<o>>[j - d.offset]
      BY <1>6, <2>1
    <2>. QED
      BY <1>3, <2>1, <2>2 DEF j
  <1>. QED
    BY <1>1, <1>2, <1>4, <1>6, <1>7, LaterIsLater

LEMMA NumberKeeps ==
    ASSUME NEW e \in Encoders, NEW p \in AnyWord
    PROVE  /\ PutNumber(e, p) \in Later(e)
           /\ PutNumber(e, p).offset = Aligned(e.offset, Len(p)) + Len(p)
           /\ \A i \in 1..Len(p) : PutNumber(e, p).bytes[Aligned(e.offset, Len(p)) + i]
                                       = InOrder(p, e.little)[i]
           /\ \A i \in 1..Len(e.bytes) :
                 i \notin Aligned(e.offset, Len(p)) + 1..Aligned(e.offset, Len(p)) + Len(p)
                 => PutNumber(e, p).bytes[i] = e.bytes[i]
  <1> DEFINE d == Reserve(e, Len(p))
             q == InOrder(p, e.little)
             at == Aligned(e.offset, Len(p))
  <1>1. p \in Seq(Octet) /\ Len(p) \in AlignWidth /\ Len(p) \in Nat /\ e.little \in BOOLEAN
        /\ e.offset \in Nat
    BY DEF AnyWord, Encoders, AlignWidth
  <1>2. d \in Reserved(e, Len(p)) /\ d.offset = at
    BY <1>1, VaryingReserves DEF Reserve
  <1>3. d \in Later(e) /\ d \in Encoders /\ d.offset + Len(p) <= Len(d.bytes)
    BY <1>2, LaterIsEncoder DEF Reserved
  <1>4. q \in Seq(Octet) /\ Len(q) = Len(p)
    BY <1>1, InOrderKeeps
  <1>5. PutNumber(e, p) = Put(d, q)
    BY DEF PutNumber
  <1>6. at \in Nat
    BY <1>1, AlignedUp, Zenon
  <1> HIDE DEF d, q, at
  <1>7. /\ Put(d, q) \in Later(d) /\ Put(d, q).offset = d.offset + Len(q)
        /\ \A i \in 1..Len(d.bytes) :
              Put(d, q).bytes[i] = IF i \in d.offset + 1..d.offset + Len(q)
                                   THEN q[i - d.offset] ELSE d.bytes[i]
    BY <1>3, <1>4, PutKeeps
  <1>8. ASSUME NEW i \in 1..Len(p)
        PROVE  Put(d, q).bytes[at + i] = q[i]
    <2> DEFINE j == at + i
    <2>1. j \in 1..Len(d.bytes) /\ j \in d.offset + 1..d.offset + Len(q)
      BY <1>1, <1>2, <1>3, <1>4, <1>6 DEF Encoders
    <2>2. j - d.offset = i
      BY <1>2, <1>6
    <2> HIDE DEF j
    <2>3. Put(d, q).bytes[j] = q[j - d.offset]
      BY <1>7, <2>1
    <2>. QED
      BY <2>2, <2>3 DEF j
  <1>9. Put(d, q) \in Later(e)
    BY <1>3, <1>7, LaterIsLater
  <1>10. ASSUME NEW i \in 1..Len(e.bytes), i \notin at + 1..at + Len(p)
         PROVE  Put(d, q).bytes[i] = e.bytes[i]
    <2>1. i \in 1..Len(d.bytes)
      BY <1>3 DEF Later, Beyond, Encoders
    <2>2. i \notin d.offset + 1..d.offset + Len(q)
      BY <1>2, <1>4, <1>10
    <2>3. Put(d, q).bytes[i] = d.bytes[i]
      BY <1>7, <2>1, <2>2
    <2>. QED
      BY <1>2, <2>3 DEF Reserved
  <1>. QED
    BY <1>2, <1>4, <1>5, <1>7, <1>8, <1>9, <1>10 DEF at, q

LEMMA UlongKeeps ==
    ASSUME NEW e \in Encoders, NEW n \in Int
    PROVE  /\ PutUlong(e, n) \in Later(e) /\ PutUlong(e, n) \in Encoders
           /\ PutUlong(e, n).offset = Aligned(e.offset, 4) + 4
           /\ \A i \in 1..4 : PutUlong(e, n).bytes[Aligned(e.offset, 4) + i]
                                  = InOrder(Pattern(n, 4), e.little)[i]
           /\ \A i \in 1..Len(e.bytes) :
                 i \notin Aligned(e.offset, 4) + 1..Aligned(e.offset, 4) + 4
                 => PutUlong(e, n).bytes[i] = e.bytes[i]
  <1>1. Pattern(n, 4) \in AnyWord /\ Len(Pattern(n, 4)) = 4
    BY PatternIsWord
  <1> DEFINE p == Pattern(n, 4)
             put == PutNumber(e, p)
  <1>2. p \in AnyWord /\ Len(p) = 4
    BY <1>1
  <1>3. PutUlong(e, n) = put
    BY DEF PutUlong
  <1> HIDE DEF p
  <1>4. /\ put \in Later(e)
        /\ put.offset = Aligned(e.offset, Len(p)) + Len(p)
        /\ \A i \in 1..Len(p) : put.bytes[Aligned(e.offset, Len(p)) + i] = InOrder(p, e.little)[i]
        /\ \A i \in 1..Len(e.bytes) :
              i \notin Aligned(e.offset, Len(p)) + 1..Aligned(e.offset, Len(p)) + Len(p)
              => put.bytes[i] = e.bytes[i]
    BY <1>2, NumberKeeps, Zenon
  <1> HIDE DEF put
  <1>5. put \in Encoders
    BY <1>4, LaterIsEncoder
  <1>. QED
    BY <1>2, <1>3, <1>4, <1>5, Zenon DEF p

LEMMA UshortKeeps ==
    ASSUME NEW e \in Encoders, NEW n \in Int
    PROVE  PutUshort(e, n) \in Later(e)
  <1>1. Pattern(n, 2) \in AnyWord /\ Len(Pattern(n, 2)) = 2
    BY PatternIsWord
  <1>. QED
    BY <1>1, NumberKeeps DEF PutUshort

\* Octets behind a number that tells how many there are, for which there was
\* room when the number was written.
LEMMA CountedKeeps ==
    ASSUME NEW e \in Encoders, NEW n \in Int, NEW octets \in Seq(Octet)
    PROVE  LET put == Put(PutUlong(ReserveVarying(e, 4, 4 + Len(octets)), n), octets)
               at == Aligned(e.offset, 4)
           IN  /\ put \in Later(e)
               /\ put.offset = at + 4 + Len(octets)
               /\ \A i \in 1..4 : put.bytes[at + i] = InOrder(Pattern(n, 4), e.little)[i]
               /\ \A i \in 1..Len(octets) : put.bytes[at + 4 + i] = octets[i]
  <1> DEFINE at == Aligned(e.offset, 4)
             d == ReserveVarying(e, 4, 4 + Len(octets))
             c == PutUlong(d, n)
             put == Put(c, octets)
  <1>1. e.offset \in Nat /\ Len(octets) \in Nat /\ 4 + Len(octets) \in Nat /\ 4 \in AlignWidth
    BY DEF Encoders, AlignWidth
  <1>2. d \in Reserved(e, 4 + Len(octets)) /\ d.offset = at
    BY <1>1, VaryingReserves
  <1>3. d \in Later(e) /\ d \in Encoders /\ d.offset + 4 + Len(octets) <= Len(d.bytes)
        /\ d.little = e.little
    <2>1. d \in Later(e) /\ d \in Encoders
      BY <1>2, LaterIsEncoder DEF Reserved
    <2>2. d.little = e.little
      BY <2>1 DEF Later, Beyond
    <2> HIDE DEF d
    <2>. QED
      BY <1>1, <1>2, <2>1, <2>2 DEF Reserved, Encoders
  <1>4. at \in Nat /\ at % 4 = 0
    BY <1>1, AlignedUp, Zenon
  <1>5. Aligned(d.offset, 4) = at
    <2> HIDE DEF d, at
    <2>. QED
      BY <1>2, <1>4 DEF Aligned
  <1> HIDE DEF d, at
  <1>6. c \in Later(d) /\ c \in Encoders /\ c.offset = at + 4
        /\ \A i \in 1..4 : c.bytes[at + i] = InOrder(Pattern(n, 4), e.little)[i]
    <2>1. /\ c \in Later(d) /\ c \in Encoders /\ c.offset = Aligned(d.offset, 4) + 4
          /\ \A i \in 1..4 : c.bytes[Aligned(d.offset, 4) + i] = InOrder(Pattern(n, 4), d.little)[i]
      BY <1>3, UlongKeeps, Zenon
    <2> HIDE DEF c
    <2>. QED
      BY <1>3, <1>5, <2>1
  <1>7. c.offset + Len(octets) <= Len(c.bytes)
    <2>1. Len(c.bytes) >= Len(d.bytes)
      BY <1>6 DEF Later, Beyond
    <2> HIDE DEF c
    <2>2. Len(c.bytes) \in Nat /\ Len(d.bytes) \in Nat
      BY <1>3, <1>6, SMTT(30) DEF Encoders
    <2>. QED
      BY <1>1, <1>2, <1>3, <1>4, <1>6, <2>1, <2>2, SMTT(30)
  <1> HIDE DEF c
  <1>8. /\ put \in Later(c) /\ put.offset = c.offset + Len(octets)
        /\ \A i \in 1..Len(c.bytes) :
              put.bytes[i] = IF i \in c.offset + 1..c.offset + Len(octets)
                             THEN octets[i - c.offset] ELSE c.bytes[i]
    BY <1>6, <1>7, PutKeeps
  <1> HIDE DEF put
  <1>9. ASSUME NEW i \in 1..4
        PROVE  put.bytes[at + i] = InOrder(Pattern(n, 4), e.little)[i]
    <2>1. at + i \in 1..c.offset
      BY <1>4, <1>6
    <2>2. put.bytes[at + i] = c.bytes[at + i]
      BY <1>8, <2>1 DEF Later, Beyond
    <2>. QED
      BY <1>6, <2>2
  <1>10. ASSUME NEW i \in 1..Len(octets)
         PROVE  put.bytes[at + 4 + i] = octets[i]
    <2> DEFINE j == at + 4 + i
    <2>1. j \in 1..Len(c.bytes) /\ j \in c.offset + 1..c.offset + Len(octets)
          /\ j - c.offset = i
      BY <1>1, <1>4, <1>6, <1>7 DEF Encoders
    <2> HIDE DEF j
    <2>2. put.bytes[j] = octets[j - c.offset]
      BY <1>8, <2>1
    <2>. QED
      BY <2>1, <2>2 DEF j
  <1>11. put \in Later(e)
    BY <1>3, <1>6, <1>8, LaterIsLater
  <1>. QED
    BY <1>6, <1>8, <1>9, <1>10, <1>11 DEF put, c, d, at

LEMMA BlobKeeps ==
    ASSUME NEW e \in Encoders, NEW octets \in Seq(Octet)
    PROVE  LET at == Aligned(e.offset, 4)
           IN  /\ PutBlob(e, octets) \in Later(e)
               /\ PutBlob(e, octets).offset = at + 4 + Len(octets)
               /\ \A i \in 1..4 : PutBlob(e, octets).bytes[at + i]
                                      = InOrder(Pattern(Len(octets), 4), e.little)[i]
               /\ \A i \in 1..Len(octets) : PutBlob(e, octets).bytes[at + 4 + i] = octets[i]
  <1>1. Len(octets) \in Int
    OBVIOUS
  <1>. QED
    BY <1>1, CountedKeeps DEF PutBlob

LEMMA StringKeeps ==
    ASSUME NEW e \in Encoders, NEW octets \in Seq(Octet)
    PROVE  LET at == Aligned(e.offset, 4)
           IN  /\ PutString(e, octets) \in Later(e)
               /\ PutString(e, octets).offset = at + 4 + (Len(octets) + 1)
               /\ \A i \in 1..4 : PutString(e, octets).bytes[at + i]
                                      = InOrder(Pattern(Len(octets) + 1, 4), e.little)[i]
               /\ \A i \in 1..Len(octets) : PutString(e, octets).bytes[at + 4 + i] = octets[i]
  <1> DEFINE all == octets \o <<0>>
             n == Len(octets) + 1
             put == Put(PutUlong(ReserveVarying(e, 4, 4 + Len(all)), n), all)
             at == Aligned(e.offset, 4)
  <1>1. /\ all \in Seq(Octet) /\ Len(all) = n /\ Len(octets) \in Nat /\ n \in Int
        /\ \A i \in 1..Len(octets) : all[i] = octets[i] /\ i \in 1..n
    BY DEF Octet
  <1>2. 4 + Len(all) = 5 + Len(octets)
    BY <1>1
  <1>3. PutString(e, octets) = put
    BY <1>2 DEF PutString
  <1> HIDE DEF all, n
  <1>4. /\ put \in Later(e)
        /\ put.offset = at + 4 + Len(all)
        /\ \A i \in 1..4 : put.bytes[at + i] = InOrder(Pattern(n, 4), e.little)[i]
        /\ \A i \in 1..Len(all) : put.bytes[at + 4 + i] = all[i]
    BY <1>1, CountedKeeps
  <1> HIDE DEF put, at
  <1>. QED
    BY <1>1, <1>3, <1>4 DEF n, at

\* The loop of sequence(): what was put after each of the elements.
LEMMA SequenceIsFold ==
    ASSUME NEW e \in Encoders, NEW vs \in Seq(AnyWord)
    PROVE  \E f : /\ ByNumber!IsFold(f, PutUlong(e, Len(vs)), vs, 0)
                  /\ PutSequence(e, vs) = f[Len(vs)]
  <1> DEFINE base == PutUlong(e, Len(vs))
             it == CHOOSE h : ByNumber!IsIter(h, base, vs, 0)
  <1>1. ByNumber!IsIter(it, base, vs, 0)
    BY ByNumber!IterExists, Zenon
  <1>2. PutSequence(e, vs) = it[DOMAIN vs]
    BY DEF PutSequence, ByNumber!IsIter, FoldLeft, MapThenFoldSet, ByNumber!Greatest, Max
  <1> HIDE DEF it, base
  <1>. QED
    BY <1>1, <1>2, ByNumber!IterFolds DEF base

LEMMA SequenceKeeps ==
    ASSUME NEW e \in Encoders, NEW vs \in Seq(AnyWord)
    PROVE  PutSequence(e, vs) \in Later(e)
  <1> DEFINE base == PutUlong(e, Len(vs))
  <1>1. Len(vs) \in Nat
    OBVIOUS
  <1>2. base \in Later(e)
    BY <1>1, UlongKeeps
  <1>3. PICK f : ByNumber!IsFold(f, base, vs, 0) /\ PutSequence(e, vs) = f[Len(vs)]
    BY SequenceIsFold
  <1> HIDE DEF base
  <1>4. \A d \in Later(e) : \A i \in 1..Len(vs) : PutNumber(d, vs[i]) \in Later(e)
    <2>1. \A i \in 1..Len(vs) : vs[i] \in AnyWord
      OBVIOUS
    <2>. QED
      BY <2>1, LaterIsEncoder, NumberKeeps, LaterIsLater, Zenon
  <1>5. \A i \in 0..Len(vs) : f[i] \in Later(e)
    BY <1>2, <1>3, <1>4, ByNumber!FoldKeeps, Zenon
  <1>. QED
    BY <1>1, <1>3, <1>5

LEMMA SequenceOctetKeeps ==
    ASSUME NEW e \in Encoders, NEW octets \in Seq(Octet)
    PROVE  LET at == Aligned(e.offset, 4)
           IN  /\ PutSequenceOctet(e, octets) \in Later(e)
               /\ PutSequenceOctet(e, octets).offset = at + 4 + Len(octets)
               /\ \A i \in 1..4 : PutSequenceOctet(e, octets).bytes[at + i]
                                      = InOrder(Pattern(Len(octets), 4), e.little)[i]
               /\ \A i \in 1..Len(octets) : PutSequenceOctet(e, octets).bytes[at + 4 + i] = octets[i]
  <1> DEFINE at == Aligned(e.offset, 4)
             c == PutUlong(e, Len(octets))
             d == ReserveVarying(c, 4, Len(octets))
             put == Put(d, octets)
  <1>1. e.offset \in Nat /\ Len(octets) \in Nat /\ 4 \in AlignWidth
    BY DEF Encoders, AlignWidth
  <1>2. at \in Nat /\ at % 4 = 0
    BY <1>1, AlignedUp, Zenon
  <1>3. c \in Later(e) /\ c \in Encoders /\ c.offset = at + 4
        /\ \A i \in 1..4 : c.bytes[at + i] = InOrder(Pattern(Len(octets), 4), e.little)[i]
    BY <1>1, UlongKeeps
  <1> HIDE DEF c
  <1>4. d \in Reserved(c, Len(octets)) /\ d.offset = Aligned(c.offset, 4)
    BY <1>1, <1>3, VaryingReserves
  <1>5. Aligned(c.offset, 4) = at + 4
    <2> HIDE DEF at
    <2>. QED
      BY <1>2, <1>3 DEF Aligned
  <1>6. d \in Later(c) /\ d \in Encoders /\ d.offset + Len(octets) <= Len(d.bytes)
    BY <1>3, <1>4, LaterIsEncoder DEF Reserved
  <1> HIDE DEF d, at
  <1>7. /\ put \in Later(d) /\ put.offset = d.offset + Len(octets)
        /\ \A i \in 1..Len(d.bytes) :
              put.bytes[i] = IF i \in d.offset + 1..d.offset + Len(octets)
                             THEN octets[i - d.offset] ELSE d.bytes[i]
    BY <1>6, PutKeeps
  <1> HIDE DEF put
  <1>8. put \in Later(c)
    BY <1>3, <1>6, <1>7, LaterIsLater
  <1>9. ASSUME NEW i \in 1..4
        PROVE  put.bytes[at + i] = InOrder(Pattern(Len(octets), 4), e.little)[i]
    <2>1. at + i \in 1..c.offset
      BY <1>2, <1>3
    <2>2. put.bytes[at + i] = c.bytes[at + i]
      BY <1>8, <2>1 DEF Later, Beyond
    <2>. QED
      BY <1>3, <2>2
  <1>10. ASSUME NEW i \in 1..Len(octets)
         PROVE  put.bytes[at + 4 + i] = octets[i]
    <2> DEFINE j == at + 4 + i
    <2>1. j \in 1..Len(d.bytes) /\ j \in d.offset + 1..d.offset + Len(octets)
          /\ j - d.offset = i
      BY <1>1, <1>2, <1>4, <1>5, <1>6 DEF Encoders
    <2> HIDE DEF j
    <2>2. put.bytes[j] = octets[j - d.offset]
      BY <1>7, <2>1
    <2>. QED
      BY <2>1, <2>2 DEF j
  <1>11. put \in Later(e)
    BY <1>3, <1>8, LaterIsLater
  <1>. QED
    BY <1>4, <1>5, <1>7, <1>9, <1>10, <1>11 DEF PutSequenceOctet, put, c, d, at

\* Where octet j of word m is when each of the words has w octets.
Place(m, j, w) == (m - 1) * w + j

\* The octets of the first k words, in their order.
OctetsOf(vs, k, w, little) ==
    {all \in Seq(Octet) :
        /\ Len(all) = k * w
        /\ \A m \in 1..k : \A j \in 1..w : all[Place(m, j, w)] = InOrder(vs[m], little)[j]}

LEMMA ElementsAreOctets ==
    ASSUME NEW w \in {4, 8}, NEW vs \in Seq(Word(w)), NEW little \in BOOLEAN
    PROVE  Elements(vs, little) \in OctetsOf(vs, Len(vs), w, little)
  <1> DEFINE it == CHOOSE h : ByElement!IsIter(h, <<>>, vs, little)
             I == [k \in 0..Len(vs) |-> OctetsOf(vs, k, w, little)]
  <1>0. vs \in Seq({p \in Seq(Octet) : Len(p) = w}) /\ Len(vs) \in Nat
    BY DEF Word
  <1>1. ByElement!IsIter(it, <<>>, vs, little)
    BY <1>0, ByElement!IterExists, Zenon
  <1>2. Elements(vs, little) = it[DOMAIN vs]
    BY DEF Elements, ByElement!IsIter, FoldLeft, MapThenFoldSet, ByElement!Greatest, Max
  <1> HIDE DEF it
  <1>3. PICK f : ByElement!IsFold(f, <<>>, vs, little) /\ it[DOMAIN vs] = f[Len(vs)]
    BY <1>0, <1>1, ByElement!IterFolds
  <1>4. /\ 0 \in 0..Len(vs) /\ Len(vs) \in 0..Len(vs)
        /\ \A k \in 1..Len(vs) : k \in 0..Len(vs) /\ k - 1 \in 0..Len(vs)
    BY <1>0
  <1>5. \A k \in 0..Len(vs) : I[k] = OctetsOf(vs, k, w, little)
    OBVIOUS
  <1>6. <<>> \in I[0]
    <2>1. 0 * w = 0 /\ Len(<<>>) = 0 /\ 1..0 = {}
      OBVIOUS
    <2>2. <<>> \in OctetsOf(vs, 0, w, little)
      BY <2>1 DEF OctetsOf
    <2>. QED
      BY <1>4, <1>5, <2>2
  <1>7. ASSUME NEW k \in 1..Len(vs), NEW all \in I[k - 1]
        PROVE  all \o InOrder(vs[k], little) \in I[k]
    <2> DEFINE q == InOrder(vs[k], little)
               next == all \o q
    <2>1. all \in OctetsOf(vs, k - 1, w, little) /\ k \in Nat /\ w \in Nat
      BY <1>4, <1>5, <1>7
    <2>2. vs[k] \in Seq(Octet) /\ Len(vs[k]) = w
      BY <1>0
    <2>3. q \in Seq(Octet) /\ Len(q) = w
      BY <2>2, InOrderKeeps
    <2> HIDE DEF q
    <2>4. all \in Seq(Octet) /\ Len(all) = (k - 1) * w
      BY <2>1 DEF OctetsOf
    <2>5. next \in Seq(Octet) /\ Len(next) = (k - 1) * w + w
      <3>1. all \in Seq(Octet) /\ q \in Seq(Octet)
        BY <2>3, <2>4
      <3>2. next \in Seq(Octet) /\ Len(next) = Len(all) + Len(q)
        BY <3>1
      <3>. QED
        BY <2>3, <2>4, <3>2
    <2>6. (k - 1) * w + w = k * w /\ (k - 1) * w \in Nat
      BY <2>1
    <2>7. ASSUME NEW m \in 1..k, NEW j \in 1..w
          PROVE  next[Place(m, j, w)] = InOrder(vs[m], little)[j]
      <3> DEFINE x == Place(m, j, w)
      <3>1. CASE m < k
        <4>1. m \in 1..k - 1
          BY <3>1, <2>1
        <4>2. (m - 1) * w + w <= (k - 1) * w /\ x \in Nat /\ x >= 1 /\ x <= (m - 1) * w + w
          <5>1. CASE w = 4
            BY <4>1, <5>1, <2>1 DEF Place
          <5>2. CASE w = 8
            BY <4>1, <5>2, <2>1 DEF Place
          <5>. QED
            BY <5>1, <5>2
        <4>3. x \in 1..Len(all)
          <5> HIDE DEF x
          <5>. QED
            BY <4>2, <2>4, <2>6
        <4>4. next[x] = all[x]
          <5> HIDE DEF x
          <5>. QED
            BY <4>3, <2>3, <2>4
        <4>. QED
          BY <4>1, <4>4, <2>1 DEF OctetsOf
      <3>2. CASE m = k
        <4>1. Place(m, j, w) = Len(all) + j /\ Len(all) \in Nat /\ j \in 1..Len(q)
          BY <3>2, <2>3, <2>4, <2>6 DEF Place
        <4>2. all \in Seq(Octet) /\ q \in Seq(Octet)
          BY <2>3, <2>4
        <4>3. next[Len(all) + j] = q[j]
          BY <4>1, <4>2
        <4>4. InOrder(vs[m], little)[j] = q[j]
          BY <3>2 DEF q
        <4> HIDE DEF next, x, I
        <4>5. next[Place(m, j, w)] = next[Len(all) + j]
          BY <4>1
        <4>. QED
          BY <4>3, <4>4, <4>5
      <3>3. m < k \/ m = k
        BY <2>1
      <3> HIDE DEF next
      <3>. QED
        BY <3>1, <3>2, <3>3
    <2>8. next \in OctetsOf(vs, k, w, little)
      <3> HIDE DEF next
      <3>. QED
        BY <2>5, <2>6, <2>7 DEF OctetsOf
    <2>. QED
      BY <1>4, <1>5, <2>8 DEF q
  <1> HIDE DEF I
  <1>8. \A k \in 0..Len(vs) : f[k] \in I[k]
    BY <1>0, <1>3, <1>6, <1>7, ByElement!FoldReaches
  <1>. QED
    BY <1>2, <1>3, <1>4, <1>5, <1>8

\* The elements of a typed array are copied behind the reserved padding.
LEMMA ArrayKeeps ==
    ASSUME NEW e \in Encoders, NEW w \in {4, 8}, NEW vs \in Seq(Word(w))
    PROVE  LET at == Aligned(Aligned(e.offset, 4) + 4, w)
               all == Elements(vs, e.little)
               put == Put(ReserveVarying(PutUlong(e, Len(vs)), w, w * Len(vs)), all)
           IN  /\ put \in Later(e)
               /\ put.offset = at + w * Len(vs)
               /\ \A i \in 1..4 : put.bytes[Aligned(e.offset, 4) + i]
                                      = InOrder(Pattern(Len(vs), 4), e.little)[i]
               /\ \A i \in 1..w * Len(vs) : put.bytes[at + i] = all[i]
  <1> DEFINE start == Aligned(e.offset, 4)
             at == Aligned(start + 4, w)
             n == w * Len(vs)
             all == Elements(vs, e.little)
             c == PutUlong(e, Len(vs))
             d == ReserveVarying(c, w, n)
             put == Put(d, all)
  <1>1. e.offset \in Nat /\ Len(vs) \in Nat /\ 4 \in AlignWidth /\ w \in AlignWidth
        /\ e.little \in BOOLEAN
    BY DEF Encoders, AlignWidth
  <1>2. n \in Nat /\ n = Len(vs) * w
    BY <1>1
  <1>3. all \in Seq(Octet) /\ Len(all) = n
    BY <1>1, <1>2, ElementsAreOctets DEF OctetsOf
  <1>4. start \in Nat /\ start + 4 \in Nat
    <2>1. start \in Nat
      BY <1>1, AlignedUp, Zenon
    <2> HIDE DEF start
    <2>. QED
      BY <2>1
  <1>5. c \in Later(e) /\ c \in Encoders /\ c.offset = start + 4
        /\ \A i \in 1..4 : c.bytes[start + i] = InOrder(Pattern(Len(vs), 4), e.little)[i]
    BY <1>1, UlongKeeps
  <1> HIDE DEF c, all, start, n
  <1>6. at \in Nat /\ at >= start + 4
    BY <1>1, <1>4, AlignedUp, Zenon
  <1>7. d \in Reserved(c, n) /\ d.offset = at
    BY <1>1, <1>2, <1>5, VaryingReserves
  <1>8. d \in Later(c) /\ d \in Encoders /\ d.offset + n <= Len(d.bytes)
    BY <1>5, <1>7, LaterIsEncoder DEF Reserved
  <1> HIDE DEF d, at
  <1>9. /\ put \in Later(d) /\ put.offset = d.offset + n
        /\ \A i \in 1..Len(d.bytes) :
              put.bytes[i] = IF i \in d.offset + 1..d.offset + n
                             THEN all[i - d.offset] ELSE d.bytes[i]
    BY <1>3, <1>8, PutKeeps
  <1> HIDE DEF put
  <1>10. put \in Later(c)
    BY <1>5, <1>8, <1>9, LaterIsLater
  <1>11. ASSUME NEW i \in 1..4
         PROVE  put.bytes[start + i] = InOrder(Pattern(Len(vs), 4), e.little)[i]
    <2>1. start + i \in 1..c.offset
      BY <1>4, <1>5
    <2>2. put.bytes[start + i] = c.bytes[start + i]
      BY <1>10, <2>1 DEF Later, Beyond
    <2>. QED
      BY <1>5, <2>2
  <1>12. ASSUME NEW i \in 1..n
         PROVE  put.bytes[at + i] = all[i]
    <2> DEFINE j == at + i
    <2>1. j \in 1..Len(d.bytes) /\ j \in d.offset + 1..d.offset + n /\ j - d.offset = i
      BY <1>2, <1>6, <1>4, <1>7, <1>8 DEF Encoders
    <2> HIDE DEF j
    <2>2. put.bytes[j] = all[j - d.offset]
      BY <1>9, <2>1
    <2>. QED
      BY <2>1, <2>2 DEF j
  <1>13. put \in Later(e)
    BY <1>5, <1>10, LaterIsLater
  <1>. QED
    BY <1>7, <1>9, <1>11, <1>12, <1>13 DEF put, c, d, at, all, n, start

LEMMA EndianKeeps ==
    ASSUME NEW e \in Encoders
    PROVE  /\ PutEndian(e) \in Later(e)
           /\ PutEndian(e).offset = e.offset + 1
           /\ PutEndian(e).bytes[e.offset + 1] = IF e.little THEN 1 ELSE 0
  <1>1. (IF e.little THEN 1 ELSE 0) \in Octet
    BY DEF Octet
  <1>. QED
    BY <1>1, OctetKeeps DEF PutEndian
-----------------------------------------------------------------------------
(***************************************************************************)
(* Encapsulations: a size is reserved, what is inside follows, and the     *)
(* size is filled in where it was reserved.                                *)
(***************************************************************************)
Inside(e) ==
    {d \in Encoders :
        \E r \in StackEntry : r >= e.offset + 4 /\ d \in Beyond(e, r, Append(e.sizeStack, r))}

LEMMA SizeReserved ==
    ASSUME NEW e \in Encoders
    PROVE  LET r == Aligned(e.offset, 4) + 4
           IN  /\ r \in StackEntry /\ r >= e.offset + 4
               /\ ReserveSize(e) \in Beyond(e, r, Append(e.sizeStack, r))
               /\ ReserveSize(e).offset = r
               /\ ReserveSize(e) \in Inside(e)
  <1> DEFINE at == Aligned(e.offset, 4)
             r == at + 4
             c == Reserve(e, 4)
             d == ReserveSize(e)
  <1>1. e.offset \in Nat /\ 4 \in AlignWidth /\ e.sizeStack \in Seq(StackEntry)
    BY DEF Encoders, AlignWidth
  <1>2. at \in Nat /\ at >= e.offset /\ at % 4 = 0
    BY <1>1, AlignedUp, Zenon
  <1>3. c \in Reserved(e, 4) /\ c.offset = at
    BY <1>1, VaryingReserves DEF Reserve
  <1>4. d = [c EXCEPT !.offset = c.offset + 4, !.sizeStack = Append(c.sizeStack, c.offset + 4)]
    <2>1. c \in Encoders
      BY <1>3 DEF Reserved, Later, Beyond
    <2> HIDE DEF c
    <2>. QED
      BY <2>1 DEF ReserveSize, Encoders, c
  <1> HIDE DEF c, d, at
  <1>5. c \in Later(e) /\ c \in Encoders /\ c.offset + 4 <= Len(c.bytes)
        /\ c.sizeStack = e.sizeStack
    BY <1>3 DEF Reserved, Later, Beyond
  <1>6. r \in StackEntry /\ r \in Nat /\ r >= e.offset + 4
    BY <1>1, <1>2 DEF StackEntry
  <1>7. Append(e.sizeStack, r) \in Seq(StackEntry)
    BY <1>1, <1>6
  <1>8. /\ d.offset = r /\ d.bytes = c.bytes /\ d.little = c.little
        /\ d.sizeStack = Append(e.sizeStack, r)
        /\ d \in [offset : Nat, bytes : Seq(Octet), sizeStack : Seq(StackEntry), little : BOOLEAN]
    <2>1. c \in [offset : Nat, bytes : Seq(Octet), sizeStack : Seq(StackEntry), little : BOOLEAN]
      BY <1>5 DEF Encoders
    <2>2. d = [c EXCEPT !.offset = r, !.sizeStack = Append(e.sizeStack, r)]
      BY <1>3, <1>4, <1>5
    <2> HIDE DEF r
    <2>. QED
      BY <1>6, <1>7, <2>1, <2>2, Zenon
  <1>9. d \in Encoders
    BY <1>3, <1>5, <1>8 DEF Encoders
  <1>10. d \in Beyond(e, r, Append(e.sizeStack, r))
    BY <1>5, <1>6, <1>8, <1>9 DEF Beyond, Later
  <1> HIDE DEF r
  <1>11. d \in Inside(e)
    BY <1>6, <1>9, <1>10 DEF Inside
  <1>. QED
    BY <1>6, <1>8, <1>10, <1>11 DEF r, at, d

LEMMA SizeFilled ==
    ASSUME NEW d \in Encoders, NEW stack \in Seq(StackEntry), NEW r \in StackEntry,
           d.sizeStack = Append(stack, r), r <= d.offset
    PROVE  /\ FillinSize(d) \in Encoders
           /\ FillinSize(d).offset = d.offset
           /\ FillinSize(d).sizeStack = stack
           /\ FillinSize(d).little = d.little
           /\ Len(FillinSize(d).bytes) >= Len(d.bytes)
           /\ \A i \in 1..4 : FillinSize(d).bytes[r - 4 + i]
                                  = InOrder(Pattern(d.offset - r, 4), d.little)[i]
           /\ \A i \in 1..Len(d.bytes) :
                 i \notin r - 3..r => FillinSize(d).bytes[i] = d.bytes[i]
  <1> DEFINE at == r - 4
             b == [d EXCEPT !.offset = at, !.sizeStack = stack]
             c == PutUlong(b, d.offset - r)
             f == FillinSize(d)
  <1>1. /\ d \in [offset : Nat, bytes : Seq(Octet), sizeStack : Seq(StackEntry), little : BOOLEAN]
        /\ d.offset \in Nat /\ d.offset <= Len(d.bytes) /\ Len(d.bytes) \in Nat
        /\ Len(d.bytes) > 0
    BY DEF Encoders
  <1>2. r \in Nat /\ at \in Nat /\ at % 4 = 0 /\ at <= d.offset /\ d.offset - r \in Int
    BY <1>1 DEF StackEntry
  <1>3. Last(d.sizeStack) = r /\ Front(d.sizeStack) = stack
    <2>1. Len(d.sizeStack) = Len(stack) + 1 /\ Len(stack) \in Nat
      OBVIOUS
    <2>2. Last(d.sizeStack) = r
      BY <2>1 DEF Last
    <2>3. Front(d.sizeStack) = stack
      BY <2>1 DEF Front
    <2>. QED
      BY <2>2, <2>3
  <1>4. f = [c EXCEPT !.offset = d.offset]
    BY <1>3 DEF FillinSize
  <1>5. /\ b.offset = at /\ b.bytes = d.bytes /\ b.sizeStack = stack /\ b.little = d.little
        /\ b \in [offset : Nat, bytes : Seq(Octet), sizeStack : Seq(StackEntry), little : BOOLEAN]
    BY <1>1, <1>2, Zenon
  <1> HIDE DEF b, at, f
  <1>6. b \in Encoders
    BY <1>1, <1>2, <1>5 DEF Encoders
  <1>7. Aligned(b.offset, 4) = at
    BY <1>2, <1>5 DEF Aligned
  <1>8. /\ c \in Later(b) /\ c \in Encoders
        /\ \A i \in 1..4 : c.bytes[Aligned(b.offset, 4) + i] = InOrder(Pattern(d.offset - r, 4), b.little)[i]
        /\ \A i \in 1..Len(b.bytes) :
              i \notin Aligned(b.offset, 4) + 1..Aligned(b.offset, 4) + 4 => c.bytes[i] = b.bytes[i]
    BY <1>2, <1>6, UlongKeeps, Zenon
  <1> HIDE DEF c
  <1>9. /\ c \in [offset : Nat, bytes : Seq(Octet), sizeStack : Seq(StackEntry), little : BOOLEAN]
        /\ Len(c.bytes) >= Len(d.bytes) /\ c.sizeStack = stack /\ c.little = d.little
        /\ Len(c.bytes) \in Nat
    BY <1>5, <1>8 DEF Encoders, Later, Beyond
  <1>10. /\ f.offset = d.offset /\ f.bytes = c.bytes /\ f.sizeStack = stack /\ f.little = d.little
         /\ f \in [offset : Nat, bytes : Seq(Octet), sizeStack : Seq(StackEntry), little : BOOLEAN]
    BY <1>1, <1>4, <1>9, Zenon
  <1>11. f \in Encoders
    BY <1>1, <1>9, <1>10 DEF Encoders
  <1>12. \A i \in 1..4 : f.bytes[r - 4 + i] = InOrder(Pattern(d.offset - r, 4), d.little)[i]
    BY <1>5, <1>7, <1>8, <1>10, Zenon DEF at
  <1>13. ASSUME NEW i \in 1..Len(d.bytes), i \notin r - 3..r
         PROVE  f.bytes[i] = d.bytes[i]
    <2>1. i \notin at + 1..at + 4
      BY <1>2, <1>13 DEF at
    <2>. QED
      BY <1>5, <1>7, <1>8, <1>10, <2>1, Zenon
  <1>. QED
    BY <1>9, <1>10, <1>11, <1>12, <1>13 DEF f

LEMMA InsideStays ==
    ASSUME NEW e \in Encoders, NEW d \in Inside(e), NEW c \in Later(d)
    PROVE  c \in Inside(e)
  <1>1. PICK r \in StackEntry : r >= e.offset + 4 /\ d \in Beyond(e, r, Append(e.sizeStack, r))
    BY DEF Inside
  <1>2. d \in Encoders /\ c \in Encoders /\ r \in Nat /\ e.offset \in Nat
    BY <1>1 DEF Later, Beyond, StackEntry, Encoders
  <1>3. c.offset >= r /\ 1..e.offset \subseteq 1..d.offset
    BY <1>1, <1>2 DEF Later, Beyond, Encoders
  <1>4. \A i \in 1..e.offset : c.bytes[i] = e.bytes[i]
    BY <1>1, <1>3 DEF Later, Beyond
  <1>5. c \in Beyond(e, r, Append(e.sizeStack, r))
    BY <1>1, <1>2, <1>3, <1>4 DEF Later, Beyond, Encoders
  <1>. QED
    BY <1>1, <1>2, <1>5 DEF Inside

LEMMA InsideOfLater ==
    ASSUME NEW e \in Encoders, NEW d \in Later(e), NEW c \in Inside(d)
    PROVE  c \in Inside(e)
  <1>1. PICK r \in StackEntry : r >= d.offset + 4 /\ c \in Beyond(d, r, Append(d.sizeStack, r))
    BY DEF Inside
  <1>2. d \in Encoders /\ c \in Encoders /\ r \in Nat /\ e.offset \in Nat
        /\ d.offset >= e.offset /\ d.sizeStack = e.sizeStack
    BY <1>1 DEF Later, Beyond, StackEntry, Encoders
  <1>3. r >= d.offset /\ r >= e.offset + 4
    BY <1>1, <1>2 DEF Encoders
  <1>4. c \in Beyond(e, r, Append(e.sizeStack, r))
    BY <1>1, <1>2, <1>3, LaterIsBeyond
  <1>. QED
    BY <1>2, <1>3, <1>4 DEF Inside

LEMMA InsideIsLeft ==
    ASSUME NEW e \in Encoders, NEW d \in Inside(e)
    PROVE  FillinSize(d) \in Later(e) /\ FillinSize(d).offset = d.offset
  <1> DEFINE f == FillinSize(d)
  <1>1. PICK r \in StackEntry : r >= e.offset + 4 /\ d \in Beyond(e, r, Append(e.sizeStack, r))
    BY DEF Inside
  <1>2. /\ d \in Encoders /\ r \in Nat /\ e.offset \in Nat /\ d.offset >= r
        /\ e.sizeStack \in Seq(StackEntry) /\ d.sizeStack = Append(e.sizeStack, r)
        /\ d.little = e.little /\ Len(d.bytes) >= Len(e.bytes)
        /\ d.offset \in Nat /\ d.offset <= Len(d.bytes)
        /\ Len(d.bytes) \in Nat /\ Len(e.bytes) \in Nat
    BY <1>1 DEF Beyond, StackEntry, Encoders
  <1>3. r <= d.offset
    BY <1>2
  <1>4. /\ f \in Encoders /\ f.offset = d.offset /\ f.sizeStack = e.sizeStack /\ f.little = d.little
        /\ Len(f.bytes) >= Len(d.bytes)
        /\ \A i \in 1..Len(d.bytes) : i \notin r - 3..r => f.bytes[i] = d.bytes[i]
    BY <1>2, <1>3, SizeFilled, SMTT(30)
  <1> HIDE DEF f
  <1>5. ASSUME NEW i \in 1..e.offset
        PROVE  f.bytes[i] = e.bytes[i]
    <2>1. i \in 1..Len(d.bytes) /\ i \notin r - 3..r
      BY <1>1, <1>2
    <2>. QED
      BY <1>1, <1>4, <2>1 DEF Beyond
  <1>6. Len(f.bytes) >= Len(e.bytes) /\ f.offset >= e.offset
    BY <1>1, <1>2, <1>4 DEF Encoders
  <1>. QED
    BY <1>2, <1>4, <1>5, <1>6 DEF Later, Beyond, f

LEMMA InsideIsEncoder ==
    ASSUME NEW e \in Encoders, NEW d \in Inside(e)
    PROVE  d \in Encoders
  BY DEF Inside

LEMMA EncapsulationBegins ==
    ASSUME NEW e \in Encoders, NEW type \in Int
    PROVE  PutBeginEncapsulation(e, type) \in Inside(e)
  <1> DEFINE d == PutUlong(e, type)
             c == ReserveSize(d)
  <1>1. d \in Later(e) /\ d \in Encoders
    BY UlongKeeps
  <1>2. c \in Inside(d)
    BY <1>1, SizeReserved
  <1>3. c \in Inside(e) /\ c \in Encoders
    BY <1>1, <1>2, InsideOfLater, InsideIsEncoder
  <1> HIDE DEF c
  <1>4. PutEndian(c) \in Inside(e)
    BY <1>3, EndianKeeps, InsideStays
  <1>. QED
    BY <1>4 DEF PutBeginEncapsulation, c
-----------------------------------------------------------------------------
(***************************************************************************)
(* ASN.1.                                                                  *)
(***************************************************************************)
LEMMA SeptetsAreOctets ==
    ASSUME NEW n \in Nat
    PROVE  Septets(n) \in Seq(Octet) /\ Len(Septets(n)) \in 1..5
  <1> DEFINE weight == <<1, 128, 16384, 2097152, 268435456>>
             Fits(k) == (k = 1 \/ n >= weight[k]) /\ (k = 5 \/ n < weight[k + 1])
             k == CHOOSE k \in 1..5 : Fits(k)
  <1>1. \E x \in 1..5 : Fits(x)
    <2>1. CASE n < 128
      <3>1. Fits(1)
        BY <2>1, SMTT(30)
      <3>. QED
        BY <3>1, SMTT(30)
    <2>2. CASE n >= 128 /\ n < 16384
      <3>1. Fits(2)
        BY <2>2, SMTT(30)
      <3>. QED
        BY <3>1, SMTT(30)
    <2>3. CASE n >= 16384 /\ n < 2097152
      <3>1. Fits(3)
        BY <2>3, SMTT(30)
      <3>. QED
        BY <3>1, SMTT(30)
    <2>4. CASE n >= 2097152 /\ n < 268435456
      <3>1. Fits(4)
        BY <2>4, SMTT(30)
      <3>. QED
        BY <3>1, SMTT(30)
    <2>5. CASE n >= 268435456
      <3>1. Fits(5)
        BY <2>5, SMTT(30)
      <3>. QED
        BY <3>1, SMTT(30)
    <2>. QED
      BY <2>1, <2>2, <2>3, <2>4, <2>5, SMTT(30)
  <1>2. k \in 1..5
    BY <1>1
  <1>3. Septets(n) = [i \in 1..k |-> ((n \div weight[k - i + 1]) % 128) + (IF i < k THEN 128 ELSE 0)]
    BY SMTT(30) DEF Septets
  <1> HIDE DEF k
  <1> DEFINE Weights == {1, 128, 16384, 2097152, 268435456}
  <1>4. \A i \in 1..k : weight[k - i + 1] \in Weights
    BY <1>2, SMTT(30)
  <1>5. \A w \in Weights : (n \div w) % 128 \in 0..127
    BY SMTT(30)
  <1> HIDE DEF weight, Weights
  <1>6. ASSUME NEW i \in 1..k
        PROVE  ((n \div weight[k - i + 1]) % 128) + (IF i < k THEN 128 ELSE 0) \in Octet
    <2> DEFINE septet == (n \div weight[k - i + 1]) % 128
    <2>1. septet \in 0..127
      BY <1>4, <1>5, Zenon
    <2> HIDE DEF septet
    <2>2. septet + (IF i < k THEN 128 ELSE 0) \in Octet
      BY <2>1 DEF Octet
    <2>. QED
      BY <2>2 DEF septet
  <1>. QED
    BY <1>2, <1>3, <1>6

LEMMA OctetsKeep ==
    ASSUME NEW e \in Encoders, NEW octets \in Seq(Octet)
    PROVE  PutOctets(e, octets) \in Later(e)
  <1> DEFINE d == ReserveVarying(e, 1, Len(octets))
  <1>1. d \in Reserved(e, Len(octets))
    BY VaryingReserves DEF AlignWidth
  <1>2. d \in Later(e) /\ d \in Encoders /\ d.offset + Len(octets) <= Len(d.bytes)
    BY <1>1 DEF Reserved, Later, Beyond
  <1> HIDE DEF d
  <1>3. Put(d, octets) \in Later(d)
    BY <1>2, PutKeeps
  <1>. QED
    BY <1>2, <1>3, LaterIsLater DEF PutOctets, d

LEMMA Asn1NumberKeeps ==
    ASSUME NEW e \in Encoders, NEW n \in Nat
    PROVE  PutAsn1Number(e, n) \in Later(e)
  BY SeptetsAreOctets, OctetsKeep DEF PutAsn1Number

LEMMA NewEncoder ==
    ASSUME NEW little \in BOOLEAN
    PROVE  Encoder(little) \in Encoders /\ Encoder(little).little = little
           /\ Encoder(little).offset = 0 /\ Encoder(little).sizeStack = <<>>
  <1>1. InitialSize \in Nat /\ InitialSize > 0
    BY InitialSizeAssumption
  <1>2. [i \in 1..InitialSize |-> 0] \in Seq(Octet) /\ Len([i \in 1..InitialSize |-> 0]) = InitialSize
    BY <1>1 DEF Octet
  <1>3. <<>> \in Seq(StackEntry)
    OBVIOUS
  <1>. QED
    BY <1>1, <1>2, <1>3 DEF Encoder, Encoders

LEMMA CutOf ==
    ASSUME NEW bytes \in Seq(Octet), NEW from \in Nat, NEW n \in Nat, from + n <= Len(bytes)
    PROVE  LET cut == SubSeq(bytes, from + 1, from + n)
           IN  /\ cut \in Seq(Octet)
               /\ Len(cut) = n
               /\ \A i \in 1..n : cut[i] = bytes[from + i]
  <1> DEFINE a == from + 1
             b == from + n
             cut == SubSeq(bytes, a, b)
  <1>1. a \in Int /\ b \in Int /\ \A i \in a..b : i \in 1..Len(bytes)
    OBVIOUS
  <1>2. \A i \in a..b : bytes[i] \in Octet
    BY <1>1
  <1> HIDE DEF a, b
  <1>3. /\ cut \in Seq(Octet)
        /\ Len(cut) = IF a <= b THEN b - a + 1 ELSE 0
        /\ \A i \in 1..b - a + 1 : cut[i] = bytes[a + i - 1]
    BY <1>1, <1>2, SubSeqProperties
  <1> HIDE DEF cut
  <1>4. b - a + 1 = n /\ (a <= b <=> n > 0) /\ \A i \in 1..n : a + i - 1 = from + i
    BY DEF a, b
  <1>. QED
    BY <1>3, <1>4 DEF cut, a, b

\* All that an encoder has written.
LEMMA SliceOfEncoder ==
    ASSUME NEW e \in Encoders
    PROVE  /\ Slice(e, 0, e.offset) \in Seq(Octet)
           /\ Len(Slice(e, 0, e.offset)) = e.offset
           /\ \A i \in 1..e.offset : Slice(e, 0, e.offset)[i] = e.bytes[i]
  <1>1. e.offset \in Nat /\ e.bytes \in Seq(Octet) /\ e.offset <= Len(e.bytes)
    BY DEF Encoders
  <1>2. Slice(e, 0, e.offset) = SubSeq(e.bytes, 1, e.offset)
    BY <1>1 DEF Slice
  <1> DEFINE cut == SubSeq(e.bytes, 0 + 1, 0 + e.offset)
  <1>3. /\ cut \in Seq(Octet) /\ Len(cut) = e.offset
        /\ \A i \in 1..e.offset : cut[i] = e.bytes[0 + i]
    <2>1. 0 \in Nat /\ 0 + e.offset <= Len(e.bytes)
      BY <1>1
    <2>. QED
      BY <1>1, <2>1, CutOf
  <1>4. cut = Slice(e, 0, e.offset)
    BY <1>1, <1>2
  <1> HIDE DEF cut
  <1>5. \A i \in 1..e.offset : 0 + i = i
    BY <1>1
  <1>. QED
    BY <1>3, <1>4, <1>5

\* A tag and, behind its length, what another encoder has written.
LEMMA TagKeeps ==
    ASSUME NEW e \in Encoders, NEW class \in 0..3, NEW tag \in Nat, NEW encoding \in 0..1,
           NEW content \in Encoders
    PROVE  LET c == class * 64 + encoding * 32
               tagged == IF tag < 31 THEN PutOctet(e, c + tag)
                         ELSE PutAsn1Number(PutOctet(e, c + 31), tag)
           IN  PutOctets(PutAsn1Number(tagged, content.offset),
                         Slice(content, 0, content.offset)) \in Later(e)
  <1> DEFINE c == class * 64 + encoding * 32
             tagged == IF tag < 31 THEN PutOctet(e, c + tag)
                       ELSE PutAsn1Number(PutOctet(e, c + 31), tag)
             sized == PutAsn1Number(tagged, content.offset)
  <1>1. c + 31 \in Octet /\ (tag < 31 => c + tag \in Octet)
    BY DEF Octet
  <1> HIDE DEF c
  <1>2. tagged \in Later(e)
    BY <1>1, OctetKeeps, LaterIsEncoder, Asn1NumberKeeps, LaterIsLater
  <1> HIDE DEF tagged
  <1>3. tagged \in Encoders /\ content.offset \in Nat
    BY <1>2, LaterIsEncoder, Zenon DEF Encoders
  <1>4. sized \in Later(e)
    BY <1>2, <1>3, Asn1NumberKeeps, LaterIsLater
  <1> HIDE DEF sized
  <1>5. sized \in Encoders
    BY <1>4, LaterIsEncoder
  <1>6. PutOctets(sized, Slice(content, 0, content.offset)) \in Later(e)
    BY <1>4, <1>5, SliceOfEncoder, OctetsKeep, LaterIsLater
  <1>. QED
    BY <1>6 DEF sized, tagged, c

\* Object identifiers whose first two numbers fit into one octet.
ObjectIdentifier == {oid \in Seq(Nat) : Len(oid) >= 2 /\ oid[1] * 40 + oid[2] \in Octet}

LEMMA OidKeeps ==
    ASSUME NEW e \in Encoders, NEW oid \in ObjectIdentifier
    PROVE  PutAsn1Oid(e, oid) \in Later(e)
  <1> DEFINE base == PutOctet(e, oid[1] * 40 + oid[2])
             rest == SubSeq(oid, 3, Len(oid))
             it == CHOOSE h : BySeptets!IsIter(h, base, rest, 0)
  <1>1. oid \in Seq(Nat) /\ Len(oid) \in Nat /\ Len(oid) >= 2 /\ oid[1] * 40 + oid[2] \in Octet
    BY DEF ObjectIdentifier
  <1>2. rest \in Seq(Nat)
    BY <1>1
  <1>3. BySeptets!IsIter(it, base, rest, 0)
    BY <1>2, BySeptets!IterExists, Zenon
  <1>4. PutAsn1Oid(e, oid) = it[DOMAIN rest]
    BY DEF PutAsn1Oid, BySeptets!IsIter, FoldLeft, MapThenFoldSet, BySeptets!Greatest, Max
  <1>5. base \in Later(e)
    BY <1>1, OctetKeeps
  <1> HIDE DEF it, base, rest
  <1>6. PICK f : BySeptets!IsFold(f, base, rest, 0) /\ it[DOMAIN rest] = f[Len(rest)]
    BY <1>2, <1>3, BySeptets!IterFolds
  <1>7. \A d \in Later(e) : \A i \in 1..Len(rest) : PutAsn1Number(d, rest[i]) \in Later(e)
    <2>1. \A i \in 1..Len(rest) : rest[i] \in Nat
      BY <1>2
    <2>. QED
      BY <2>1, LaterIsEncoder, Asn1NumberKeeps, LaterIsLater
  <1>8. \A i \in 0..Len(rest) : f[i] \in Later(e)
    BY <1>2, <1>5, <1>6, <1>7, BySeptets!FoldKeeps, Zenon
  <1>9. Len(rest) \in 0..Len(rest)
    BY <1>2
  <1>. QED
    BY <1>4, <1>6, <1>8, <1>9
-----------------------------------------------------------------------------
(***************************************************************************)
(* Several fields, and references.                                         *)
(***************************************************************************)
\* A field that can be put anywhere; to skip octets needs room that others reserved.
FieldOK(f) ==
    \/ f.type \in {"ulong", "ushort"} /\ f.v \in Int
    \/ f.type = "octet" /\ f.v \in Octet
    \/ f.type = "number" /\ f.v \in AnyWord
    \/ f.type \in {"string", "blob"} /\ f.v \in Seq(Octet)

LEMMA FieldIsOK ==
    ASSUME NEW v
    PROVE  /\ v \in Int => FieldOK(Field("ulong", v)) /\ FieldOK(Field("ushort", v))
           /\ v \in Octet => FieldOK(Field("octet", v))
           /\ v \in AnyWord => FieldOK(Field("number", v))
           /\ v \in Seq(Octet) => FieldOK(Field("string", v)) /\ FieldOK(Field("blob", v))
  BY DEF Field, FieldOK

LEMMA FieldKeeps ==
    ASSUME NEW e \in Encoders, NEW f, FieldOK(f)
    PROVE  PutField(e, f) \in Later(e)
  <1>1. CASE f.type = "ulong" /\ f.v \in Int
    BY <1>1, UlongKeeps DEF PutField
  <1>2. CASE f.type = "ushort" /\ f.v \in Int
    BY <1>2, UshortKeeps DEF PutField
  <1>3. CASE f.type = "octet" /\ f.v \in Octet
    BY <1>3, OctetKeeps DEF PutField
  <1>4. CASE f.type = "number" /\ f.v \in AnyWord
    BY <1>4, NumberKeeps DEF PutField
  <1>5. CASE f.type = "string" /\ f.v \in Seq(Octet)
    BY <1>5, StringKeeps DEF PutField
  <1>6. CASE f.type = "blob" /\ f.v \in Seq(Octet)
    BY <1>6, BlobKeeps DEF PutField
  <1>. QED
    BY <1>1, <1>2, <1>3, <1>4, <1>5, <1>6 DEF FieldOK

LEMMA FieldsKeep ==
    ASSUME NEW e \in Encoders, NEW S, NEW fields \in Seq(S),
           \A i \in 1..Len(fields) : FieldOK(fields[i])
    PROVE  PutFields(e, fields) \in Later(e)
  <1> DEFINE it == CHOOSE h : ByField!IsIter(h, e, fields, 0)
  <1>1. ByField!IsIter(it, e, fields, 0)
    BY ByField!IterExists, Zenon
  <1>2. PutFields(e, fields) = it[DOMAIN fields]
    BY DEF PutFields, ByField!IsIter, FoldLeft, MapThenFoldSet, ByField!Greatest, Max
  <1> HIDE DEF it
  <1>3. PICK f : ByField!IsFold(f, e, fields, 0) /\ it[DOMAIN fields] = f[Len(fields)]
    BY <1>1, ByField!IterFolds
  <1>4. \A d \in Later(e) : \A i \in 1..Len(fields) : PutField(d, fields[i]) \in Later(e)
    BY LaterIsEncoder, FieldKeeps, LaterIsLater
  <1>5. e \in Later(e) /\ Len(fields) \in 0..Len(fields)
    BY NowIsLater
  <1>6. \A i \in 0..Len(fields) : f[i] \in Later(e)
    BY <1>3, <1>4, <1>5, ByField!FoldKeeps, Zenon
  <1>. QED
    BY <1>2, <1>3, <1>5, <1>6

LEMMA ReferenceKeeps ==
    ASSUME NEW e \in Encoders, NEW r, IsReference(r)
    PROVE  PutReference(e, r) \in Later(e)
  <1> DEFINE head == <<Field("string", r.oid), Field("ulong", 1),
                       Field("ulong", Profile.INTERNET_IOP)>>
             tail == <<Field("octet", 1), Field("octet", 2), Field("string", r.host),
                       Field("ushort", r.port), Field("blob", r.key), Field("ulong", 1)>>
             named == PutFields(e, head)
             sized == ReserveSize(named)
             begun == PutEndian(sized)
             iiop == PutFields(begun, tail)
             inner == PutBeginEncapsulation(iiop, ORB_TYPE)
             component == PutUlong(inner, OrbTypeOfCorbaJs)
             ended == FillinSize(component)
  <1>1. /\ head \in Seq({head[i] : i \in 1..3}) /\ Len(head) = 3
        /\ \A i \in 1..Len(head) : FieldOK(head[i])
    <2> DEFINE a == Field("string", r.oid)
               b == Field("ulong", 1)
               c == Field("ulong", Profile.INTERNET_IOP)
    <2>1. FieldOK(a) /\ FieldOK(b) /\ FieldOK(c)
      <3>1. r.oid \in Seq(Octet)
        BY DEF IsReference
      <3>. QED
        BY <3>1, FieldIsOK DEF Profile
    <2> HIDE DEF a, b, c
    <2>2. /\ <<a, b, c>> \in Seq({<<a, b, c>>[i] : i \in 1..3}) /\ Len(<<a, b, c>>) = 3
          /\ \A i \in 1..3 : FieldOK(<<a, b, c>>[i])
      BY <2>1
    <2>. QED
      BY <2>2 DEF a, b, c
  <1>2. /\ tail \in Seq({tail[i] : i \in 1..6}) /\ Len(tail) = 6
        /\ \A i \in 1..Len(tail) : FieldOK(tail[i])
    <2> DEFINE a == Field("octet", 1)
               b == Field("octet", 2)
               c == Field("string", r.host)
               d == Field("ushort", r.port)
               f == Field("blob", r.key)
               g == Field("ulong", 1)
               all == <<a, b, c, d, f, g>>
    <2>1. FieldOK(a) /\ FieldOK(b) /\ FieldOK(c) /\ FieldOK(d) /\ FieldOK(f) /\ FieldOK(g)
      <3>1. /\ 1 \in Octet /\ 2 \in Octet /\ r.port \in Int
            /\ r.host \in Seq(Octet) /\ r.key \in Seq(Octet)
        BY DEF Octet, IsReference
      <3>. QED
        BY <3>1, FieldIsOK
    <2> HIDE DEF a, b, c, d, f, g
    <2>2. /\ all \in Seq({all[i] : i \in 1..6}) /\ Len(all) = 6
          /\ \A i \in 1..6 : FieldOK(all[i])
      BY <2>1
    <2>. QED
      BY <2>2 DEF a, b, c, d, f, g
  <1> HIDE DEF head, tail
  <1>3. named \in Later(e) /\ named \in Encoders
    BY <1>1, FieldsKeep, LaterIsEncoder
  <1> HIDE DEF named
  <1>4. sized \in Inside(e) /\ sized \in Encoders
    BY <1>3, SizeReserved, InsideOfLater, InsideIsEncoder
  <1> HIDE DEF sized
  <1>5. begun \in Inside(e) /\ begun \in Encoders
    BY <1>4, EndianKeeps, InsideStays, InsideIsEncoder
  <1> HIDE DEF begun
  <1>6. iiop \in Inside(e) /\ iiop \in Encoders
    BY <1>2, <1>5, FieldsKeep, InsideStays, InsideIsEncoder
  <1> HIDE DEF iiop
  <1>7. inner \in Inside(iiop) /\ inner \in Encoders
    BY <1>6, EncapsulationBegins, InsideIsEncoder DEF ORB_TYPE
  <1> HIDE DEF inner
  <1>8. component \in Inside(iiop)
    BY <1>6, <1>7, UlongKeeps, InsideStays DEF OrbTypeOfCorbaJs
  <1> HIDE DEF component
  <1>9. ended \in Inside(e)
    BY <1>6, <1>8, InsideIsLeft, InsideStays
  <1> HIDE DEF ended
  <1>10. FillinSize(ended) \in Later(e)
    BY <1>9, InsideIsLeft
  <1>. QED
    BY <1>10 DEF PutReference, PutEndEncapsulation, ended, component, inner, iiop, begun, sized,
                 named, head, tail

LEMMA NilReferenceKeeps ==
    ASSUME NEW e \in Encoders
    PROVE  PutNilReference(e) \in Later(e)
  <1>1. <<>> \in Seq(Octet)
    OBVIOUS
  <1>2. PutString(e, <<>>) \in Later(e)
    BY <1>1, StringKeeps, Zenon
  <1>. QED
    BY <1>2, LaterIsEncoder, UlongKeeps, LaterIsLater DEF PutNilReference

LEMMA ComponentsKeep ==
    ASSUME NEW e \in Encoders, NEW components \in Seq(ForeignComponent)
    PROVE  LET Component(d, c) == PutBlob(PutUlong(d, c.id), c.octets)
           IN  FoldLeft(Component, e, components) \in Later(e)
  <1> DEFINE it == CHOOSE h : ByComponent!IsIter(h, e, components, 0)
  <1>1. ByComponent!IsIter(it, e, components, 0)
    BY ByComponent!IterExists, Zenon
  <1>2. LET Component(d, c) == PutBlob(PutUlong(d, c.id), c.octets)
        IN  FoldLeft(Component, e, components) = it[DOMAIN components]
    BY DEF ByComponent!IsIter, FoldLeft, MapThenFoldSet, ByComponent!Greatest, Max
  <1> HIDE DEF it
  <1>3. PICK f : ByComponent!IsFold(f, e, components, 0) /\ it[DOMAIN components] = f[Len(components)]
    BY <1>1, ByComponent!IterFolds
  <1>4. ASSUME NEW d \in Later(e), NEW i \in 1..Len(components)
        PROVE  PutBlob(PutUlong(d, components[i].id), components[i].octets) \in Later(e)
    <2> DEFINE u == PutUlong(d, components[i].id)
    <2>1. components[i].id \in Int /\ components[i].octets \in Seq(Octet)
      <3>1. components[i] \in ForeignComponent
        OBVIOUS
      <3>. QED
        BY <3>1 DEF ForeignComponent
    <2>2. u \in Later(e) /\ u \in Encoders
      BY <2>1, LaterIsEncoder, UlongKeeps, LaterIsLater, Zenon
    <2> HIDE DEF u
    <2>. QED
      BY <2>1, <2>2, BlobKeeps, LaterIsLater DEF u
  <1>5. e \in Later(e) /\ Len(components) \in 0..Len(components)
    BY NowIsLater
  <1>6. \A i \in 0..Len(components) : f[i] \in Later(e)
    BY <1>3, <1>4, <1>5, ByComponent!FoldKeeps, Zenon
  <1>7. f[Len(components)] \in Later(e)
    BY <1>5, <1>6
  <1>. QED
    BY <1>2, <1>3, <1>7 DEF FoldLeft, MapThenFoldSet

LEMMA ProfileKeeps ==
    ASSUME NEW e \in Encoders, NEW p \in ForeignProfile, NEW r, IsReference(r)
    PROVE  PutProfile(e, p, r) \in Later(e)
  <1> DEFINE fields == <<Field("octet", 1), Field("octet", p.minor), Field("string", r.host),
                         Field("ushort", r.port), Field("blob", r.key)>>
             start == PutBeginEncapsulation(e, p.tag)
             iiop == PutFields(start, fields)
             counted == PutUlong(iiop, Len(p.components))
             Component(d, c) == PutBlob(PutUlong(d, c.id), c.octets)
             all == FoldLeft(Component, counted, p.components)
             content == IF p.tag # Profile.INTERNET_IOP THEN PutUlong(start, 77)
                        ELSE IF p.minor = 0 THEN iiop ELSE all
  <1>1. p.tag \in Int
    BY DEF ForeignProfile, Profile
  <1>2. start \in Inside(e) /\ start \in Encoders
    BY <1>1, EncapsulationBegins, InsideIsEncoder
  <1> HIDE DEF start
  <1>3. CASE p.tag # Profile.INTERNET_IOP
    <2>1. PutUlong(start, 77) \in Inside(e)
      BY <1>2, UlongKeeps, InsideStays
    <2>2. content = PutUlong(start, 77)
      BY <1>3
    <2> HIDE DEF content
    <2>3. FillinSize(content) \in Later(e)
      BY <2>1, <2>2, InsideIsLeft
    <2>. QED
      BY <2>3, Zenon DEF PutProfile, PutEndEncapsulation, content, start
  <1>4. CASE p.tag = Profile.INTERNET_IOP
    <2>1. p.minor \in Octet /\ p.components \in Seq(ForeignComponent)
      BY <1>4 DEF ForeignProfile
    <2>2. /\ fields \in Seq({fields[i] : i \in 1..5}) /\ Len(fields) = 5
          /\ \A i \in 1..Len(fields) : FieldOK(fields[i])
      <3> DEFINE a == Field("octet", 1)
                 b == Field("octet", p.minor)
                 c == Field("string", r.host)
                 d == Field("ushort", r.port)
                 f == Field("blob", r.key)
                 these == <<a, b, c, d, f>>
      <3>1. FieldOK(a) /\ FieldOK(b) /\ FieldOK(c) /\ FieldOK(d) /\ FieldOK(f)
        <4>1. 1 \in Octet /\ r.port \in Int /\ r.host \in Seq(Octet) /\ r.key \in Seq(Octet)
          BY DEF Octet, IsReference
        <4>. QED
          BY <2>1, <4>1, FieldIsOK
      <3> HIDE DEF a, b, c, d, f
      <3>2. /\ these \in Seq({these[i] : i \in 1..5}) /\ Len(these) = 5
            /\ \A i \in 1..5 : FieldOK(these[i])
        BY <3>1
      <3>. QED
        BY <3>2 DEF a, b, c, d, f
    <2> HIDE DEF fields
    <2>3. iiop \in Inside(e) /\ iiop \in Encoders
      BY <1>2, <2>2, FieldsKeep, InsideStays, InsideIsEncoder
    <2> HIDE DEF iiop
    <2>4. Len(p.components) \in Int
      BY <2>1
    <2>5. counted \in Inside(e) /\ counted \in Encoders
      BY <2>3, <2>4, UlongKeeps, InsideStays
    <2> HIDE DEF counted
    <2>6. all \in Later(counted)
      BY <2>1, <2>5, ComponentsKeep, Zenon
    <2>7. all \in Inside(e)
      BY <2>5, <2>6, InsideStays, Zenon
    <2> HIDE DEF all
    <2>8. content \in Inside(e)
      BY <1>4, <2>3, <2>7
    <2> HIDE DEF content
    <2>9. FillinSize(content) \in Later(e)
      BY <2>8, InsideIsLeft
    <2>10. PutProfile(e, p, r) = FillinSize(content)
      BY DEF PutProfile, PutEndEncapsulation, content, all, counted, iiop, start, fields
    <2>. QED
      BY <2>9, <2>10
  <1>. QED
    BY <1>3, <1>4

LEMMA PeerReferenceKeeps ==
    ASSUME NEW e \in Encoders, NEW r, IsReference(r), NEW profiles \in Seq(ForeignProfile)
    PROVE  PutPeerReference(e, r, profiles) \in Later(e)
  <1> DEFINE head == <<Field("string", r.oid), Field("ulong", Len(profiles))>>
             base == PutFields(e, head)
             it == CHOOSE h : ByProfile!IsIter(h, base, profiles, r)
  <1>1. /\ head \in Seq({head[i] : i \in 1..2}) /\ Len(head) = 2
        /\ \A i \in 1..Len(head) : FieldOK(head[i])
    <2> DEFINE a == Field("string", r.oid)
               b == Field("ulong", Len(profiles))
               these == <<a, b>>
    <2>1. r.oid \in Seq(Octet) /\ Len(profiles) \in Int
      BY DEF IsReference
    <2>2. FieldOK(a) /\ FieldOK(b)
      BY <2>1, FieldIsOK
    <2> HIDE DEF a, b
    <2>3. /\ these \in Seq({these[i] : i \in 1..2}) /\ Len(these) = 2
          /\ \A i \in 1..2 : FieldOK(these[i])
      BY <2>2
    <2>. QED
      BY <2>3 DEF a, b
  <1> HIDE DEF head
  <1>2. base \in Later(e)
    BY <1>1, FieldsKeep
  <1>3. ByProfile!IsIter(it, base, profiles, r)
    BY ByProfile!IterExists, Zenon
  <1>4. PutPeerReference(e, r, profiles) = it[DOMAIN profiles]
    BY DEF PutPeerReference, ByProfile!IsIter, FoldLeft, MapThenFoldSet, ByProfile!Greatest, Max, head
  <1> HIDE DEF it, base
  <1>5. PICK f : ByProfile!IsFold(f, base, profiles, r) /\ it[DOMAIN profiles] = f[Len(profiles)]
    BY <1>3, ByProfile!IterFolds
  <1>6. \A d \in Later(e) : \A i \in 1..Len(profiles) : PutProfile(d, profiles[i], r) \in Later(e)
    <2>1. \A i \in 1..Len(profiles) : profiles[i] \in ForeignProfile
      OBVIOUS
    <2>. QED
      BY <2>1, LaterIsEncoder, ProfileKeeps, LaterIsLater
  <1>7. \A i \in 0..Len(profiles) : f[i] \in Later(e)
    BY <1>2, <1>5, <1>6, ByProfile!FoldKeeps, Zenon
  <1>8. Len(profiles) \in 0..Len(profiles)
    OBVIOUS
  <1>. QED
    BY <1>4, <1>5, <1>7, <1>8
-----------------------------------------------------------------------------
(***************************************************************************)
(* Numbers are read as they were written, in either byte order.            *)
(***************************************************************************)
\* The least number that a ulong cannot hold.
UlongLimit == 4294967296

LEMMA NumberFolds ==
    ASSUME NEW S, NEW p \in Seq(S)
    PROVE  \E f : ByOctet!IsFold(f, 0, p, 0) /\ Number(p) = f[Len(p)]
  <1> DEFINE it == CHOOSE h : ByOctet!IsIter(h, 0, p, 0)
  <1>1. ByOctet!IsIter(it, 0, p, 0)
    BY ByOctet!IterExists, Zenon
  <1>2. Number(p) = it[DOMAIN p]
    BY DEF Number, ByOctet!IsIter, FoldLeft, MapThenFoldSet, ByOctet!Greatest, Max
  <1> HIDE DEF it
  <1>3. \E f : ByOctet!IsFold(f, 0, p, 0) /\ it[DOMAIN p] = f[Len(p)]
    BY <1>1, ByOctet!IterFolds
  <1>. QED
    BY <1>2, <1>3

LEMMA NumberOfFour ==
    ASSUME NEW p \in Seq(Octet), Len(p) = 4
    PROVE  Number(p) = ((p[1] * 256 + p[2]) * 256 + p[3]) * 256 + p[4]
  <1>1. PICK f : ByOctet!IsFold(f, 0, p, 0) /\ Number(p) = f[Len(p)]
    BY NumberFolds, Zenon
  <1>2. f[0] = 0 /\ \A i \in 1..4 : f[i] = f[i - 1] * 256 + p[i]
    BY <1>1 DEF ByOctet!IsFold
  <1>3. p[1] \in Int /\ p[2] \in Int /\ p[3] \in Int /\ p[4] \in Int
    <2>1. \A i \in 1..Len(p) : p[i] \in Octet
      <3>1. \A S : \A q \in Seq(S) : \A i \in 1..Len(q) : q[i] \in S
        OBVIOUS
      <3>. QED
        BY <3>1, Zenon
    <2>2. 1 \in 1..Len(p) /\ 2 \in 1..Len(p) /\ 3 \in 1..Len(p) /\ 4 \in 1..Len(p)
      OBVIOUS
    <2>3. \A o \in Octet : o \in Int
      BY DEF Octet
    <2>. QED
      BY <2>1, <2>2, <2>3
  <1>4. f[1] = f[0] * 256 + p[1] /\ f[2] = f[1] * 256 + p[2]
        /\ f[3] = f[2] * 256 + p[3] /\ f[4] = f[3] * 256 + p[4]
    <2>1. 1 \in 1..4 /\ 2 \in 1..4 /\ 3 \in 1..4 /\ 4 \in 1..4
      OBVIOUS
    <2>2. 1 - 1 = 0 /\ 2 - 1 = 1 /\ 3 - 1 = 2 /\ 4 - 1 = 3
      OBVIOUS
    <2>3. f[1] = f[1 - 1] * 256 + p[1] /\ f[2] = f[2 - 1] * 256 + p[2]
          /\ f[3] = f[3 - 1] * 256 + p[3] /\ f[4] = f[4 - 1] * 256 + p[4]
      BY <1>2, <2>1
    <2>. QED
      BY <2>2, <2>3
  <1>5. f[1] = p[1]
    BY <1>2, <1>3, <1>4
  <1>. QED
    BY <1>1, <1>4, <1>5

LEMMA RemainderIs ==
    ASSUME NEW m \in Int, NEW q \in Int, 0 <= m - q * 256, m - q * 256 < 256, NEW v, v = m % 256
    PROVE  v + q * 256 = m
  OBVIOUS

LEMMA QuotientsOf ==
    ASSUME NEW n \in Nat, n < UlongLimit
    PROVE  LET a == n \div 256
               b == n \div 65536
               c == n \div 16777216
           IN  /\ a \in Int /\ b \in Int /\ c \in Int
               /\ 0 <= n - a * 256 /\ n - a * 256 < 256
               /\ 0 <= a - b * 256 /\ a - b * 256 < 256
               /\ 0 <= b - c * 256 /\ b - c * 256 < 256
               /\ 0 <= c /\ c < 256
  <1> DEFINE a == n \div 256
             b == n \div 65536
             c == n \div 16777216
  <1>1. a \in Int /\ 0 <= n - a * 256 /\ n - a * 256 < 256
    BY SMTT(30)
  <1>2. b \in Int /\ 0 <= n - b * 65536 /\ n - b * 65536 < 65536
    BY SMTT(30)
  <1>3. c \in Int /\ 0 <= n - c * 16777216 /\ n - c * 16777216 < 16777216
    BY SMTT(30) DEF UlongLimit
  <1> HIDE DEF a, b, c
  <1>4. 0 <= a - b * 256 /\ a - b * 256 < 256
    BY <1>1, <1>2, SMTT(30)
  <1>5. 0 <= b - c * 256 /\ b - c * 256 < 256
    BY <1>2, <1>3, SMTT(30)
  <1>6. 0 <= c /\ c < 256
    BY <1>3, SMTT(30) DEF UlongLimit
  <1>. QED
    BY <1>1, <1>2, <1>3, <1>4, <1>5, <1>6, SMTT(30) DEF a, b, c

LEMMA NumberOfPattern ==
    ASSUME NEW n \in Nat, n < UlongLimit
    PROVE  Number(Pattern(n, 4)) = n
  <1> DEFINE p == Pattern(n, 4)
             a == n \div 256
             b == n \div 65536
             c == n \div 16777216
  <1>1. p \in Seq(Octet) /\ Len(p) = 4
    BY PatternIsWord DEF AnyWord
  <1>2. p[1] = c % 256 /\ p[2] = b % 256 /\ p[3] = a % 256 /\ p[4] = n % 256
    <2>1. p[1] = c % 256 /\ p[2] = b % 256 /\ p[3] = a % 256 /\ p[4] = (n \div 1) % 256
      BY SMTT(30) DEF Pattern, Weight
    <2>2. n \div 1 = n
      OBVIOUS
    <2> HIDE DEF a, b, c, p
    <2>. QED
      BY <2>1, <2>2
  <1>3. /\ a \in Int /\ b \in Int /\ c \in Int
        /\ 0 <= n - a * 256 /\ n - a * 256 < 256
        /\ 0 <= a - b * 256 /\ a - b * 256 < 256
        /\ 0 <= b - c * 256 /\ b - c * 256 < 256
        /\ 0 <= c - 0 * 256 /\ c - 0 * 256 < 256
    <2>1. /\ a \in Int /\ b \in Int /\ c \in Int
          /\ 0 <= n - a * 256 /\ n - a * 256 < 256
          /\ 0 <= a - b * 256 /\ a - b * 256 < 256
          /\ 0 <= b - c * 256 /\ b - c * 256 < 256
          /\ 0 <= c /\ c < 256
      BY QuotientsOf, SMTT(30)
    <2> HIDE DEF a, b, c
    <2>. QED
      BY <2>1
  <1> HIDE DEF a, b, c, p
  <1>4. p[4] + a * 256 = n
    BY <1>2, <1>3, RemainderIs
  <1>5. p[3] + b * 256 = a
    BY <1>2, <1>3, RemainderIs
  <1>6. p[2] + c * 256 = b
    BY <1>2, <1>3, RemainderIs
  <1>7. p[1] + 0 * 256 = c
    BY <1>2, <1>3, RemainderIs
  <1>8. Number(p) = ((p[1] * 256 + p[2]) * 256 + p[3]) * 256 + p[4]
    BY <1>1, NumberOfFour
  <1>9. p[1] \in Int /\ p[2] \in Int /\ p[3] \in Int /\ p[4] \in Int
    BY <1>2, <1>3
  <1>10. Number(p) = n
    BY <1>3, <1>4, <1>5, <1>6, <1>7, <1>8, <1>9
  <1>. QED
    BY <1>10 DEF p

LEMMA InOrderTwice ==
    ASSUME NEW p \in Seq(Octet), NEW little \in BOOLEAN
    PROVE  InOrder(InOrder(p, little), little) = p
  <1>1. Reverse(p) \in Seq(Octet) /\ Len(Reverse(p)) = Len(p)
    BY InOrderKeeps, Zenon DEF InOrder
  <1> DEFINE m == Len(p)
  <1>2. /\ m \in Nat /\ \A i \in 1..m : (m - i) + 1 \in 1..m
        /\ \A i \in 1..m : (m - ((m - i) + 1)) + 1 = i
    <2>1. m \in Nat
      OBVIOUS
    <2> HIDE DEF m
    <2>. QED
      BY <2>1
  <1>3. \A i \in 1..Len(p) : Reverse(p)[i] = p[(Len(p) - i) + 1]
    BY DEF Reverse
  <1>4. \A i \in 1..Len(p) : Reverse(p)[(Len(p) - i) + 1] = p[i]
    BY <1>2, <1>3
  <1>5. Reverse(Reverse(p)) = [i \in 1..Len(p) |-> Reverse(p)[(Len(p) - i) + 1]]
    BY <1>1 DEF Reverse
  <1>6. Reverse(Reverse(p)) = [i \in 1..Len(p) |-> p[i]]
    BY <1>4, <1>5
  <1>7. p = [i \in 1..Len(p) |-> p[i]]
    OBVIOUS
  <1>. QED
    BY <1>6, <1>7 DEF InOrder
-----------------------------------------------------------------------------
(***************************************************************************)
(* The header of a message.                                                *)
(***************************************************************************)
\* What is read at the place of the size is the number that was put there.
LEMMA SizeIsRead ==
    ASSUME NEW w \in Seq(Octet), Len(w) >= 12, NEW little \in BOOLEAN,
           NEW n \in Nat, n < UlongLimit, w[7] = IF little THEN 1 ELSE 0,
           \A i \in 1..4 : w[8 + i] = InOrder(Pattern(n, 4), little)[i]
    PROVE  Number(InOrder(SubSeq(w, 9, 12), w[7] = 1)) = n
  <1> DEFINE p == Pattern(n, 4)
             q == InOrder(p, little)
             cut == SubSeq(w, 9, 12)
  <1>1. p \in Seq(Octet) /\ Len(p) = 4
    BY PatternIsWord DEF AnyWord
  <1>2. \A i \in 1..4 : w[8 + i] = q[i]
    OBVIOUS
  <1>3. Number(p) = n
    BY NumberOfPattern
  <1> HIDE DEF p
  <1>4. q \in Seq(Octet) /\ Len(q) = 4
    BY <1>1, InOrderKeeps
  <1>5. InOrder(q, little) = p
    BY <1>1, InOrderTwice
  <1> HIDE DEF q
  <1>6. cut \in Seq(Octet) /\ Len(cut) = 4 /\ \A i \in 1..4 : cut[i] = w[8 + i]
    <2> DEFINE from == 8
               k == 4
               x == SubSeq(w, from + 1, from + k)
    <2>1. from \in Nat /\ k \in Nat /\ from + k <= Len(w) /\ from + 1 = 9 /\ from + k = 12
      OBVIOUS
    <2> HIDE DEF from, k
    <2>2. x \in Seq(Octet) /\ Len(x) = k /\ \A i \in 1..k : x[i] = w[from + i]
      BY <2>1, CutOf
    <2>3. x = cut
      BY <2>1
    <2> HIDE DEF x, cut
    <2>. QED
      BY <2>2, <2>3 DEF from, k
  <1> HIDE DEF cut
  <1>7. cut = q
    <2>1. cut = [i \in 1..4 |-> cut[i]] /\ q = [i \in 1..4 |-> q[i]]
      BY <1>4, <1>6
    <2>2. \A i \in 1..4 : cut[i] = q[i]
      BY <1>2, <1>6, Zenon
    <2>. QED
      BY <2>1, <2>2
  <1>8. Number(InOrder(cut, little)) = n
    BY <1>3, <1>5, <1>7
  <1>9. Number(InOrder(cut, w[7] = 1)) = n
    <2> HIDE DEF q
    <2>1. CASE little
      <3>1. w[7] = 1
        BY <2>1
      <3>. QED
        BY <2>1, <3>1, <1>8 DEF InOrder
    <2>2. CASE ~little
      <3>1. ~(w[7] = 1)
        BY <2>2
      <3>. QED
        BY <2>2, <3>1, <1>8 DEF InOrder
    <2>. QED
      BY <2>1, <2>2
  <1>. QED
    BY <1>9 DEF cut

LEMMA Joined ==
    ASSUME NEW p \in Seq(Octet), NEW q \in Seq(Octet), NEW m, m = Len(p), NEW k, k = Len(q)
    PROVE  /\ p \o q \in Seq(Octet) /\ Len(p \o q) = m + k
           /\ \A i \in 1..m : (p \o q)[i] = p[i]
           /\ \A i \in 1..k : (p \o q)[m + i] = q[i]
  <1> DEFINE all == p \o q
  <1>1. m \in Nat /\ k \in Nat
    OBVIOUS
  <1>2. /\ all \in Seq(Octet) /\ Len(all) = m + k
        /\ \A j \in 1..m + k : all[j] = IF j <= m THEN p[j] ELSE q[j - m]
    BY <1>1, ConcatProperties
  <1> HIDE DEF all
  <1>3. \A i \in 1..m : all[i] = p[i]
    BY <1>1, <1>2
  <1>4. ASSUME NEW i \in 1..k
        PROVE  all[m + i] = q[i]
    <2> DEFINE j == m + i
    <2>1. j \in 1..m + k /\ ~(j <= m) /\ j - m = i
      BY <1>1
    <2> HIDE DEF j
    <2>2. all[j] = q[j - m]
      BY <1>2, <2>1
    <2>. QED
      BY <2>1, <2>2 DEF j
  <1>. QED
    BY <1>2, <1>3, <1>4 DEF all

\* The encoder g holds the header of a message of n octets.
Headed(g, n) ==
    /\ g \in Encoders
    /\ g.offset >= 12
    /\ g.bytes[7] = IF g.little THEN 1 ELSE 0
    /\ \A i \in 1..4 : g.bytes[8 + i] = InOrder(Pattern(n - 12, 4), g.little)[i]

LEMMA HeaderIsPut ==
    ASSUME NEW e \in Encoders, NEW minor \in Octet, NEW type \in Octet, e.offset >= 12
    PROVE  /\ Headed(SetGIOPHeader(e, minor, type), e.offset)
           /\ SetGIOPHeader(e, minor, type).offset = e.offset
  <1> DEFINE start == [e EXCEPT !.offset = 0]
             flag == IF e.little THEN 1 ELSE 0
             fixed == Magic \o <<1, minor, flag, type>>
             q == InOrder(Pattern(e.offset - 12, 4), e.little)
             head == fixed \o q
             put == Put(start, head)
             g == [put EXCEPT !.offset = e.offset]
  <1>1. /\ e.offset \in Nat /\ e.bytes \in Seq(Octet) /\ e.little \in BOOLEAN
        /\ e.offset <= Len(e.bytes) /\ Len(e.bytes) \in Nat
        /\ e \in [offset : Nat, bytes : Seq(Octet), sizeStack : Seq(StackEntry), little : BOOLEAN]
    BY DEF Encoders
  <1>2. /\ start \in Encoders /\ start.offset = 0 /\ start.bytes = e.bytes
        /\ start.little = e.little
    BY <1>1 DEF Encoders
  <1>3. q \in Seq(Octet) /\ Len(q) = 4
    <2> DEFINE p == Pattern(e.offset - 12, 4)
    <2>1. p \in Seq(Octet) /\ Len(p) = 4
      BY <1>1, PatternIsWord DEF AnyWord
    <2> HIDE DEF p
    <2>2. InOrder(p, e.little) \in Seq(Octet) /\ Len(InOrder(p, e.little)) = Len(p)
      BY <1>1, <2>1, InOrderKeeps
    <2>. QED
      BY <2>1, <2>2 DEF p
  <1>4. fixed \in Seq(Octet) /\ Len(fixed) = 8 /\ fixed[7] = flag
    <2>1. flag \in Octet
      BY DEF Octet
    <2> HIDE DEF flag
    <2>2. Magic \in Seq(Octet) /\ Len(Magic) = 4
      BY DEF Magic, Octet
    <2>3. 1 \in Octet
      BY DEF Octet
    <2> DEFINE rest == <<1, minor, flag, type>>
    <2>4. rest \in Seq(Octet) /\ Len(rest) = 4 /\ rest[3] = flag
      BY <2>1, <2>3
    <2> HIDE DEF rest
    <2> DEFINE both == Magic \o rest
               four == 4
               m == four
    <2>5. Magic \in Seq(Octet) /\ rest \in Seq(Octet) /\ m = Len(Magic) /\ four = Len(rest)
      BY <2>2, <2>4
    <2>6. 3 \in 1..four /\ m + 3 = 7 /\ m + four = 8
      OBVIOUS
    <2> HIDE DEF four, m
    <2>7. /\ both \in Seq(Octet) /\ Len(both) = m + four
          /\ \A i \in 1..four : both[m + i] = rest[i]
      BY <2>5, Joined
    <2> HIDE DEF both
    <2>8. both[7] = rest[3]
      BY <2>6, <2>7
    <2>. QED
      BY <2>4, <2>6, <2>7, <2>8 DEF both, rest
  <1>5. SetGIOPHeader(e, minor, type) = g
    BY DEF SetGIOPHeader
  <1> HIDE DEF q, fixed, start, flag
  <1>6. /\ head \in Seq(Octet) /\ Len(head) = 12 /\ head[7] = flag
        /\ \A i \in 1..4 : head[8 + i] = q[i]
    <2> DEFINE eight == 8
               four == 4
    <2>1. fixed \in Seq(Octet) /\ q \in Seq(Octet) /\ eight = Len(fixed) /\ four = Len(q)
      BY <1>3, <1>4
    <2>2. 7 \in 1..eight /\ eight + four = 12
      OBVIOUS
    <2> HIDE DEF eight, four
    <2>3. /\ head \in Seq(Octet) /\ Len(head) = eight + four
          /\ \A i \in 1..eight : head[i] = fixed[i]
          /\ \A i \in 1..four : head[eight + i] = q[i]
      BY <2>1, Joined
    <2> HIDE DEF head
    <2>4. head[7] = flag
      BY <1>4, <2>2, <2>3
    <2>. QED
      BY <2>2, <2>3, <2>4 DEF eight, four
  <1> HIDE DEF head
  <1>7. /\ put \in Later(start) /\ Len(put.bytes) = Len(e.bytes)
        /\ \A i \in 1..Len(e.bytes) :
              put.bytes[i] = IF i \in 0 + 1..0 + 12 THEN head[i - 0] ELSE start.bytes[i]
    <2>1. start.offset + Len(head) <= Len(start.bytes)
      BY <1>1, <1>2, <1>6
    <2>2. /\ put \in Later(start) /\ Len(put.bytes) = Len(start.bytes)
          /\ \A i \in 1..Len(start.bytes) :
                put.bytes[i] = IF i \in start.offset + 1..start.offset + Len(head)
                               THEN head[i - start.offset] ELSE start.bytes[i]
      BY <1>2, <1>6, <2>1, PutKeeps, Zenon
    <2> HIDE DEF put
    <2>. QED
      BY <1>2, <1>6, <2>2
  <1> HIDE DEF put
  <1>8. put \in Encoders /\ put.little = e.little
    BY <1>2, <1>7, LaterIsEncoder DEF Later, Beyond
  <1>9. /\ g \in Encoders /\ g.offset = e.offset /\ g.bytes = put.bytes /\ g.little = e.little
    BY <1>1, <1>7, <1>8, Zenon DEF Encoders
  <1>10. \A i \in 1..12 : put.bytes[i] = head[i]
    <2>1. \A i \in 1..12 : i \in 1..Len(e.bytes) /\ i \in 0 + 1..0 + 12 /\ i - 0 = i
      BY <1>1
    <2>. QED
      BY <1>7, <2>1
  <1>11. put.bytes[7] = flag /\ \A i \in 1..4 : put.bytes[8 + i] = q[i]
    <2>1. 7 \in 1..12 /\ \A i \in 1..4 : 8 + i \in 1..12
      OBVIOUS
    <2>. QED
      BY <1>6, <1>10, <2>1
  <1> HIDE DEF g
  <1>12. Headed(g, e.offset)
    BY <1>9, <1>11 DEF Headed, q, flag
  <1>. QED
    BY <1>5, <1>9, <1>12

LEMMA HeadedTellsLength ==
    ASSUME NEW n \in Nat, 12 <= n, n < UlongLimit, NEW g, Headed(g, n), n <= Len(g.bytes)
    PROVE  LET w == Slice(g, 0, n)
           IN  Number(InOrder(SubSeq(w, 9, 12), w[7] = 1)) = Len(w) - 12
  <1> DEFINE w == Slice(g, 0, n)
  <1>1. /\ g.bytes \in Seq(Octet) /\ g.little \in BOOLEAN
        /\ g.bytes[7] = IF g.little THEN 1 ELSE 0
        /\ \A i \in 1..4 : g.bytes[8 + i] = InOrder(Pattern(n - 12, 4), g.little)[i]
    BY DEF Headed, Encoders
  <1>2. w \in Seq(Octet) /\ Len(w) = n /\ \A i \in 1..n : w[i] = g.bytes[i]
    <2> DEFINE from == 0
               x == SubSeq(g.bytes, from + 1, from + n)
    <2>1. from \in Nat /\ from + n <= Len(g.bytes) /\ from + 1 = 1 /\ from + n = n
          /\ \A i \in 1..n : from + i = i
      OBVIOUS
    <2>2. w = SubSeq(g.bytes, 1, n)
      BY <1>1 DEF Slice
    <2> HIDE DEF from, w
    <2>3. x \in Seq(Octet) /\ Len(x) = n /\ \A i \in 1..n : x[i] = g.bytes[from + i]
      BY <1>1, <2>1, CutOf
    <2>4. x = w
      BY <2>1, <2>2
    <2> HIDE DEF x
    <2>. QED
      BY <2>1, <2>3, <2>4
  <1> HIDE DEF w
  <1>3. 7 \in 1..n /\ \A i \in 1..4 : 8 + i \in 1..n
    OBVIOUS
  <1>4. w[7] = IF g.little THEN 1 ELSE 0
    BY <1>1, <1>2, <1>3
  <1>5. \A i \in 1..4 : w[8 + i] = InOrder(Pattern(n - 12, 4), g.little)[i]
    BY <1>1, <1>2, <1>3, Zenon
  <1>6. n - 12 \in Nat /\ n - 12 < UlongLimit /\ Len(w) >= 12
    BY <1>2, SMTT(30) DEF UlongLimit
  <1> DEFINE k == n - 12
             little == g.little
  <1>7. Number(InOrder(SubSeq(w, 9, 12), w[7] = 1)) = k
    <2>1. /\ w \in Seq(Octet) /\ Len(w) >= 12 /\ little \in BOOLEAN /\ k \in Nat /\ k < UlongLimit
          /\ w[7] = (IF little THEN 1 ELSE 0)
          /\ \A i \in 1..4 : w[8 + i] = InOrder(Pattern(k, 4), little)[i]
      BY <1>1, <1>2, <1>4, <1>5, <1>6
    <2> HIDE DEF k, little
    <2>. QED
      BY <2>1, SizeIsRead
  <1>. QED
    BY <1>2, <1>7 DEF w

(***************************************************************************)
(* Once the header is set, the size the peer reads in it is the number of  *)
(* octets that follow it, whatever was put behind it and in either byte    *)
(* order (giop.ts:484-504 against giop.ts:1073-1091).                      *)
(***************************************************************************)
THEOREM MessageSize ==
    ASSUME NEW e \in Encoders, NEW minor \in Octet, NEW type \in Octet,
           12 <= e.offset, e.offset < UlongLimit
    PROVE  LET w == Slice(SetGIOPHeader(e, minor, type), 0, e.offset)
           IN  Number(InOrder(SubSeq(w, 9, 12), w[7] = 1)) = Len(w) - 12
  <1> DEFINE g == SetGIOPHeader(e, minor, type)
             n == e.offset
  <1>1. n \in Nat /\ n <= Len(e.bytes) /\ 12 <= n /\ n < UlongLimit
    BY DEF Encoders
  <1>2. Headed(g, n) /\ g.offset = n
    BY HeaderIsPut
  <1>3. n <= Len(g.bytes)
    BY <1>2 DEF Headed, Encoders
  <1> HIDE DEF g, n
  <1>4. LET w == Slice(g, 0, n)
        IN  Number(InOrder(SubSeq(w, 9, 12), w[7] = 1)) = Len(w) - 12
    BY <1>1, <1>2, <1>3, HeadedTellsLength
  <1>. QED
    BY <1>4 DEF g, n

\* The first number after the header begins behind the size.
LEMMA PutBehindSize ==
    ASSUME NEW e \in Encoders, 12 <= Len(e.bytes), NEW v \in Int
    PROVE  /\ [e EXCEPT !.offset = 12] \in Encoders
           /\ [e EXCEPT !.offset = 12].offset = 12 /\ [e EXCEPT !.offset = 12].bytes = e.bytes
           /\ [e EXCEPT !.offset = 12].little = e.little
           /\ PutUlong([e EXCEPT !.offset = 10], v) \in Later([e EXCEPT !.offset = 12])
           /\ PutUlong([e EXCEPT !.offset = 10], v) = PutUlong([e EXCEPT !.offset = 12], v)
  <1> DEFINE a == [e EXCEPT !.offset = 10]
             b == [e EXCEPT !.offset = 12]
             p == Pattern(v, 4)
  <1>1. b \in Encoders /\ b.offset = 12 /\ b.bytes = e.bytes /\ b.little = e.little
    BY DEF Encoders
  <1>2. PutUlong(b, v) \in Later(b)
    BY <1>1, UlongKeeps
  <1>3. Aligned(10, 4) = 12 /\ Aligned(12, 4) = 12
    BY DEF Aligned
  <1>4. e \in [offset : Nat, bytes : Seq(Octet), sizeStack : Seq(StackEntry), little : BOOLEAN]
    BY DEF Encoders
  <1>5. ReserveVarying(a, 4, 4) = ReserveVarying(b, 4, 4)
    BY <1>3, <1>4, Zenon DEF ReserveVarying
  <1>6. Len(p) = 4
    BY PatternIsWord
  <1> HIDE DEF p
  <1>7. PutNumber(a, p) = PutNumber(b, p)
    BY <1>4, <1>5, <1>6 DEF PutNumber, Reserve
  <1>8. PutUlong(a, v) = PutUlong(b, v)
    BY <1>7 DEF PutUlong, p
  <1>. QED
    BY <1>1, <1>2, <1>8

\* The header of a reply is put behind the header of the message.
LEMMA ReplyHeaderKeeps ==
    ASSUME NEW e \in Encoders, 12 <= Len(e.bytes), NEW S, NEW fields \in Seq(S), Len(fields) > 0,
           \A i \in 1..Len(fields) : fields[i].type = "ulong" /\ fields[i].v \in Int
    PROVE  PutFields(SkipGIOPHeader(e), fields) \in Later([e EXCEPT !.offset = 12])
  <1> DEFINE base == SkipGIOPHeader(e)
             b == [e EXCEPT !.offset = 12]
             it == CHOOSE h : ByField!IsIter(h, base, fields, 0)
             I == [i \in 0..Len(fields) |-> IF i = 0 THEN {base} ELSE Later(b)]
  <1>1. ByField!IsIter(it, base, fields, 0)
    BY ByField!IterExists, Zenon
  <1>2. PutFields(base, fields) = it[DOMAIN fields]
    BY DEF PutFields, ByField!IsIter, FoldLeft, MapThenFoldSet, ByField!Greatest, Max
  <1>3. b \in Encoders /\ \A v \in Int : PutUlong(base, v) \in Later(b)
    BY PutBehindSize DEF SkipGIOPHeader
  <1> HIDE DEF it, base, b
  <1>4. PICK f : ByField!IsFold(f, base, fields, 0) /\ it[DOMAIN fields] = f[Len(fields)]
    BY <1>1, ByField!IterFolds
  <1>5. ASSUME NEW i \in 1..Len(fields), NEW d
        PROVE  PutField(d, fields[i]) = PutUlong(d, fields[i].v)
    BY DEF PutField
  <1>6. /\ Len(fields) \in Nat /\ Len(fields) \in 0..Len(fields) /\ 0 \in 0..Len(fields)
        /\ \A i \in 1..Len(fields) : /\ i \in 0..Len(fields) /\ i # 0 /\ i - 1 \in 0..Len(fields)
                                     /\ i - 1 = 0 \/ i - 1 # 0
    OBVIOUS
  <1>7. I[0] = {base} /\ \A i \in 0..Len(fields) : i # 0 => I[i] = Later(b)
    BY <1>6
  <1> HIDE DEF I
  <1>8. ASSUME NEW i \in 1..Len(fields), NEW d \in I[i - 1]
        PROVE  PutField(d, fields[i]) \in I[i]
    <2>1. fields[i].v \in Int /\ I[i] = Later(b)
      BY <1>6, <1>7
    <2>2. CASE i - 1 = 0
      BY <1>3, <1>5, <1>7, <2>1, <2>2
    <2>3. CASE i - 1 # 0
      <3>1. d \in Later(b) /\ d \in Encoders
        BY <1>3, <1>6, <1>7, <2>3, LaterIsEncoder
      <3>2. PutUlong(d, fields[i].v) \in Later(b)
        BY <1>3, <2>1, <3>1, UlongKeeps, LaterIsLater, ZenonT(40)
      <3>. QED
        BY <1>5, <2>1, <3>2
    <2>. QED
      BY <2>2, <2>3
  <1>9. \A i \in 1..Len(fields) : \A d \in I[i - 1] : PutField(d, fields[i]) \in I[i]
    BY <1>8
  <1>10. base \in I[0]
    BY <1>7
  <1>11. \A i \in 0..Len(fields) : f[i] \in I[i]
    BY <1>4, <1>9, <1>10, ByField!FoldReaches
  <1>12. f[Len(fields)] \in Later(b)
    BY <1>6, <1>7, <1>11
  <1>. QED
    BY <1>2, <1>4, <1>12 DEF base, b

(***************************************************************************)
(* The header of a reply is put last, over the room that was left for it,  *)
(* and goes on from there: the size the message's header has is still the  *)
(* one of the whole message (orb.ts:563-567 and giop.ts:635-640).          *)
(***************************************************************************)
THEOREM ReplySize ==
    ASSUME NEW e \in Encoders, NEW minor \in Octet, NEW type \in Octet,
           12 <= e.offset, e.offset < UlongLimit, NEW id \in Int, NEW status \in Int
    PROVE  LET g == PutReply(SetGIOPHeader(e, minor, type), minor, id, status)
               w == Slice(g, 0, e.offset)
           IN  Number(InOrder(SubSeq(w, 9, 12), w[7] = 1)) = Len(w) - 12
  <1> DEFINE h == SetGIOPHeader(e, minor, type)
             b == [h EXCEPT !.offset = 12]
             g == PutReply(h, minor, id, status)
             n == e.offset
             fields == IF Early(minor)
                       THEN <<Field("ulong", 0), Field("ulong", id), Field("ulong", status)>>
                       ELSE <<Field("ulong", id), Field("ulong", status), Field("ulong", 0)>>
             S == {Field("ulong", v) : v \in Int}
  <1>1. n \in Nat /\ 12 <= n /\ n < UlongLimit
    BY DEF Encoders
  <1>2. Headed(h, n) /\ h.offset = n
    BY HeaderIsPut
  <1>3. h \in Encoders /\ n <= Len(h.bytes) /\ 12 <= Len(h.bytes)
    BY <1>1, <1>2 DEF Headed, Encoders
  <1>4. fields \in Seq(S) /\ Len(fields) = 3
    <2>1. Field("ulong", 0) \in S /\ Field("ulong", id) \in S /\ Field("ulong", status) \in S
      OBVIOUS
    <2>2. \A x \in S : \A y \in S : \A z \in S : <<x, y, z>> \in Seq(S) /\ Len(<<x, y, z>>) = 3
      <3> HIDE DEF S
      <3>. QED
        OBVIOUS
    <2> HIDE DEF S
    <2>. QED
      BY <2>1, <2>2
  <1>5. \A i \in 1..Len(fields) : fields[i].type = "ulong" /\ fields[i].v \in Int
    <2>1. \A i \in 1..Len(fields) : fields[i] \in S
      BY <1>4
    <2>2. \A f \in S : f.type = "ulong" /\ f.v \in Int
      BY DEF Field
    <2>. QED
      BY <2>1, <2>2
  <1>6. g = PutFields(SkipGIOPHeader(h), fields)
    BY DEF PutReply
  <1> HIDE DEF h, n, S, fields
  <1>7. g \in Later(b)
    <2>1. Len(fields) > 0
      BY <1>4
    <2>2. PutFields(SkipGIOPHeader(h), fields) \in Later([h EXCEPT !.offset = 12])
      BY <1>3, <1>4, <1>5, <2>1, ReplyHeaderKeeps, Zenon
    <2> HIDE DEF g
    <2>. QED
      BY <1>6, <2>2
  <1>8. b \in Encoders /\ b.offset = 12 /\ b.bytes = h.bytes /\ b.little = h.little
    BY <1>3, PutBehindSize, Zenon
  <1> HIDE DEF g, b
  <1>9. /\ g \in Encoders /\ g.offset >= 12 /\ g.little = h.little
        /\ Len(g.bytes) >= Len(h.bytes) /\ \A i \in 1..12 : g.bytes[i] = h.bytes[i]
    BY <1>7, <1>8, LaterIsEncoder DEF Later, Beyond
  <1>10. Headed(g, n)
    <2>1. 7 \in 1..12 /\ \A i \in 1..4 : 8 + i \in 1..12
      OBVIOUS
    <2>. QED
      BY <1>2, <1>9, <2>1 DEF Headed
  <1>11. n <= Len(g.bytes)
    BY <1>1, <1>3, <1>9 DEF Encoders
  <1>12. LET w == Slice(g, 0, n)
         IN  Number(InOrder(SubSeq(w, 9, 12), w[7] = 1)) = Len(w) - 12
    BY <1>1, <1>10, <1>11, HeadedTellsLength
  <1>. QED
    BY <1>12 DEF g, h, n
-----------------------------------------------------------------------------
\* A sequence without its last element.
LEMMA FrontAndLast ==
    ASSUME NEW S, NEW s \in Seq(S), Len(s) > 0
    PROVE  /\ Front(s) \in Seq(S) /\ Last(s) \in S
           /\ Len(Front(s)) = Len(s) - 1
           /\ s = Append(Front(s), Last(s))
           /\ \A i \in 1..Len(s) - 1 : Front(s)[i] = s[i]
  <1> DEFINE f == Front(s)
             l == Last(s)
  <1>1. Len(s) \in Nat /\ Len(s) - 1 \in Nat /\ \A i \in 1..Len(s) - 1 : i \in 1..Len(s)
    OBVIOUS
  <1>2. f \in Seq(S) /\ Len(f) = Len(s) - 1 /\ \A i \in 1..Len(s) - 1 : f[i] = s[i]
    <2> DEFINE n == Len(s) - 1
    <2>1. n \in Int /\ 1 \in Int /\ \A i \in 1..n : s[i] \in S
      BY <1>1
    <2>2. f = SubSeq(s, 1, n)
      BY DEF Front
    <2> HIDE DEF f, n
    <2>3. /\ f \in Seq(S) /\ Len(f) = IF 1 <= n THEN n - 1 + 1 ELSE 0
          /\ \A i \in 1..n - 1 + 1 : f[i] = s[1 + i - 1]
      BY <2>1, <2>2, SubSeqProperties
    <2>4. n \in Nat /\ n - 1 + 1 = n /\ \A i \in 1..n : 1 + i - 1 = i
      BY <1>1 DEF n
    <2>5. Len(f) = n /\ \A i \in 1..n : f[i] = s[i]
      BY <2>3, <2>4
    <2>. QED
      BY <2>3, <2>5 DEF n
  <1>3. l \in S /\ l = s[Len(s)]
    BY <1>1 DEF Last
  <1> HIDE DEF f, l
  <1>4. Append(f, l) \in Seq(S) /\ Len(Append(f, l)) = Len(s)
        /\ \A i \in 1..Len(s) : Append(f, l)[i] = s[i]
    BY <1>1, <1>2, <1>3
  <1>5. s = Append(f, l)
    BY <1>4
  <1>. QED
    BY <1>2, <1>3, <1>5 DEF f, l
-----------------------------------------------------------------------------
(***************************************************************************)
(* What the decoder returns where a number, a text or a sequence is.       *)
(***************************************************************************)
Closing == [nextOffset : Nat, endian : BOOLEAN]

Decoders ==
    [offset : Nat, bytes : Seq(Octet), little : BOOLEAN, encapStack : Seq(Closing),
     ok : {TRUE}, got : Seq(Seq(Octet))]

\* The octets are in the decoder's buffer behind an offset.
Shows(d, from, octets) ==
    /\ from + Len(octets) <= Len(d.bytes)
    /\ \A i \in 1..Len(octets) : d.bytes[from + i] = octets[i]

ShowsUlong(d, from, n) == Shows(d, from, InOrder(Pattern(n, 4), d.little))

\* The decoder d after it returned v and went on to an offset.
Advanced(d, offset, v) == [d EXCEPT !.offset = offset, !.got = Append(@, v)]

\* The decoder pads as the encoder does.
LEMMA PaddingAgrees ==
    ASSUME NEW offset \in Nat, NEW n \in AlignWidth
    PROVE  AlignedTo(offset, n) = Aligned(offset, n)
  <1>1. CASE n = 1
    BY <1>1 DEF AlignedTo, Aligned
  <1>2. CASE n = 2
    BY <1>2 DEF AlignedTo, Aligned
  <1>3. CASE n = 4
    BY <1>3 DEF AlignedTo, Aligned
  <1>4. CASE n = 8
    BY <1>4 DEF AlignedTo, Aligned
  <1>. QED
    BY <1>1, <1>2, <1>3, <1>4 DEF AlignWidth

\* What is shown is what is cut out.
LEMMA SliceShows ==
    ASSUME NEW d \in Decoders, NEW from \in Nat, NEW octets \in Seq(Octet),
           Shows(d, from, octets)
    PROVE  Slice(d, from, Len(octets)) = octets
  <1> DEFINE n == Len(octets)
             cut == SubSeq(d.bytes, from + 1, from + n)
  <1>1. /\ n \in Nat /\ d.bytes \in Seq(Octet) /\ from + n <= Len(d.bytes)
        /\ \A i \in 1..n : d.bytes[from + i] = octets[i]
    BY DEF Shows, Decoders
  <1>2. octets = [i \in 1..n |-> octets[i]]
    OBVIOUS
  <1>3. Slice(d, from, n) = cut
    <2> DEFINE last == IF from + n < Len(d.bytes) THEN from + n ELSE Len(d.bytes)
    <2>1. last = from + n
      BY <1>1
    <2>2. Slice(d, from, n) = SubSeq(d.bytes, from + 1, last)
      BY DEF Slice
    <2> HIDE DEF last
    <2>. QED
      BY <2>1, <2>2
  <1> HIDE DEF n
  <1>4. cut \in Seq(Octet) /\ Len(cut) = n /\ \A i \in 1..n : cut[i] = d.bytes[from + i]
    BY <1>1, CutOf
  <1> HIDE DEF cut
  <1>5. cut = [i \in 1..n |-> cut[i]]
    BY <1>4
  <1>6. cut = [i \in 1..n |-> octets[i]]
    BY <1>1, <1>4, <1>5, Zenon
  <1>. QED
    BY <1>2, <1>3, <1>6 DEF n

LEMMA NumberIsRead ==
    ASSUME NEW d \in Decoders, NEW p \in AnyWord,
           Shows(d, Aligned(d.offset, Len(p)), InOrder(p, d.little))
    PROVE  GetNumber(d, Len(p)) = Advanced(d, Aligned(d.offset, Len(p)) + Len(p), p)
  <1> DEFINE w == Len(p)
             at == Aligned(d.offset, w)
             q == InOrder(p, d.little)
  <1>1. w \in AlignWidth /\ p \in Seq(Octet) /\ d.little \in BOOLEAN /\ d.offset \in Nat
    BY DEF AnyWord, Decoders
  <1>2. q \in Seq(Octet) /\ Len(q) = w /\ InOrder(q, d.little) = p
    BY <1>1, InOrderKeeps, InOrderTwice
  <1>3. Shows(d, at, q)
    OBVIOUS
  <1>4. AlignedTo(d.offset, w) = at /\ at \in Nat
    BY <1>1, PaddingAgrees, AlignedUp, Zenon
  <1> HIDE DEF q, at, w
  <1>5. Slice(d, at, w) = q
    BY <1>2, <1>3, <1>4, SliceShows
  <1>6. ~(at + w > Len(d.bytes))
    <2>1. at + w <= Len(d.bytes)
      BY <1>2, <1>3 DEF Shows
    <2>2. w \in Nat /\ Len(d.bytes) \in Nat
      BY <1>1 DEF AlignWidth, Decoders
    <2>. QED
      BY <1>4, <2>1, <2>2
  <1>7. GetNumber(d, w) = Return([d EXCEPT !.offset = at + w], p)
    BY <1>2, <1>4, <1>5, <1>6 DEF GetNumber
  <1>. QED
    BY <1>7 DEF Return, Advanced, Decoders, w, at

LEMMA FrontOfAppended ==
    ASSUME NEW S, NEW s \in Seq(S), NEW v \in S
    PROVE  Front(Append(s, v)) = s /\ Last(Append(s, v)) = v
  <1>1. Len(Append(s, v)) = Len(s) + 1 /\ Append(s, v) \in Seq(S) /\ Len(s) \in Nat
    OBVIOUS
  <1>2. Last(Append(s, v)) = v
    BY <1>1 DEF Last
  <1> DEFINE t == Append(s, v)
             f == Front(t)
  <1>3. Len(t) > 0 /\ Len(t) - 1 = Len(s) /\ t \in Seq(S)
    BY <1>1
  <1>4. s = [i \in 1..Len(s) |-> s[i]] /\ \A i \in 1..Len(s) : t[i] = s[i]
    OBVIOUS
  <1> HIDE DEF t
  <1>5. f \in Seq(S) /\ Len(f) = Len(t) - 1 /\ \A i \in 1..Len(t) - 1 : f[i] = t[i]
    BY <1>3, FrontAndLast
  <1> HIDE DEF f
  <1>6. f = [i \in 1..Len(s) |-> f[i]]
    BY <1>3, <1>5
  <1>7. f = s
    BY <1>3, <1>4, <1>5, <1>6, Zenon
  <1>. QED
    BY <1>2, <1>7 DEF f, t

\* A decoder that is somewhere else.
LEMMA Elsewhere ==
    ASSUME NEW d \in Decoders, NEW offset \in Nat
    PROVE  LET c == [d EXCEPT !.offset = offset]
           IN  /\ c \in Decoders
               /\ c.offset = offset /\ c.bytes = d.bytes /\ c.little = d.little
               /\ c.encapStack = d.encapStack /\ c.ok /\ c.got = d.got
  BY Zenon DEF Decoders

LEMMA UlongIsRead ==
    ASSUME NEW d \in Decoders, NEW n \in Nat, n < UlongLimit,
           ShowsUlong(d, Aligned(d.offset, 4), n)
    PROVE  LET g == GetNumber(d, 4)
           IN  /\ g.ok
               /\ g = Advanced(d, Aligned(d.offset, 4) + 4, Pattern(n, 4))
               /\ [g EXCEPT !.got = Front(@)] = [d EXCEPT !.offset = Aligned(d.offset, 4) + 4]
               /\ Number(Value(g)) = n
  <1> DEFINE p == Pattern(n, 4)
             at == Aligned(d.offset, 4)
             g == GetNumber(d, 4)
  <1>1. p \in AnyWord /\ Len(p) = 4 /\ p \in Seq(Octet)
    BY PatternIsWord DEF AnyWord
  <1>2. Number(p) = n
    BY NumberOfPattern
  <1>3. Shows(d, at, InOrder(p, d.little))
    BY DEF ShowsUlong
  <1> HIDE DEF p
  <1>4. g = Advanced(d, at + 4, p)
    BY <1>1, <1>3, NumberIsRead, Zenon
  <1> HIDE DEF at
  <1>5. g.got = Append(d.got, p) /\ g.ok
    BY <1>4, Zenon DEF Advanced, Decoders
  <1>6. Front(g.got) = d.got /\ Last(g.got) = p
    <2>1. d.got \in Seq(Seq(Octet))
      BY DEF Decoders
    <2>2. Front(Append(d.got, p)) = d.got /\ Last(Append(d.got, p)) = p
      BY <1>1, <2>1, FrontOfAppended
    <2>. QED
      BY <1>5, <2>2, Zenon
  <1>7. [g EXCEPT !.got = Front(@)] = [d EXCEPT !.offset = at + 4]
    BY <1>4, <1>5, <1>6, Zenon DEF Advanced, Decoders
  <1> HIDE DEF g
  <1>. QED
    BY <1>2, <1>4, <1>5, <1>6, <1>7 DEF Value, p, at, g

LEMMA BlobIsRead ==
    ASSUME NEW d \in Decoders, NEW octets \in Seq(Octet), Len(octets) < UlongLimit,
           ShowsUlong(d, Aligned(d.offset, 4), Len(octets)),
           Shows(d, Aligned(d.offset, 4) + 4, octets)
    PROVE  GetBlob(d) = Advanced(d, Aligned(d.offset, 4) + 4 + Len(octets), octets)
  <1> DEFINE at == Aligned(d.offset, 4) + 4
             n == Len(octets)
             g == GetNumber(d, 4)
             c == [g EXCEPT !.got = Front(@)]
  <1>1. g.ok /\ c = [d EXCEPT !.offset = at] /\ Number(Value(g)) = n
    BY UlongIsRead
  <1>2. GetBlob(d) = Return([c EXCEPT !.offset = @ + n], Slice(c, c.offset, n))
    BY <1>1, Zenon DEF GetBlob, WithUlong, After
  <1>3. Aligned(d.offset, 4) \in Nat
    BY AlignedUp, Zenon DEF AlignWidth, Decoders
  <1>4. at \in Nat /\ Shows(d, at, octets)
    BY <1>3
  <1> HIDE DEF at, g, c
  <1>5. c \in Decoders /\ c.offset = at /\ c.bytes = d.bytes
    BY <1>1, <1>4, Elsewhere
  <1>6. Shows(c, at, octets)
    BY <1>4, <1>5 DEF Shows
  <1>7. Slice(c, c.offset, n) = octets
    BY <1>4, <1>5, <1>6, SliceShows
  <1>8. GetBlob(d) = Advanced(d, at + n, octets)
    BY <1>1, <1>2, <1>5, <1>7, Zenon DEF Return, Advanced, Decoders
  <1>. QED
    BY <1>8 DEF at

LEMMA StringIsRead ==
    ASSUME NEW d \in Decoders, NEW octets \in Seq(Octet), Len(octets) + 1 < UlongLimit,
           ShowsUlong(d, Aligned(d.offset, 4), Len(octets) + 1),
           Shows(d, Aligned(d.offset, 4) + 4, octets)
    PROVE  GetString(d) = Advanced(d, Aligned(d.offset, 4) + 4 + (Len(octets) + 1), octets)
  <1> DEFINE at == Aligned(d.offset, 4) + 4
             n == Len(octets) + 1
             g == GetNumber(d, 4)
             c == [g EXCEPT !.got = Front(@)]
  <1>0. n \in Nat /\ n - 1 = Len(octets)
    OBVIOUS
  <1>1. g.ok /\ c = [d EXCEPT !.offset = at] /\ Number(Value(g)) = n
    BY <1>0, UlongIsRead
  <1>2. GetString(d) = Return([c EXCEPT !.offset = @ + n], Slice(c, c.offset, n - 1))
    BY <1>1, Zenon DEF GetString, StringOf, WithUlong, After
  <1>3. Aligned(d.offset, 4) \in Nat
    BY AlignedUp, Zenon DEF AlignWidth, Decoders
  <1>4. at \in Nat /\ Shows(d, at, octets)
    BY <1>3
  <1> HIDE DEF at, g, c, n
  <1>5. c \in Decoders /\ c.offset = at /\ c.bytes = d.bytes
    BY <1>1, <1>4, Elsewhere
  <1>6. Shows(c, at, octets)
    BY <1>4, <1>5 DEF Shows
  <1>7. Slice(c, c.offset, n - 1) = octets
    BY <1>0, <1>4, <1>5, <1>6, SliceShows
  <1>8. GetString(d) = Advanced(d, at + n, octets)
    BY <1>1, <1>2, <1>5, <1>7, Zenon DEF Return, Advanced, Decoders
  <1>. QED
    BY <1>8 DEF at, n

LEMMA OctetsAreRead ==
    ASSUME NEW d \in Decoders, NEW octets \in Seq(Octet), Len(octets) < UlongLimit,
           ShowsUlong(d, Aligned(d.offset, 4), Len(octets)),
           Shows(d, Aligned(d.offset, 4) + 4, octets)
    PROVE  GetSequenceOctet(d) = Advanced(d, Aligned(d.offset, 4) + 4 + Len(octets), octets)
  <1> DEFINE at == Aligned(d.offset, 4) + 4
             n == Len(octets)
             g == GetNumber(d, 4)
             c == [g EXCEPT !.got = Front(@)]
             k == Number(Value(g))
  <1>1. g.ok /\ c = [d EXCEPT !.offset = at] /\ k = n
    BY UlongIsRead
  <1>2. g.ok => GetSequenceOctet(d)
                    = IF c.offset + k > Len(c.bytes) THEN Throw(c)
                      ELSE Return([c EXCEPT !.offset = @ + k], Slice(c, c.offset, k))
    BY DEF GetSequenceOctet, WithUlong, After
  <1>3. Aligned(d.offset, 4) \in Nat
    BY AlignedUp, Zenon DEF AlignWidth, Decoders
  <1>4. at \in Nat /\ Shows(d, at, octets)
    BY <1>3
  <1> HIDE DEF at, g, c, k
  <1>5. c \in Decoders /\ c.offset = at /\ c.bytes = d.bytes
    BY <1>1, <1>4, Elsewhere
  <1>6. Shows(c, at, octets)
    BY <1>4, <1>5 DEF Shows
  <1>7. Slice(c, c.offset, n) = octets
    BY <1>4, <1>5, <1>6, SliceShows
  <1>8. ~(c.offset + n > Len(c.bytes))
    <2>1. c.offset + n <= Len(c.bytes) /\ n \in Nat /\ Len(c.bytes) \in Nat
      BY <1>5, <1>6 DEF Shows, Decoders
    <2>. QED
      BY <1>4, <1>5, <2>1
  <1>9. GetSequenceOctet(d) = Advanced(d, at + n, octets)
    BY <1>1, <1>2, <1>5, <1>7, <1>8, Zenon DEF Return, Advanced, Decoders
  <1>. QED
    BY <1>9 DEF at

\* The octets of the words are shown one word after the other.
LEMMA ElementsAreShown ==
    ASSUME NEW d \in Decoders, NEW at \in Nat, NEW w \in {4, 8}, NEW vs \in Seq(Word(w)),
           Shows(d, at, Elements(vs, d.little))
    PROVE  /\ at + Len(vs) * w <= Len(d.bytes)
           /\ \A m \in 1..Len(vs) : Shows(d, at + (m - 1) * w, InOrder(vs[m], d.little))
  <1> DEFINE all == Elements(vs, d.little)
             n == Len(vs)
  <1>1. n \in Nat /\ d.little \in BOOLEAN /\ w \in Nat /\ Len(d.bytes) \in Nat
        /\ \A m \in 1..n : vs[m] \in Word(w)
    BY DEF Decoders
  <1>2. /\ all \in Seq(Octet) /\ Len(all) = n * w
        /\ \A m \in 1..n : \A j \in 1..w : all[Place(m, j, w)] = InOrder(vs[m], d.little)[j]
    BY <1>1, ElementsAreOctets, Zenon DEF OctetsOf
  <1> HIDE DEF n, all
  <1>3. at + n * w <= Len(d.bytes) /\ \A i \in 1..n * w : d.bytes[at + i] = all[i]
    BY <1>2 DEF Shows, all
  <1>4. ASSUME NEW m \in 1..n
        PROVE  Shows(d, at + (m - 1) * w, InOrder(vs[m], d.little))
    <2> DEFINE q == InOrder(vs[m], d.little)
               k == (m - 1) * w
    <2>1. q \in Seq(Octet) /\ Len(q) = w
      BY <1>1, InOrderKeeps DEF Word
    <2>2. k \in Nat /\ k + w <= n * w
      <3>1. CASE w = 4
        BY <1>1, <3>1
      <3>2. CASE w = 8
        BY <1>1, <3>2
      <3>. QED
        BY <3>1, <3>2
    <2>3. \A j \in 1..w : Place(m, j, w) = k + j
      BY DEF Place
    <2>4. \A j \in 1..w : all[k + j] = q[j]
      BY <1>2, <2>3
    <2> HIDE DEF k, q
    <2> DEFINE size == n * w
    <2>5. size \in Nat
      BY <1>1
    <2>6. at + size <= Len(d.bytes) /\ k + w <= size /\ \A i \in 1..size : d.bytes[at + i] = all[i]
      BY <1>3, <2>2
    <2> HIDE DEF size
    <2>7. ASSUME NEW j \in 1..w
          PROVE  d.bytes[at + k + j] = q[j]
      <3>1. k + j \in 1..size /\ at + (k + j) = at + k + j
        BY <1>1, <2>2, <2>5, <2>6
      <3>. QED
        BY <2>4, <2>6, <3>1
    <2>8. at + k + w <= Len(d.bytes)
      BY <1>1, <2>2, <2>5, <2>6
    <2>. QED
      BY <2>1, <2>7, <2>8 DEF Shows, k, q
  <1>. QED
    BY <1>3, <1>4 DEF n

LEMMA ElementsAreRead ==
    ASSUME NEW d \in Decoders, NEW w \in {4, 8}, NEW vs \in Seq(Word(w)), NEW platformLittle,
           d.offset % w = 0, Shows(d, d.offset, Elements(vs, d.little))
    PROVE  GetElements(d, Len(vs), w, platformLittle)
               = Advanced(d, d.offset + Len(vs) * w, vs)
  <1> DEFINE n == Len(vs)
  <1>1. n \in Nat /\ d.little \in BOOLEAN /\ w \in Nat /\ Len(d.bytes) \in Nat /\ d.offset \in Nat
        /\ \A m \in 1..n : vs[m] \in Word(w)
    BY DEF Decoders
  <1>2. /\ d.offset + n * w <= Len(d.bytes)
        /\ \A m \in 1..n : Shows(d, d.offset + (m - 1) * w, InOrder(vs[m], d.little))
    BY <1>1, ElementsAreShown, Zenon
  <1>3. vs = [m \in 1..n |-> vs[m]]
    OBVIOUS
  <1>4. ASSUME NEW m \in 1..n
        PROVE  InOrder(Slice(d, d.offset + (m - 1) * w, w), d.little) = vs[m]
    <2> DEFINE q == InOrder(vs[m], d.little)
               at == d.offset + (m - 1) * w
    <2>1. q \in Seq(Octet) /\ Len(q) = w /\ InOrder(q, d.little) = vs[m]
      BY <1>1, InOrderKeeps, InOrderTwice DEF Word
    <2>2. at \in Nat
      <3>1. (m - 1) * w \in Nat
        <4>1. CASE w = 4
          BY <1>1, <4>1
        <4>2. CASE w = 8
          BY <1>1, <4>2
        <4>. QED
          BY <4>1, <4>2
      <3>. QED
        BY <1>1, <3>1
    <2>3. Shows(d, at, q)
      BY <1>2
    <2> HIDE DEF q, at
    <2>4. Slice(d, at, w) = q
      BY <2>1, <2>2, <2>3, SliceShows
    <2>. QED
      BY <2>1, <2>4 DEF at
  <1>5. [m \in 1..n |-> InOrder(Slice(d, d.offset + (m - 1) * w, w), d.little)] = vs
    BY <1>3, <1>4
  <1>6. ~(d.offset + n * w > Len(d.bytes))
    <2> DEFINE size == n * w
    <2>1. size \in Nat /\ d.offset + size <= Len(d.bytes)
      BY <1>1, <1>2
    <2> HIDE DEF size
    <2>2. ~(d.offset + size > Len(d.bytes))
      BY <1>1, <2>1
    <2>. QED
      BY <2>2 DEF size
  <1> HIDE DEF n
  <1>7. GetElements(d, n, w, platformLittle) = Return([d EXCEPT !.offset = @ + n * w], vs)
    BY <1>5, <1>6, Zenon DEF GetElements
  <1>. QED
    BY <1>7 DEF Return, Advanced, Decoders, n

\* A typed array is at the next multiple of its width.
LEMMA ArrayIsRead ==
    ASSUME NEW d \in Decoders, NEW w \in {4, 8}, NEW vs \in Seq(Word(w)), NEW platformLittle,
           Len(vs) < UlongLimit,
           ShowsUlong(d, Aligned(d.offset, 4), Len(vs)),
           Shows(d, Aligned(Aligned(d.offset, 4) + 4, w), Elements(vs, d.little))
    PROVE  LET end == Aligned(Aligned(d.offset, 4) + 4, w) + w * Len(vs)
           IN  /\ w = 4 => GetSequenceFloat(d, platformLittle) = Advanced(d, end, vs)
               /\ w = 8 => GetSequenceDouble(d, platformLittle) = Advanced(d, end, vs)
  <1> DEFINE start == Aligned(d.offset, 4) + 4
             at == Aligned(start, w)
             n == Len(vs)
             g == GetNumber(d, 4)
             c == [g EXCEPT !.got = Front(@)]
             k == Number(Value(g))
             a == [d EXCEPT !.offset = at]
  <1>1. g.ok /\ c = [d EXCEPT !.offset = start] /\ k = n
    BY UlongIsRead
  <1>2. /\ g.ok => GetSequenceFloat(d, platformLittle) = GetElements(c, k, 4, platformLittle)
        /\ g.ok => GetSequenceDouble(d, platformLittle)
                       = GetElements(Align(c, 8), k, 8, platformLittle)
    BY DEF GetSequenceFloat, GetSequenceDouble, WithUlong, After
  <1>3. start \in Nat /\ start % 4 = 0
    <2> DEFINE before == Aligned(d.offset, 4)
    <2>1. before \in Nat /\ before % 4 = 0
      BY AlignedUp, Zenon DEF AlignWidth, Decoders
    <2> HIDE DEF before
    <2>2. before + 4 \in Nat /\ (before + 4) % 4 = 0
      BY <2>1
    <2>. QED
      BY <2>2 DEF before
  <1>4. Shows(d, at, Elements(vs, d.little))
    OBVIOUS
  <1> HIDE DEF start, g, c, k
  <1>5. w \in AlignWidth /\ w \in Nat /\ n \in Nat
    BY DEF AlignWidth
  <1>6. at \in Nat /\ at % w = 0
    BY <1>3, <1>5, AlignedUp, Zenon
  <1>7. w = 4 => at = start
    BY <1>3 DEF Aligned
  <1>8. w = 8 => AlignedTo(start, 8) = at
    BY <1>3, <1>5, PaddingAgrees
  <1>9. c \in Decoders /\ c.offset = start
    BY <1>1, <1>3, Elsewhere
  <1> HIDE DEF at
  <1>10. (w = 4 => c = a) /\ (w = 8 => Align(c, 8) = a)
    BY <1>1, <1>7, <1>8, <1>9, Zenon DEF Align, Decoders
  <1>11. a \in Decoders /\ a.offset = at /\ a.bytes = d.bytes /\ a.little = d.little
    BY <1>6, Elsewhere
  <1>12. Shows(a, a.offset, Elements(vs, a.little))
    BY <1>4, <1>11 DEF Shows
  <1>13. a.offset % w = 0
    BY <1>6, <1>11
  <1>14. GetElements(a, n, w, platformLittle) = Advanced(a, at + n * w, vs)
    <2> HIDE DEF a
    <2>1. GetElements(a, n, w, platformLittle) = Advanced(a, a.offset + n * w, vs)
      BY <1>11, <1>12, <1>13, ElementsAreRead, SMTT(30)
    <2>. QED
      BY <1>11, <2>1
  <1>15. Advanced(a, at + n * w, vs) = Advanced(d, at + w * n, vs)
    <2> DEFINE end == at + n * w
    <2>1. end = at + w * n
      BY <1>5
    <2>2. Advanced(a, end, vs) = Advanced(d, end, vs)
      <3> HIDE DEF end
      <3>. QED
        BY Zenon DEF Advanced, Decoders
    <2>. QED
      BY <2>1, <2>2
  <1> HIDE DEF a, n
  <1>16. w = 4 => GetSequenceFloat(d, platformLittle) = Advanced(d, at + w * n, vs)
    BY <1>1, <1>2, <1>10, <1>14, <1>15
  <1>17. w = 8 => GetSequenceDouble(d, platformLittle) = Advanced(d, at + w * n, vs)
    BY <1>1, <1>2, <1>10, <1>14, <1>15
  <1>. QED
    BY <1>16, <1>17 DEF at, start, n

\* The decoder's buffer is the encoder's behind an offset, as far as it was written.
Agrees(d, from, e) ==
    /\ e.offset <= Len(d.bytes)
    /\ \A i \in from + 1..e.offset : d.bytes[i] = e.bytes[i]

LEMMA AgreeingShows ==
    ASSUME NEW d \in Decoders, NEW e \in Encoders, NEW from \in Nat, Agrees(d, from, e),
           NEW at \in Nat, at >= from, NEW octets \in Seq(Octet), at + Len(octets) <= e.offset,
           \A i \in 1..Len(octets) : e.bytes[at + i] = octets[i]
    PROVE  Shows(d, at, octets)
  <1> DEFINE n == Len(octets)
  <1>1. n \in Nat /\ e.offset \in Nat /\ Len(d.bytes) \in Nat /\ e.offset <= Len(d.bytes)
    BY DEF Encoders, Decoders, Agrees
  <1>2. at + n <= Len(d.bytes)
    BY <1>1
  <1>3. ASSUME NEW i \in 1..n
        PROVE  d.bytes[at + i] = octets[i]
    <2> DEFINE j == at + i
    <2>1. j \in from + 1..e.offset
      BY <1>1
    <2>2. e.bytes[j] = octets[i]
      OBVIOUS
    <2> HIDE DEF j
    <2>3. d.bytes[j] = e.bytes[j]
      BY <2>1 DEF Agrees
    <2>. QED
      BY <2>2, <2>3 DEF j
  <1>. QED
    BY <1>2, <1>3 DEF Shows

\* The size of a text or a sequence is the first thing that was written of it.
LEMMA AgreeingShowsUlong ==
    ASSUME NEW d \in Decoders, NEW e \in Encoders, Agrees(d, d.offset, e), NEW n \in Int,
           Aligned(d.offset, 4) + 4 <= e.offset,
           \A i \in 1..4 : e.bytes[Aligned(d.offset, 4) + i] = InOrder(Pattern(n, 4), d.little)[i]
    PROVE  ShowsUlong(d, Aligned(d.offset, 4), n)
  <1> DEFINE q == InOrder(Pattern(n, 4), d.little)
             at == Aligned(d.offset, 4)
  <1>1. q \in Seq(Octet) /\ Len(q) = 4
    <2>1. Pattern(n, 4) \in Seq(Octet) /\ Len(Pattern(n, 4)) = 4
      BY PatternIsWord DEF AnyWord
    <2>2. d.little \in BOOLEAN
      BY DEF Decoders
    <2>. QED
      BY <2>1, <2>2, InOrderKeeps
  <1>2. at \in Nat /\ at >= d.offset /\ d.offset \in Nat
    BY AlignedUp DEF AlignWidth, Decoders
  <1>3. at + 4 <= e.offset /\ \A i \in 1..4 : e.bytes[at + i] = q[i]
    OBVIOUS
  <1> HIDE DEF at, q
  <1>4. Shows(d, at, q)
    BY <1>1, <1>2, <1>3, AgreeingShows, Zenon
  <1>. QED
    BY <1>4 DEF ShowsUlong, at, q

\* What was written before is still there, and so is what is read.
LEMMA AgreesEarlier ==
    ASSUME NEW d \in Decoders, NEW from \in Nat, NEW e \in Encoders, NEW l \in Later(e),
           Agrees(d, from, l)
    PROVE  Agrees(d, from, e)
  <1>1. e.offset \in Nat /\ l.offset \in Nat /\ l.offset >= e.offset /\ Len(d.bytes) \in Nat
        /\ \A i \in 1..e.offset : l.bytes[i] = e.bytes[i]
    BY DEF Later, Beyond, Encoders, Decoders
  <1>2. \A i \in from + 1..e.offset : i \in from + 1..l.offset /\ i \in 1..e.offset
    BY <1>1
  <1>. QED
    BY <1>1, <1>2 DEF Agrees

\* What PutSequence() wrote after each of the elements is before its end.
LEMMA SequenceGrows ==
    ASSUME NEW e \in Encoders, NEW vs \in Seq(AnyWord), NEW f,
           ByNumber!IsFold(f, PutUlong(e, Len(vs)), vs, 0)
    PROVE  \A i \in 0..Len(vs) : f[i] \in Encoders /\ f[i] \in Later(e) /\ f[Len(vs)] \in Later(f[i])
  <1> DEFINE n == Len(vs)
             base == PutUlong(e, n)
  <1>1. n \in Nat /\ \A i \in 1..n : vs[i] \in AnyWord
    OBVIOUS
  <1>2. base \in Later(e)
    BY <1>1, UlongKeeps
  <1>3. ByNumber!IsFold(f, base, vs, 0)
    OBVIOUS
  <1> HIDE DEF base
  <1>4. \A d \in Later(e) : \A i \in 1..n : PutNumber(d, vs[i]) \in Later(e)
    BY <1>1, LaterIsEncoder, NumberKeeps, LaterIsLater, Zenon
  <1>5. \A i \in 0..n : f[i] \in Later(e)
    BY <1>2, <1>3, <1>4, ByNumber!FoldKeeps, Zenon
  <1>6. \A i \in 0..n : f[i] \in Encoders
    BY <1>5, LaterIsEncoder
  <1>7. \A i \in 1..n : f[i] = PutNumber(f[i - 1], vs[i])
    BY <1>3 DEF ByNumber!IsFold
  <1> DEFINE T == {k \in Nat : k <= n => f[n] \in Later(f[n - k])}
  <1>8. 0 \in T
    <2>1. f[n] \in Encoders /\ n - 0 = n
      BY <1>1, <1>6
    <2>. QED
      BY <2>1, NowIsLater
  <1>9. ASSUME NEW k \in Nat, k \in T
        PROVE  k + 1 \in T
    <2> SUFFICES ASSUME k + 1 <= n
                 PROVE  f[n] \in Later(f[n - (k + 1)])
      OBVIOUS
    <2> DEFINE i == n - k
    <2>1. i \in 1..n /\ i - 1 = n - (k + 1) /\ i - 1 \in 0..n /\ i \in 0..n /\ k <= n
      BY <1>1
    <2>2. f[n] \in Later(f[i])
      BY <1>9, <2>1
    <2> HIDE DEF i
    <2>3. f[i] \in Later(f[i - 1])
      BY <1>1, <1>6, <1>7, <2>1, NumberKeeps
    <2>4. f[n] \in Later(f[i - 1])
      BY <1>6, <2>1, <2>2, <2>3, LaterIsLater
    <2>. QED
      BY <2>1, <2>4
  <1>10. \A k \in Nat : k \in T
    <2> HIDE DEF T
    <2>. QED
      BY <1>8, <1>9, ByNumber!Induct
  <1>11. ASSUME NEW i \in 0..n
         PROVE  f[n] \in Later(f[i])
    <2> DEFINE k == n - i
    <2>1. k \in Nat /\ k <= n /\ n - k = i
      BY <1>1
    <2> HIDE DEF k
    <2>2. f[n] \in Later(f[n - k])
      BY <1>10, <2>1
    <2>. QED
      BY <2>1, <2>2
  <1>. QED
    BY <1>5, <1>6, <1>11

\* The decoder after it read the first i elements.
Elementwise(d, f, vs, i) ==
    [d EXCEPT !.offset = f[i].offset, !.got = [m \in 1..i |-> vs[m]]]

\* One more element is read.
LEMMA ElementIsRead ==
    ASSUME NEW e \in Encoders, NEW w \in AlignWidth, NEW vs \in Seq(Word(w)), NEW f,
           ByNumber!IsFold(f, PutUlong(e, Len(vs)), vs, 0),
           NEW d \in Decoders, d.little = e.little, Agrees(d, e.offset, f[Len(vs)]),
           NEW i \in 1..Len(vs)
    PROVE  GetNumber(Elementwise(d, f, vs, i - 1), w) = Elementwise(d, f, vs, i)
  <1> DEFINE n == Len(vs)
             c == Elementwise(d, f, vs, i - 1)
             at == Aligned(f[i - 1].offset, w)
             got == [m \in 1..i - 1 |-> vs[m]]
             p == vs[i]
             q == InOrder(p, d.little)
  <1>1. vs \in Seq(AnyWord) /\ n \in Nat /\ i - 1 \in 0..n /\ i \in 0..n
    BY DEF Word, AnyWord
  <1>2. \A m \in 1..n : vs[m] \in AnyWord /\ vs[m] \in Seq(Octet) /\ Len(vs[m]) = w
    BY DEF Word, AnyWord
  <1>3. /\ f[i - 1] \in Encoders /\ f[i] \in Encoders /\ f[i - 1] \in Later(e)
        /\ f[n] \in Later(f[i])
    BY <1>1, SequenceGrows
  <1>4. f[i] = PutNumber(f[i - 1], p)
    BY DEF ByNumber!IsFold
  <1>5. p \in AnyWord /\ Len(p) = w /\ p \in Seq(Octet)
    BY <1>2
  <1>6. e.offset \in Nat /\ f[i - 1].offset \in Nat /\ e.offset <= f[i - 1].offset
        /\ f[i - 1].little = d.little /\ d.little \in BOOLEAN
    BY <1>3, Zenon DEF Encoders, Later, Beyond, Decoders
  <1>7. q \in Seq(Octet) /\ Len(q) = w
    BY <1>5, <1>6, InOrderKeeps
  <1>8. at \in Nat /\ at >= f[i - 1].offset
    BY <1>6, AlignedUp, Zenon
  <1>9. f[i].offset = at + w /\ \A j \in 1..w : f[i].bytes[at + j] = q[j]
    BY <1>3, <1>4, <1>5, <1>6, NumberKeeps
  <1>10. Agrees(d, e.offset, f[i])
    BY <1>3, <1>6, AgreesEarlier
  <1> HIDE DEF at, q
  <1>11. Shows(d, at, q)
    <2>1. at >= e.offset /\ at + Len(q) <= f[i].offset
      BY <1>6, <1>7, <1>8, <1>9 DEF AlignWidth
    <2>. QED
      BY <1>3, <1>6, <1>7, <1>8, <1>9, <1>10, <2>1, AgreeingShows, Zenon
  <1>12. got \in Seq(Seq(Octet)) /\ Append(got, p) = [m \in 1..i |-> vs[m]]
    <2>1. \A m \in 1..i - 1 : vs[m] \in Seq(Octet)
      BY <1>1, <1>2
    <2>2. i - 1 \in Nat /\ i - 1 + 1 = i
      OBVIOUS
    <2>3. got \in Seq(Seq(Octet)) /\ Len(got) = i - 1
      BY <2>1, <2>2
    <2>4. Append(got, p) = [m \in 1..i |-> IF m = i THEN p ELSE got[m]]
      BY <2>2, <2>3
    <2>5. \A m \in 1..i : (IF m = i THEN p ELSE got[m]) = vs[m]
      BY <2>2
    <2>. QED
      BY <2>3, <2>4, <2>5
  <1> HIDE DEF got, p
  <1>13. c = [d EXCEPT !.offset = f[i - 1].offset, !.got = got]
    BY DEF Elementwise, got
  <1> HIDE DEF c
  <1>14. c \in Decoders /\ c.offset = f[i - 1].offset /\ c.bytes = d.bytes /\ c.little = d.little
         /\ c.got = got
    BY <1>6, <1>12, <1>13, Zenon DEF Decoders
  <1>15. Shows(c, Aligned(c.offset, Len(p)), InOrder(p, c.little))
    BY <1>5, <1>11, <1>14 DEF Shows, at, q
  <1>16. GetNumber(c, w) = Advanced(c, at + w, p)
    <2>1. GetNumber(c, Len(p)) = Advanced(c, Aligned(c.offset, Len(p)) + Len(p), p)
      BY <1>5, <1>14, <1>15, NumberIsRead
    <2>. QED
      BY <1>5, <1>14, <2>1 DEF at
  <1>17. Advanced(c, at + w, p) = [d EXCEPT !.offset = f[i].offset, !.got = Append(got, p)]
    BY <1>9, <1>13, Zenon DEF Advanced, Decoders
  <1>. QED
    BY <1>12, <1>16, <1>17 DEF Elementwise, c

\* The loop of the decoder's sequence(): the decoder after each of the elements.
LEMMA ReadIsFold ==
    ASSUME NEW d \in Decoders, NEW w \in AlignWidth, NEW n \in Nat, GetNumber(d, 4).ok,
           Number(Value(GetNumber(d, 4))) = n
    PROVE  LET c == [GetNumber(d, 4) EXCEPT !.got = Front(@)]
               count == [i \in 1..n |-> i]
           IN  \E h : /\ ByRead!IsFold(h, [c EXCEPT !.got = <<>>], count, w)
                      /\ GetSequence(d, w) = Together(c, h[n])
  <1> DEFINE g == GetNumber(d, 4)
             c == [g EXCEPT !.got = Front(@)]
             k == Number(Value(g))
             count == [i \in 1..k |-> i]
             base == [c EXCEPT !.got = <<>>]
             it == CHOOSE h : ByRead!IsIter(h, base, count, w)
  <1>1. count \in Seq(Nat) /\ Len(count) = n
    OBVIOUS
  <1>2. ByRead!IsIter(it, base, count, w)
    <2> HIDE DEF base, count
    <2>. QED
      BY <1>1, ByRead!IterExists, Zenon
  <1>3. GetSequence(d, w) = Together(c, it[DOMAIN count])
    BY DEF GetSequence, WithUlong, After, ByRead!IsIter, FoldLeft, MapThenFoldSet, ByRead!Greatest, Max
  <1> HIDE DEF it, base, c, count
  <1>4. PICK h : ByRead!IsFold(h, base, count, w) /\ it[DOMAIN count] = h[Len(count)]
    BY <1>1, <1>2, ByRead!IterFolds
  <1>5. GetSequence(d, w) = Together(c, h[n])
    BY <1>1, <1>3, <1>4
  <1>6. k = n
    OBVIOUS
  <1> HIDE DEF k, g
  <1>7. count = [i \in 1..n |-> i]
    BY <1>6 DEF count
  <1>. QED
    BY <1>4, <1>5, <1>7, Zenon DEF base, c, g

LEMMA SequenceIsRead ==
    ASSUME NEW e \in Encoders, NEW w \in AlignWidth, NEW vs \in Seq(Word(w)),
           Len(vs) < UlongLimit,
           NEW d \in Decoders, d.offset = e.offset, d.little = e.little,
           Agrees(d, e.offset, PutSequence(e, vs))
    PROVE  GetSequence(d, w) = Advanced(d, PutSequence(e, vs).offset, vs)
  <1> DEFINE n == Len(vs)
             base == PutUlong(e, n)
             at == Aligned(d.offset, 4)
             g == GetNumber(d, 4)
             c == [g EXCEPT !.got = Front(@)]
  <1>1. vs \in Seq(AnyWord) /\ n \in Nat /\ n \in Int
    BY DEF Word, AnyWord
  <1>2. PICK f : ByNumber!IsFold(f, base, vs, 0) /\ PutSequence(e, vs) = f[n]
    BY <1>1, SequenceIsFold
  <1>3. \A i \in 0..n : f[i] \in Encoders /\ f[i] \in Later(e) /\ f[n] \in Later(f[i])
    BY <1>1, <1>2, SequenceGrows
  <1>4. f[0] = base /\ 0 \in 0..n /\ n \in 0..n
    BY <1>1, <1>2 DEF ByNumber!IsFold
  <1>5. base \in Encoders /\ f[n] \in Later(base) /\ Agrees(d, e.offset, f[n])
    BY <1>2, <1>3, <1>4
  <1>6. Agrees(d, d.offset, base)
    <2> HIDE DEF base
    <2>1. e.offset \in Nat
      BY DEF Encoders
    <2>. QED
      BY <1>5, <2>1, AgreesEarlier
  <1>7. base.offset = at + 4 /\ \A i \in 1..4 : base.bytes[at + i] = InOrder(Pattern(n, 4), d.little)[i]
    <2> DEFINE bytes == base.bytes
               end == base.offset
    <2>1. /\ end = Aligned(e.offset, 4) + 4
          /\ \A i \in 1..4 : bytes[Aligned(e.offset, 4) + i] = InOrder(Pattern(n, 4), e.little)[i]
      BY <1>1, UlongKeeps, Zenon
    <2> HIDE DEF end, bytes
    <2>2. end = at + 4 /\ \A i \in 1..4 : bytes[at + i] = InOrder(Pattern(n, 4), d.little)[i]
      BY <2>1
    <2>. QED
      BY <2>2 DEF end, bytes
  <1>8. at \in Nat
    BY AlignedUp, Zenon DEF AlignWidth, Decoders
  <1>9. ShowsUlong(d, at, n)
    <2>1. at + 4 <= base.offset
      BY <1>7, <1>8
    <2> HIDE DEF base, n
    <2>. QED
      BY <1>1, <1>5, <1>6, <1>7, <2>1, AgreeingShowsUlong
  <1>10. g.ok /\ c = [d EXCEPT !.offset = at + 4] /\ Number(Value(g)) = n
    BY <1>1, <1>9, UlongIsRead
  <1> HIDE DEF at, g, c, base
  <1> DEFINE count == [i \in 1..n |-> i]
             start == [c EXCEPT !.got = <<>>]
  <1>11. PICK h : ByRead!IsFold(h, start, count, w) /\ GetSequence(d, w) = Together(c, h[n])
    BY <1>1, <1>10, ReadIsFold, Zenon DEF g, c
  <1>12. start = Elementwise(d, f, vs, 0)
    <2>1. f[0].offset = at + 4
      BY <1>4, <1>7
    <2>2. [m \in 1..0 |-> vs[m]] = <<>>
      OBVIOUS
    <2>. QED
      BY <1>10, <2>1, <2>2 DEF Elementwise, Decoders
  <1> DEFINE I == [i \in 0..n |-> {Elementwise(d, f, vs, i)}]
  <1>13. ASSUME NEW i \in 1..n, NEW x \in I[i - 1]
         PROVE  (IF x.ok THEN GetNumber(x, w) ELSE x) \in I[i]
    <2>1. i - 1 \in 0..n /\ i \in 0..n /\ I[i] = {Elementwise(d, f, vs, i)}
          /\ I[i - 1] = {Elementwise(d, f, vs, i - 1)}
      BY <1>1
    <2>2. x = Elementwise(d, f, vs, i - 1)
      BY <2>1
    <2>3. x.ok
      BY <2>2, Zenon DEF Elementwise, Decoders
    <2>4. GetNumber(x, w) = Elementwise(d, f, vs, i)
      BY <1>2, <1>5, <2>2, ElementIsRead DEF base
    <2> HIDE DEF I
    <2>. QED
      BY <2>1, <2>3, <2>4
  <1>14. count \in Seq(Nat) /\ Len(count) = n /\ \A i \in 1..n : count[i] = i
    BY <1>1
  <1>15. start \in I[0]
    BY <1>1, <1>12
  <1> HIDE DEF I, count, start
  <1>16. \A i \in 1..Len(count) : \A x \in I[i - 1] :
             (IF x.ok THEN GetNumber(x, w) ELSE x) \in I[i]
    BY <1>13, <1>14
  <1>17. \A i \in 0..Len(count) : h[i] \in I[i]
    BY <1>11, <1>14, <1>15, <1>16, ByRead!FoldReaches, Zenon
  <1>18. h[n] = Elementwise(d, f, vs, n)
    <2>1. h[n] \in I[n]
      BY <1>4, <1>14, <1>17
    <2>. QED
      BY <1>4, <2>1 DEF I
  <1>19. [m \in 1..n |-> vs[m]] = vs
    OBVIOUS
  <1>20. Together(c, h[n]) = Advanced(d, f[n].offset, vs)
    <2>1. h[n] = [d EXCEPT !.offset = f[n].offset, !.got = vs]
      BY <1>18, <1>19, Zenon DEF Elementwise
    <2> HIDE DEF n
    <2>. QED
      BY <1>10, <2>1, Zenon DEF Together, Return, Advanced, Decoders
  <1>. QED
    BY <1>2, <1>11, <1>20

LEMMA EndianIsRead ==
    ASSUME NEW d \in Decoders, NEW little \in BOOLEAN, d.offset + 1 <= Len(d.bytes),
           d.bytes[d.offset + 1] = IF little THEN 1 ELSE 0
    PROVE  GetEndian(d) = [d EXCEPT !.offset = d.offset + 1, !.little = little]
  <1> DEFINE o == IF little THEN 1 ELSE 0
             p == <<o>>
             g == GetNumber(d, 1)
  <1>1. o \in Octet /\ (p = <<1>>) = little
    BY DEF Octet
  <1>2. d.offset \in Nat /\ d.little \in BOOLEAN
    BY DEF Decoders
  <1> HIDE DEF o
  <1>3. p \in Seq(Octet) /\ Len(p) = 1 /\ p[1] = o /\ p \in AnyWord
    BY <1>1 DEF AnyWord, AlignWidth
  <1>4. Aligned(d.offset, 1) = d.offset
    BY <1>2 DEF Aligned
  <1>5. InOrder(p, d.little) = p
    <2>1. p = [i \in 1..Len(p) |-> p[(Len(p) - i) + 1]]
      BY <1>3
    <2>2. Reverse(p) = p
      BY <2>1 DEF Reverse
    <2>. QED
      BY <2>2 DEF InOrder
  <1>6. d.bytes[d.offset + 1] = o
    BY DEF o
  <1> HIDE DEF p
  <1>7. Shows(d, Aligned(d.offset, Len(p)), InOrder(p, d.little))
    <2>1. \A i \in 1..Len(p) : i = 1
      BY <1>3
    <2>2. Shows(d, d.offset, p)
      BY <1>3, <1>6, <2>1 DEF Shows
    <2>. QED
      BY <1>3, <1>4, <1>5, <2>2
  <1>8. g = Advanced(d, d.offset + 1, p)
    BY <1>3, <1>4, <1>7, NumberIsRead, Zenon
  <1>9. g.ok /\ g.got = Append(d.got, p)
    BY <1>8, Zenon DEF Advanced, Decoders
  <1>10. Front(g.got) = d.got /\ Last(g.got) = p
    <2>1. d.got \in Seq(Seq(Octet))
      BY DEF Decoders
    <2>2. Front(Append(d.got, p)) = d.got /\ Last(Append(d.got, p)) = p
      BY <1>3, <2>1, FrontOfAppended
    <2>. QED
      BY <1>9, <2>2, Zenon
  <1>11. GetEndian(d) = [g EXCEPT !.got = Front(@), !.little = (Value(g) = <<1>>)]
    BY <1>9 DEF GetEndian, After
  <1> HIDE DEF g
  <1>12. Value(g) = p
    BY <1>10 DEF Value
  <1>13. (Value(g) = <<1>>) = little
    BY <1>1, <1>12 DEF p
  <1>14. [g EXCEPT !.got = Front(@), !.little = little]
             = [d EXCEPT !.offset = d.offset + 1, !.little = little]
    BY <1>8, <1>10, Zenon DEF Advanced, Decoders
  <1>. QED
    BY <1>11, <1>13, <1>14, Zenon

\* The decoder enters an encapsulation: it keeps where it ends, and the byte order
\* it was in.
ShowsOrder(d, p, little) == d.bytes[p] = IF little THEN 1 ELSE 0

Entered(d, at, type, size, little) ==
    [d EXCEPT !.offset = at + 9, !.little = little,
              !.encapStack = Append(@, [nextOffset |-> at + 8 + size, endian |-> d.little]),
              !.got = Append(@, Pattern(type, 4))]

LEMMA EncapsulationIsEntered ==
    ASSUME NEW d \in Decoders, NEW type \in Nat, type < UlongLimit,
           NEW size \in Nat, size < UlongLimit, NEW little \in BOOLEAN,
           NEW at, at = Aligned(d.offset, 4), ShowsUlong(d, at, type), ShowsUlong(d, at + 4, size),
           at + 9 <= Len(d.bytes), ShowsOrder(d, at + 9, little)
    PROVE  GetBeginEncapsulation(d) = Entered(d, at, type, size, little)
  <1> DEFINE t == GetNumber(d, 4)
             g == GetNumber(t, 4)
             c == [g EXCEPT !.got = Front(@)]
             entry == [nextOffset |-> c.offset + Number(Value(g)), endian |-> c.little]
             p == Pattern(type, 4)
  <1>1. t.ok /\ t = Advanced(d, at + 4, p)
    BY UlongIsRead, Zenon
  <1>2. at \in Nat /\ at % 4 = 0
    BY AlignedUp, Zenon DEF AlignWidth, Decoders
  <1>3. p \in Seq(Octet)
    BY PatternIsWord DEF AnyWord
  <1> HIDE DEF t, p
  <1>4. t \in Decoders /\ t.offset = at + 4 /\ t.bytes = d.bytes /\ t.little = d.little
        /\ t.got = Append(d.got, p) /\ t.encapStack = d.encapStack
    <2>1. d.got \in Seq(Seq(Octet))
      BY DEF Decoders
    <2> DEFINE got == Append(d.got, p)
    <2>2. got \in Seq(Seq(Octet))
      BY <1>3, <2>1
    <2>3. at + 4 \in Nat
      BY <1>2
    <2>4. t = [d EXCEPT !.offset = at + 4, !.got = got]
      BY <1>1 DEF Advanced
    <2> HIDE DEF got
    <2>5. t \in Decoders /\ t.offset = at + 4 /\ t.bytes = d.bytes /\ t.little = d.little
          /\ t.got = got /\ t.encapStack = d.encapStack
      BY <2>2, <2>3, <2>4, Zenon DEF Decoders
    <2>. QED
      BY <2>5 DEF got
  <1>5. Aligned(t.offset, 4) = at + 4
    BY <1>2, <1>4 DEF Aligned
  <1>6. ShowsUlong(t, Aligned(t.offset, 4), size)
    BY <1>4, <1>5 DEF ShowsUlong, Shows
  <1>7. g.ok /\ c = [t EXCEPT !.offset = at + 4 + 4] /\ Number(Value(g)) = size
    BY <1>4, <1>5, <1>6, UlongIsRead
  <1>8. t.ok /\ g.ok => GetBeginEncapsulation(d) = GetEndian([c EXCEPT !.encapStack = Append(@, entry)])
    BY DEF GetBeginEncapsulation, WithUlong, After, t
  <1> HIDE DEF g, c
  <1>9. at + 4 + 4 = at + 8 /\ at + 8 \in Nat /\ at + 8 + size \in Nat /\ at + 8 + 1 = at + 9
    BY <1>2
  <1>10. c \in Decoders /\ c.offset = at + 8 /\ c.bytes = d.bytes /\ c.little = d.little
         /\ c.got = Append(d.got, p) /\ c.encapStack = d.encapStack
    BY <1>4, <1>7, <1>9, Elsewhere
  <1>11. entry = [nextOffset |-> at + 8 + size, endian |-> d.little] /\ entry \in Closing
    BY <1>7, <1>9, <1>10 DEF Closing, Decoders
  <1> DEFINE s == [c EXCEPT !.encapStack = Append(@, entry)]
  <1>12. s = [d EXCEPT !.offset = at + 8, !.encapStack = Append(@, entry), !.got = Append(@, p)]
    <2> HIDE DEF entry
    <2>. QED
      BY <1>1, <1>7, <1>9, <1>10, Zenon DEF Advanced, Decoders
  <1> HIDE DEF entry
  <1>13. s \in Decoders /\ s.offset = at + 8 /\ s.bytes = d.bytes
    <2> DEFINE stack == Append(c.encapStack, entry)
    <2>1. c.encapStack \in Seq(Closing)
      BY <1>10 DEF Decoders
    <2>2. stack \in Seq(Closing)
      BY <1>11, <2>1
    <2>3. s = [c EXCEPT !.encapStack = stack]
      OBVIOUS
    <2> HIDE DEF stack, s
    <2>. QED
      BY <1>10, <2>2, <2>3, Zenon DEF Decoders
  <1> HIDE DEF s
  <1>14. GetEndian(s) = [s EXCEPT !.offset = at + 9, !.little = little]
    <2>1. s.offset + 1 <= Len(s.bytes) /\ s.offset + 1 = at + 9
          /\ s.bytes[s.offset + 1] = IF little THEN 1 ELSE 0
      BY <1>9, <1>13 DEF ShowsOrder
    <2>2. GetEndian(s) = [s EXCEPT !.offset = s.offset + 1, !.little = little]
      BY <1>13, <2>1, EndianIsRead, Zenon
    <2>. QED
      BY <2>1, <2>2, Zenon
  <1>15. GetBeginEncapsulation(d) = GetEndian(s)
    BY <1>1, <1>7, <1>8 DEF s
  <1>16. [s EXCEPT !.offset = at + 9, !.little = little]
             = [d EXCEPT !.offset = at + 9, !.little = little,
                         !.encapStack = Append(@, entry), !.got = Append(@, p)]
    BY <1>12, Zenon DEF Decoders
  <1>. QED
    BY <1>11, <1>14, <1>15, <1>16 DEF p, Entered

(***************************************************************************)
(* Items of CDR: what is put is what is read, from the same offset on and  *)
(* in the same byte order.                                                 *)
(***************************************************************************)
LEMMA OctetIsRead ==
    ASSUME NEW e \in Encoders, NEW o \in Octet, NEW d \in Decoders, d.offset = e.offset,
           Agrees(d, e.offset, PutOctet(e, o))
    PROVE  GetNumber(d, 1) = Advanced(d, PutOctet(e, o).offset, <<o>>)
  <1> DEFINE p == <<o>>
             c == PutOctet(e, o)
  <1>1. c \in Encoders /\ c.offset = e.offset + 1 /\ c.bytes[e.offset + 1] = o
    BY OctetKeeps, LaterIsEncoder
  <1>2. e.offset \in Nat /\ d.little \in BOOLEAN
    BY DEF Encoders, Decoders
  <1>3. p \in Seq(Octet) /\ Len(p) = 1 /\ p[1] = o /\ p \in AnyWord
    BY DEF AnyWord, AlignWidth
  <1>4. Aligned(d.offset, 1) = e.offset
    BY <1>2 DEF Aligned
  <1>5. InOrder(p, d.little) = p
    <2>1. p = [i \in 1..Len(p) |-> p[(Len(p) - i) + 1]]
      BY <1>3
    <2>2. Reverse(p) = p
      BY <2>1 DEF Reverse
    <2>. QED
      BY <2>2 DEF InOrder
  <1> HIDE DEF p, c
  <1>6. \A i \in 1..Len(p) : c.bytes[e.offset + i] = p[i]
    <2>1. \A i \in 1..Len(p) : i = 1
      BY <1>3
    <2>. QED
      BY <1>1, <1>3, <2>1
  <1>7. Shows(d, e.offset, p)
    <2>1. e.offset + Len(p) <= c.offset /\ e.offset >= e.offset
      BY <1>1, <1>2, <1>3
    <2>2. Agrees(d, e.offset, c)
      BY DEF c
    <2>. QED
      BY <1>1, <1>2, <1>3, <1>6, <2>1, <2>2, AgreeingShows, Zenon
  <1>8. GetNumber(d, 1) = Advanced(d, e.offset + 1, p)
    <2>1. Shows(d, Aligned(d.offset, Len(p)), InOrder(p, d.little))
      BY <1>3, <1>4, <1>5, <1>7
    <2>2. GetNumber(d, Len(p)) = Advanced(d, Aligned(d.offset, Len(p)) + Len(p), p)
      BY <1>3, <2>1, NumberIsRead, Zenon
    <2>. QED
      BY <1>3, <1>4, <2>2
  <1>. QED
    BY <1>1, <1>8 DEF p, c

LEMMA PutNumberIsRead ==
    ASSUME NEW e \in Encoders, NEW p \in AnyWord, NEW d \in Decoders,
           d.offset = e.offset, d.little = e.little, Agrees(d, e.offset, PutNumber(e, p))
    PROVE  GetNumber(d, Len(p)) = Advanced(d, PutNumber(e, p).offset, p)
  <1> DEFINE w == Len(p)
             at == Aligned(e.offset, w)
             q == InOrder(p, e.little)
             c == PutNumber(e, p)
  <1>1. w \in AlignWidth /\ w \in Nat /\ p \in Seq(Octet) /\ e.offset \in Nat /\ e.little \in BOOLEAN
    BY DEF AnyWord, AlignWidth, Encoders
  <1>2. c \in Encoders /\ c.offset = at + w /\ \A i \in 1..w : c.bytes[at + i] = q[i]
    BY NumberKeeps, LaterIsEncoder
  <1>3. at \in Nat /\ at >= e.offset
    BY <1>1, AlignedUp, Zenon
  <1>4. q \in Seq(Octet) /\ Len(q) = w
    BY <1>1, InOrderKeeps
  <1>5. Agrees(d, e.offset, c)
    OBVIOUS
  <1>6. q = InOrder(p, d.little) /\ at = Aligned(d.offset, w)
    OBVIOUS
  <1> HIDE DEF at, q, c, w
  <1>7. at + Len(q) <= c.offset
    BY <1>1, <1>2, <1>3, <1>4
  <1>8. Shows(d, at, q)
    BY <1>1, <1>2, <1>3, <1>4, <1>5, <1>7, AgreeingShows, Zenon
  <1>9. GetNumber(d, w) = Advanced(d, at + w, p)
    <2>1. Shows(d, Aligned(d.offset, Len(p)), InOrder(p, d.little))
      BY <1>6, <1>8 DEF w
    <2>2. GetNumber(d, Len(p)) = Advanced(d, Aligned(d.offset, Len(p)) + Len(p), p)
      BY <2>1, NumberIsRead
    <2>. QED
      BY <1>6, <2>2 DEF w
  <1>. QED
    BY <1>2, <1>9 DEF c, w

\* What is behind the number that tells its length is shown with it.
LEMMA CountedIsShown ==
    ASSUME NEW d \in Decoders, NEW c \in Encoders, Agrees(d, d.offset, c),
           NEW at, at = Aligned(d.offset, 4), NEW n \in Nat, NEW from \in Nat, from >= at + 4,
           NEW octets \in Seq(Octet), from + Len(octets) <= c.offset,
           \A i \in 1..4 : c.bytes[at + i] = InOrder(Pattern(n, 4), d.little)[i],
           \A i \in 1..Len(octets) : c.bytes[from + i] = octets[i]
    PROVE  ShowsUlong(d, at, n) /\ Shows(d, from, octets)
  <1>1. at \in Nat /\ at >= d.offset /\ d.offset \in Nat /\ c.offset \in Nat /\ Len(octets) \in Nat
    <2>1. d.offset \in Nat /\ c.offset \in Nat /\ Len(octets) \in Nat /\ 4 \in AlignWidth
      BY DEF AlignWidth, Decoders, Encoders
    <2>. QED
      BY <2>1, AlignedUp, Zenon
  <1> DEFINE k == Len(octets)
             end == c.offset
  <1>2. at + 4 <= c.offset /\ from >= d.offset
    <2>1. k \in Nat /\ end \in Nat /\ from + k <= end
      BY <1>1
    <2> HIDE DEF k, end
    <2>2. at + 4 <= end /\ from >= d.offset
      BY <1>1, <2>1
    <2>. QED
      BY <2>2 DEF end
  <1> HIDE DEF k, end
  <1>3. ShowsUlong(d, at, n)
    BY <1>2, AgreeingShowsUlong
  <1>4. Shows(d, from, octets)
    BY <1>1, <1>2, AgreeingShows
  <1>. QED
    BY <1>3, <1>4

LEMMA PutBlobIsRead ==
    ASSUME NEW e \in Encoders, NEW octets \in Seq(Octet), NEW d \in Decoders,
           d.offset = e.offset, d.little = e.little, Agrees(d, e.offset, PutBlob(e, octets)),
           PutBlob(e, octets).offset < UlongLimit
    PROVE  GetBlob(d) = Advanced(d, PutBlob(e, octets).offset, octets)
  <1> DEFINE c == PutBlob(e, octets)
             at == Aligned(e.offset, 4)
             from == at + 4
             n == Len(octets)
             q == InOrder(Pattern(n, 4), e.little)
  <1>1. e.offset \in Nat /\ n \in Nat /\ 4 \in AlignWidth
    BY DEF AlignWidth, Encoders
  <1>2. at \in Nat /\ from \in Nat /\ from >= at + 4
    <2>1. at \in Nat
      BY <1>1, AlignedUp, Zenon
    <2> HIDE DEF at
    <2>. QED
      BY <2>1
  <1>3. c \in Encoders
    BY BlobKeeps, LaterIsEncoder
  <1>4. /\ c.offset = from + n
        /\ \A i \in 1..4 : c.bytes[at + i] = q[i]
        /\ \A i \in 1..Len(octets) : c.bytes[from + i] = octets[i]
    BY BlobKeeps
  <1>5. Agrees(d, d.offset, c) /\ c.offset < UlongLimit /\ at = Aligned(d.offset, 4)
        /\ q = InOrder(Pattern(n, 4), d.little)
    OBVIOUS
  <1>6. from + Len(octets) <= from + n
    <2> HIDE DEF from
    <2>. QED
      BY <1>2
  <1> HIDE DEF c, at, q, from
  <1>7. n < UlongLimit
    BY <1>1, <1>2, <1>4, <1>5, SMTT(30) DEF UlongLimit
  <1>8. ShowsUlong(d, at, n) /\ Shows(d, from, octets)
    <2> HIDE DEF n
    <2>1. from + Len(octets) <= c.offset
      BY <1>4, <1>6
    <2>2. \A i \in 1..4 : c.bytes[at + i] = InOrder(Pattern(n, 4), d.little)[i]
      BY <1>4, <1>5
    <2>3. \A i \in 1..Len(octets) : c.bytes[from + i] = octets[i]
      BY <1>4
    <2>4. n \in Nat /\ from \in Nat /\ from >= at + 4
      BY <1>1, <1>2
    <2>5. Agrees(d, d.offset, c) /\ at = Aligned(d.offset, 4)
      BY <1>5
    <2> HIDE DEF UlongLimit
    <2>. QED
      BY <1>3, <2>1, <2>2, <2>3, <2>4, <2>5, CountedIsShown
  <1>9. GetBlob(d) = Advanced(d, from + n, octets)
    <2>1. ShowsUlong(d, Aligned(d.offset, 4), n) /\ Shows(d, Aligned(d.offset, 4) + 4, octets)
      BY <1>5, <1>8 DEF from
    <2>2. GetBlob(d) = Advanced(d, Aligned(d.offset, 4) + 4 + n, octets)
      BY <1>7, <2>1, BlobIsRead
    <2>. QED
      BY <1>5, <2>2 DEF from
  <1>. QED
    BY <1>4, <1>9 DEF c

LEMMA PutStringIsRead ==
    ASSUME NEW e \in Encoders, NEW octets \in Seq(Octet), NEW d \in Decoders,
           d.offset = e.offset, d.little = e.little, Agrees(d, e.offset, PutString(e, octets)),
           PutString(e, octets).offset < UlongLimit
    PROVE  GetString(d) = Advanced(d, PutString(e, octets).offset, octets)
  <1> DEFINE c == PutString(e, octets)
             at == Aligned(e.offset, 4)
             from == at + 4
             n == Len(octets) + 1
             q == InOrder(Pattern(n, 4), e.little)
  <1>1. e.offset \in Nat /\ n \in Nat /\ 4 \in AlignWidth
    BY DEF AlignWidth, Encoders
  <1>2. at \in Nat /\ from \in Nat /\ from >= at + 4
    <2>1. at \in Nat
      BY <1>1, AlignedUp, Zenon
    <2> HIDE DEF at
    <2>. QED
      BY <2>1
  <1>3. c \in Encoders
    BY StringKeeps, LaterIsEncoder
  <1>4. /\ c.offset = from + n
        /\ \A i \in 1..4 : c.bytes[at + i] = q[i]
        /\ \A i \in 1..Len(octets) : c.bytes[from + i] = octets[i]
    BY StringKeeps
  <1>5. Agrees(d, d.offset, c) /\ c.offset < UlongLimit /\ at = Aligned(d.offset, 4)
        /\ q = InOrder(Pattern(n, 4), d.little)
    OBVIOUS
  <1>6. from + Len(octets) <= from + n
    <2> HIDE DEF from
    <2>. QED
      BY <1>2
  <1> HIDE DEF c, at, q, from
  <1>7. n < UlongLimit
    BY <1>1, <1>2, <1>4, <1>5, SMTT(30) DEF UlongLimit
  <1>8. ShowsUlong(d, at, n) /\ Shows(d, from, octets)
    <2> HIDE DEF n
    <2>1. from + Len(octets) <= c.offset
      BY <1>4, <1>6
    <2>2. \A i \in 1..4 : c.bytes[at + i] = InOrder(Pattern(n, 4), d.little)[i]
      BY <1>4, <1>5
    <2>3. \A i \in 1..Len(octets) : c.bytes[from + i] = octets[i]
      BY <1>4
    <2>4. n \in Nat /\ from \in Nat /\ from >= at + 4
      BY <1>1, <1>2
    <2>5. Agrees(d, d.offset, c) /\ at = Aligned(d.offset, 4)
      BY <1>5
    <2> HIDE DEF UlongLimit
    <2>. QED
      BY <1>3, <2>1, <2>2, <2>3, <2>4, <2>5, CountedIsShown
  <1>9. GetString(d) = Advanced(d, from + n, octets)
    <2>1. ShowsUlong(d, Aligned(d.offset, 4), n) /\ Shows(d, Aligned(d.offset, 4) + 4, octets)
      BY <1>5, <1>8 DEF from
    <2>2. GetString(d) = Advanced(d, Aligned(d.offset, 4) + 4 + n, octets)
      BY <1>7, <2>1, StringIsRead
    <2>. QED
      BY <1>5, <2>2 DEF from
  <1>. QED
    BY <1>4, <1>9 DEF c

LEMMA PutSequenceOctetIsRead ==
    ASSUME NEW e \in Encoders, NEW octets \in Seq(Octet), NEW d \in Decoders,
           d.offset = e.offset, d.little = e.little, Agrees(d, e.offset, PutSequenceOctet(e, octets)),
           PutSequenceOctet(e, octets).offset < UlongLimit
    PROVE  GetSequenceOctet(d) = Advanced(d, PutSequenceOctet(e, octets).offset, octets)
  <1> DEFINE c == PutSequenceOctet(e, octets)
             at == Aligned(e.offset, 4)
             from == at + 4
             n == Len(octets)
             q == InOrder(Pattern(n, 4), e.little)
  <1>1. e.offset \in Nat /\ n \in Nat /\ 4 \in AlignWidth
    BY DEF AlignWidth, Encoders
  <1>2. at \in Nat /\ from \in Nat /\ from >= at + 4
    <2>1. at \in Nat
      BY <1>1, AlignedUp, Zenon
    <2> HIDE DEF at
    <2>. QED
      BY <2>1
  <1>3. c \in Encoders
    BY SequenceOctetKeeps, LaterIsEncoder
  <1>4. /\ c.offset = from + n
        /\ \A i \in 1..4 : c.bytes[at + i] = q[i]
        /\ \A i \in 1..Len(octets) : c.bytes[from + i] = octets[i]
    BY SequenceOctetKeeps
  <1>5. Agrees(d, d.offset, c) /\ c.offset < UlongLimit /\ at = Aligned(d.offset, 4)
        /\ q = InOrder(Pattern(n, 4), d.little)
    OBVIOUS
  <1>6. from + Len(octets) <= from + n
    <2> HIDE DEF from
    <2>. QED
      BY <1>2
  <1> HIDE DEF c, at, q, from
  <1>7. n < UlongLimit
    BY <1>1, <1>2, <1>4, <1>5, SMTT(30) DEF UlongLimit
  <1>8. ShowsUlong(d, at, n) /\ Shows(d, from, octets)
    <2> HIDE DEF n
    <2>1. from + Len(octets) <= c.offset
      BY <1>4, <1>6
    <2>2. \A i \in 1..4 : c.bytes[at + i] = InOrder(Pattern(n, 4), d.little)[i]
      BY <1>4, <1>5
    <2>3. \A i \in 1..Len(octets) : c.bytes[from + i] = octets[i]
      BY <1>4
    <2>4. n \in Nat /\ from \in Nat /\ from >= at + 4
      BY <1>1, <1>2
    <2>5. Agrees(d, d.offset, c) /\ at = Aligned(d.offset, 4)
      BY <1>5
    <2> HIDE DEF UlongLimit
    <2>. QED
      BY <1>3, <2>1, <2>2, <2>3, <2>4, <2>5, CountedIsShown
  <1>9. GetSequenceOctet(d) = Advanced(d, from + n, octets)
    <2>1. ShowsUlong(d, Aligned(d.offset, 4), n) /\ Shows(d, Aligned(d.offset, 4) + 4, octets)
      BY <1>5, <1>8 DEF from
    <2>2. GetSequenceOctet(d) = Advanced(d, Aligned(d.offset, 4) + 4 + n, octets)
      BY <1>7, <2>1, OctetsAreRead
    <2>. QED
      BY <1>5, <2>2 DEF from
  <1>. QED
    BY <1>4, <1>9 DEF c

\* A sequence takes at least as many octets as it has elements.
LEMMA SequenceIsLong ==
    ASSUME NEW e \in Encoders, NEW vs \in Seq(AnyWord)
    PROVE  Len(vs) <= PutSequence(e, vs).offset
  <1> DEFINE n == Len(vs)
             base == PutUlong(e, n)
             I == [i \in 0..n |-> {c \in Encoders : c.offset >= i}]
  <1>1. n \in Nat /\ \A i \in 1..n : vs[i] \in AnyWord /\ i - 1 \in 0..n /\ i \in 0..n
    OBVIOUS
  <1>2. 0 \in 0..n /\ n \in 0..n /\ \A i \in 0..n : I[i] = {c \in Encoders : c.offset >= i}
    BY <1>1
  <1>3. base \in Encoders
    BY <1>1, UlongKeeps
  <1>4. PICK f : ByNumber!IsFold(f, base, vs, 0) /\ PutSequence(e, vs) = f[n]
    BY SequenceIsFold
  <1> HIDE DEF base, n, I
  <1>5. base \in I[0]
    <2>1. base.offset >= 0
      BY <1>3 DEF Encoders
    <2>. QED
      BY <1>2, <1>3, <2>1
  <1>6. ASSUME NEW i \in 1..n, NEW c \in I[i - 1]
        PROVE  PutNumber(c, vs[i]) \in I[i]
    <2> DEFINE p == vs[i]
               next == PutNumber(c, p)
    <2>1. c \in Encoders /\ c.offset >= i - 1 /\ c.offset \in Nat
      BY <1>1, <1>2 DEF Encoders
    <2>2. p \in AnyWord /\ Len(p) \in AlignWidth /\ Len(p) \in Nat /\ Len(p) >= 1
      <3>1. p \in AnyWord
        BY <1>1
      <3> HIDE DEF p
      <3>2. Len(p) \in AlignWidth
        BY <3>1 DEF AnyWord
      <3>3. \A k \in AlignWidth : k \in Nat /\ k >= 1
        BY DEF AlignWidth
      <3>. QED
        BY <3>1, <3>2, <3>3
    <2>3. next \in Encoders /\ next.offset = Aligned(c.offset, Len(p)) + Len(p)
      BY <2>1, <2>2, NumberKeeps, LaterIsEncoder, Zenon
    <2>4. Aligned(c.offset, Len(p)) \in Nat /\ Aligned(c.offset, Len(p)) >= c.offset
      BY <2>1, <2>2, AlignedUp, Zenon
    <2> HIDE DEF next, p
    <2>5. next.offset >= i
      BY <1>1, <2>1, <2>2, <2>3, <2>4
    <2>6. next \in I[i]
      BY <1>1, <1>2, <2>3, <2>5
    <2>. QED
      BY <2>6 DEF next, p
  <1>7. \A i \in 0..Len(vs) : f[i] \in I[i]
    <2>1. \A i \in 1..Len(vs) : \A c \in I[i - 1] : PutNumber(c, vs[i]) \in I[i]
      BY <1>6 DEF n
    <2>. QED
      BY <1>4, <1>5, <2>1, ByNumber!FoldReaches
  <1>8. f[n] \in I[n]
    BY <1>2, <1>7 DEF n
  <1>. QED
    BY <1>2, <1>4, <1>8 DEF n

LEMMA PutSequenceIsRead ==
    ASSUME NEW e \in Encoders, NEW w \in AlignWidth, NEW vs \in Seq(Word(w)), NEW d \in Decoders,
           d.offset = e.offset, d.little = e.little, Agrees(d, e.offset, PutSequence(e, vs)),
           PutSequence(e, vs).offset < UlongLimit
    PROVE  GetSequence(d, w) = Advanced(d, PutSequence(e, vs).offset, vs)
  <1>1. vs \in Seq(AnyWord) /\ Len(vs) \in Nat
    BY DEF Word, AnyWord
  <1>2. Len(vs) <= PutSequence(e, vs).offset /\ PutSequence(e, vs).offset \in Nat
    BY <1>1, SequenceIsLong, SequenceKeeps, LaterIsEncoder DEF Encoders
  <1> DEFINE end == PutSequence(e, vs).offset
             n == Len(vs)
  <1>3. end \in Nat /\ n \in Nat /\ n <= end /\ end < UlongLimit
    BY <1>1, <1>2
  <1> HIDE DEF end, n
  <1>4. n < UlongLimit
    BY <1>3, SMTT(30) DEF UlongLimit
  <1>. QED
    BY <1>4, SequenceIsRead DEF n

LEMMA PutArrayIsRead ==
    ASSUME NEW e \in Encoders, NEW w \in {4, 8}, NEW vs \in Seq(Word(w)), NEW d \in Decoders,
           d.offset = e.offset, d.little = e.little, NEW platformLittle, NEW c,
           c = Put(ReserveVarying(PutUlong(e, Len(vs)), w, w * Len(vs)), Elements(vs, e.little)),
           Agrees(d, e.offset, c), c.offset < UlongLimit
    PROVE  /\ w = 4 => GetSequenceFloat(d, platformLittle) = Advanced(d, c.offset, vs)
           /\ w = 8 => GetSequenceDouble(d, platformLittle) = Advanced(d, c.offset, vs)
  <1> DEFINE n == Len(vs)
             at == Aligned(e.offset, 4)
             from == Aligned(at + 4, w)
             size == w * n
             all == Elements(vs, e.little)
  <1>1. e.offset \in Nat /\ n \in Nat /\ 4 \in AlignWidth /\ w \in AlignWidth /\ w \in Nat
        /\ e.little \in BOOLEAN
    BY DEF AlignWidth, Encoders
  <1>2. at \in Nat /\ at + 4 \in Nat
    <2>1. at \in Nat
      BY <1>1, AlignedUp, Zenon
    <2> HIDE DEF at
    <2>. QED
      BY <2>1
  <1>3. from \in Nat /\ from >= at + 4
    <2> HIDE DEF at
    <2>. QED
      BY <1>1, <1>2, AlignedUp, Zenon
  <1>4. size \in Nat /\ n <= size /\ n * w = size
    BY <1>1
  <1>5. all \in Seq(Octet) /\ Len(all) = size
    BY <1>1, <1>4, ElementsAreOctets DEF OctetsOf
  <1>6. /\ c \in Later(e) /\ c.offset = from + size
        /\ \A i \in 1..4 : c.bytes[at + i] = InOrder(Pattern(n, 4), e.little)[i]
        /\ \A i \in 1..size : c.bytes[from + i] = all[i]
    BY ArrayKeeps, ZenonT(40)
  <1>7. c \in Encoders
    BY <1>6, LaterIsEncoder
  <1>8. Agrees(d, d.offset, c) /\ at = Aligned(d.offset, 4) /\ all = Elements(vs, d.little)
    OBVIOUS
  <1> HIDE DEF at, from, size, all, n
  <1>9. n < UlongLimit
    BY <1>1, <1>3, <1>4, <1>6, SMTT(30) DEF UlongLimit
  <1>10. ShowsUlong(d, at, n) /\ Shows(d, from, all)
    <2>1. from + Len(all) <= c.offset
      BY <1>3, <1>4, <1>5, <1>6
    <2>2. \A i \in 1..4 : c.bytes[at + i] = InOrder(Pattern(n, 4), d.little)[i]
      BY <1>6
    <2>3. \A i \in 1..Len(all) : c.bytes[from + i] = all[i]
      BY <1>5, <1>6
    <2>4. n \in Nat /\ from \in Nat /\ from >= at + 4 /\ all \in Seq(Octet)
      BY <1>1, <1>3, <1>5
    <2>5. Agrees(d, d.offset, c) /\ at = Aligned(d.offset, 4)
      BY <1>8
    <2>6. at + 4 <= c.offset /\ from >= d.offset /\ d.offset \in Nat
      <3>1. at >= e.offset
        BY <1>1, AlignedUp, Zenon DEF at
      <3>. QED
        BY <1>1, <1>2, <1>3, <1>4, <1>6, <3>1, SMTT(30)
    <2>7. ShowsUlong(d, at, n)
      BY <1>7, <2>2, <2>4, <2>5, <2>6, AgreeingShowsUlong
    <2>8. Shows(d, from, all)
      BY <1>7, <2>1, <2>3, <2>4, <2>5, <2>6, AgreeingShows
    <2>. QED
      BY <2>7, <2>8
  <1>11. ShowsUlong(d, Aligned(d.offset, 4), Len(vs))
         /\ Shows(d, Aligned(Aligned(d.offset, 4) + 4, w), Elements(vs, d.little))
         /\ Len(vs) < UlongLimit
    BY <1>8, <1>9, <1>10 DEF from, n
  <1> DEFINE end == Aligned(Aligned(d.offset, 4) + 4, w) + w * Len(vs)
  <1>12. /\ w = 4 => GetSequenceFloat(d, platformLittle) = Advanced(d, end, vs)
         /\ w = 8 => GetSequenceDouble(d, platformLittle) = Advanced(d, end, vs)
    BY <1>11, ArrayIsRead
  <1>13. end = c.offset
    BY <1>6, <1>8 DEF from, size, n
  <1> HIDE DEF end
  <1>. QED
    BY <1>12, <1>13

-----------------------------------------------------------------------------
(***************************************************************************)
(* The encoder beyond its buffer.  Room for a header, and the octets that  *)
(* are skipped in it, are not reserved; the next number, blob or string is *)
(* put as if the buffer had been enlarged before.                          *)
(***************************************************************************)
Writers ==
    {e \in [offset : Nat, bytes : Seq(Octet), sizeStack : Seq(StackEntry), little : BOOLEAN] :
        Len(e.bytes) > 0}

Room(e) == Doubled(Len(e.bytes), e.offset)

Roomy(e) == [e EXCEPT !.bytes = Enlarged(@, Room(e))]

LEMMA DoubledTwice ==
    ASSUME NEW size \in Nat \ {0}, NEW less \in Nat, NEW need \in Nat, less <= need
    PROVE  Doubled(Doubled(size, less), need) = Doubled(size, need)
  <1> DEFINE first == CHOOSE g : IsGrown(g, less)
             then == CHOOSE g : IsGrown(g, need)
  <1>1. IsGrown(first, less) /\ IsGrown(then, need)
    BY GrownExists
  <1>2. \A n \in Nat \ {0} : Doubled(n, less) = first[n] /\ Doubled(n, need) = then[n]
    BY DEF Doubled, IsGrown
  <1> HIDE DEF first, then
  <1>3. \A n \in Nat \ {0} : first[n] = IF n > less THEN n ELSE first[2 * n]
    BY <1>1 DEF IsGrown
  <1>4. \A n \in Nat \ {0} : then[n] = IF n > need THEN n ELSE then[2 * n]
    BY <1>1 DEF IsGrown
  <1> DEFINE T == {k \in Nat : \A n \in Nat \ {0} : n + k > less => then[first[n]] = then[n]}
  <1>5. 0 \in T
    BY <1>3
  <1>6. ASSUME NEW k \in Nat, k \in T
        PROVE  k + 1 \in T
    <2>1. ASSUME NEW n \in Nat \ {0}, n + (k + 1) > less
          PROVE  then[first[n]] = then[n]
      <3>1. CASE n > less
        BY <1>3, <3>1
      <3>2. CASE ~(n > less)
        <4>1. 2 * n \in Nat \ {0} /\ 2 * n + k > less
          BY <2>1
        <4>2. then[first[2 * n]] = then[2 * n]
          BY <1>6, <4>1
        <4>3. first[n] = first[2 * n]
          BY <1>3, <3>2
        <4>4. then[n] = then[2 * n]
          BY <1>4, <3>2
        <4>. QED
          BY <4>2, <4>3, <4>4
      <3>. QED
        BY <3>1, <3>2
    <2>. QED
      BY <2>1
  <1>7. less \in T
    <2> HIDE DEF T
    <2>. QED
      BY <1>5, <1>6, ByNumber!Induct
  <1>8. then[first[size]] = then[size]
    BY <1>7
  <1>9. Doubled(size, less) \in Nat \ {0}
    BY DoubledIsEnough
  <1>. QED
    BY <1>2, <1>8, <1>9

LEMMA EnlargedTwice ==
    ASSUME NEW bytes \in Seq(Octet), NEW m \in Nat, m >= Len(bytes), NEW n \in Nat, n >= m
    PROVE  Enlarged(Enlarged(bytes, m), n) = Enlarged(bytes, n)
  <1> DEFINE zeros(k) == [i \in 1..k |-> 0]
             a == m - Len(bytes)
             b == n - m
  <1>1. a \in Nat /\ b \in Nat /\ n - Len(bytes) = a + b
    OBVIOUS
  <1>2. \A k \in Nat : zeros(k) \in Seq(Octet) /\ Len(zeros(k)) = k
                       /\ \A i \in 1..k : zeros(k)[i] = 0
    BY DEF Octet
  <1>3. Enlarged(bytes, m) = bytes \o zeros(a) /\ Enlarged(bytes, n) = bytes \o zeros(a + b)
    BY <1>1 DEF Enlarged
  <1>4. Enlarged(Enlarged(bytes, m), n) = (bytes \o zeros(a)) \o zeros(b)
    <2>1. Len(Enlarged(bytes, m)) = m
      BY EnlargedKeeps
    <2>. QED
      BY <1>3, <2>1 DEF Enlarged
  <1>5. zeros(a) \o zeros(b) = zeros(a + b)
    BY <1>1, <1>2
  <1> HIDE DEF zeros, a, b
  <1>6. (bytes \o zeros(a)) \o zeros(b) = bytes \o (zeros(a) \o zeros(b))
    <2>1. zeros(a) \in Seq(Octet) /\ zeros(b) \in Seq(Octet)
      BY <1>1, <1>2
    <2>. QED
      BY <2>1, ConcatAssociative
  <1>. QED
    BY <1>3, <1>4, <1>5, <1>6

LEMMA RoomIsMade ==
    ASSUME NEW e \in Writers
    PROVE  /\ Roomy(e) \in Encoders
           /\ Roomy(e).offset = e.offset /\ Roomy(e).little = e.little
           /\ Roomy(e).sizeStack = e.sizeStack
           /\ Len(Roomy(e).bytes) >= Len(e.bytes)
           /\ \A i \in 1..Len(e.bytes) : Roomy(e).bytes[i] = e.bytes[i]
           /\ \A align \in AlignWidth : \A n \in Nat :
                  ReserveVarying(e, align, n) = ReserveVarying(Roomy(e), align, n)
  <1> DEFINE size == Room(e)
             bytes == Enlarged(e.bytes, size)
             d == Roomy(e)
  <1>1. e.offset \in Nat /\ e.bytes \in Seq(Octet) /\ Len(e.bytes) \in Nat \ {0}
    BY DEF Writers
  <1>2. size \in Nat /\ size > e.offset /\ size >= Len(e.bytes)
    BY <1>1, DoubledIsEnough DEF Room
  <1>3. d = [e EXCEPT !.bytes = bytes]
    BY DEF Roomy, Writers
  <1>4. bytes \in Seq(Octet) /\ Len(bytes) = size /\ \A i \in 1..Len(e.bytes) : bytes[i] = e.bytes[i]
    <2> HIDE DEF size
    <2>. QED
      BY <1>1, <1>2, EnlargedKeeps
  <1> HIDE DEF size, bytes, d
  <1>5. /\ d \in [offset : Nat, bytes : Seq(Octet), sizeStack : Seq(StackEntry), little : BOOLEAN]
        /\ d.offset = e.offset /\ d.little = e.little /\ d.sizeStack = e.sizeStack /\ d.bytes = bytes
    BY <1>3, <1>4 DEF Writers
  <1>6. d \in Encoders
    BY <1>1, <1>2, <1>4, <1>5 DEF Encoders
  <1>7. ASSUME NEW align \in AlignWidth, NEW n \in Nat
        PROVE  ReserveVarying(e, align, n) = ReserveVarying(d, align, n)
    <2> DEFINE at == Aligned(e.offset, align)
    <2>1. at \in Nat /\ at >= e.offset
      BY <1>1, AlignedUp
    <2>2. ReserveVarying(e, align, n)
              = [e EXCEPT !.offset = at, !.bytes = Enlarged(e.bytes, Doubled(Len(e.bytes), at + n))]
      BY DEF ReserveVarying, Writers
    <2>3. ReserveVarying(d, align, n)
              = [d EXCEPT !.offset = at, !.bytes = Enlarged(bytes, Doubled(size, at + n))]
      BY <1>4, <1>5 DEF ReserveVarying
    <2> HIDE DEF at
    <2>4. Doubled(size, at + n) = Doubled(Len(e.bytes), at + n)
      <3>1. at + n \in Nat /\ e.offset <= at + n
        BY <1>1, <2>1
      <3>. QED
        BY <1>1, <3>1, DoubledTwice DEF size, Room
    <2>5. Doubled(size, at + n) \in Nat /\ Doubled(size, at + n) >= size
      <3>1. at + n \in Nat /\ size \in Nat \ {0}
        BY <1>1, <1>2, <2>1
      <3>. QED
        BY <3>1, DoubledIsEnough
    <2>6. Enlarged(bytes, Doubled(size, at + n)) = Enlarged(e.bytes, Doubled(Len(e.bytes), at + n))
      BY <1>1, <1>2, <2>4, <2>5, EnlargedTwice DEF bytes
    <2>. QED
      BY <1>3, <2>2, <2>3, <2>6 DEF Writers
  <1>. QED
    BY <1>2, <1>4, <1>5, <1>6, <1>7 DEF d
-----------------------------------------------------------------------------
(***************************************************************************)
(* Fields, by their types.                                                 *)
(***************************************************************************)
LEMMA PutFieldIs ==
    ASSUME NEW e, NEW f
    PROVE  /\ f.type = "ulong" => PutField(e, f) = PutUlong(e, f.v)
           /\ f.type = "ushort" => PutField(e, f) = PutUshort(e, f.v)
           /\ f.type = "octet" => PutField(e, f) = PutOctet(e, f.v)
           /\ f.type = "number" => PutField(e, f) = PutNumber(e, f.v)
           /\ f.type = "blob" => PutField(e, f) = PutBlob(e, f.v)
           /\ f.type = "string" => PutField(e, f) = PutString(e, f.v)
           /\ f.type = "skip" => PutField(e, f) = [e EXCEPT !.offset = @ + f.v]
  <1>1. f.type = "ulong" => PutField(e, f) = PutUlong(e, f.v)
    BY DEF PutField
  <1>2. f.type = "ushort" => PutField(e, f) = PutUshort(e, f.v)
    BY DEF PutField
  <1>3. f.type = "octet" => PutField(e, f) = PutOctet(e, f.v)
    BY DEF PutField
  <1>4. f.type = "number" => PutField(e, f) = PutNumber(e, f.v)
    BY DEF PutField
  <1>5. f.type = "blob" => PutField(e, f) = PutBlob(e, f.v)
    BY DEF PutField
  <1>6. f.type = "string" => PutField(e, f) = PutString(e, f.v)
    BY DEF PutField
  <1>7. f.type = "skip" => PutField(e, f) = [e EXCEPT !.offset = @ + f.v]
    BY DEF PutField
  <1>. QED
    BY <1>1, <1>2, <1>3, <1>4, <1>5, <1>6, <1>7, Zenon

LEMMA GetFieldIs ==
    ASSUME NEW r
    PROVE  /\ \A type : ~r.ok => GetField(r, type) = r
           /\ \A type \in DOMAIN Width :
                 r.ok => GetField(r, type) = LET g == GetNumber(r, Width[type])
                                             IN  IF g.ok THEN Instead(g, Number(Value(g))) ELSE g
           /\ r.ok => /\ GetField(r, "ulonglong") = GetNumber(r, 8)
                      /\ GetField(r, "blob") = GetBlob(r)
                      /\ GetField(r, "string") = GetString(r)
                      /\ GetField(r, "skip3") = [r EXCEPT !.offset = @ + 3]
  <1>1. ASSUME NEW type, ~r.ok
        PROVE  GetField(r, type) = r
    BY <1>1 DEF GetField
  <1>2. ASSUME NEW type \in DOMAIN Width, r.ok
        PROVE  GetField(r, type) = LET g == GetNumber(r, Width[type])
                                   IN  IF g.ok THEN Instead(g, Number(Value(g))) ELSE g
    <2>1. type # "ulonglong" /\ type # "blob" /\ type # "string" /\ type # "skip3"
      BY DEF Width
    <2>2. GetField(r, type)
              = After(GetNumber(r, Width[type]), LAMBDA d : Instead(d, Number(Value(d))))
      BY <1>2, <2>1, Zenon DEF GetField
    <2>. QED
      BY <2>2, Zenon DEF After
  <1>3. ASSUME r.ok
        PROVE  /\ GetField(r, "ulonglong") = GetNumber(r, 8)
               /\ GetField(r, "blob") = GetBlob(r)
               /\ GetField(r, "string") = GetString(r)
               /\ GetField(r, "skip3") = [r EXCEPT !.offset = @ + 3]
    <2>1. "ulonglong" \notin DOMAIN Width /\ "blob" \notin DOMAIN Width
          /\ "string" \notin DOMAIN Width /\ "skip3" \notin DOMAIN Width
      BY DEF Width
    <2>2. GetField(r, "ulonglong") = GetNumber(r, 8)
      BY <1>3, <2>1 DEF GetField
    <2>3. GetField(r, "blob") = GetBlob(r)
      BY <1>3, <2>1 DEF GetField
    <2>4. GetField(r, "string") = GetString(r)
      BY <1>3, <2>1 DEF GetField
    <2>5. GetField(r, "skip3") = [r EXCEPT !.offset = @ + 3]
      BY <1>3, <2>1 DEF GetField
    <2>. QED
      BY <2>2, <2>3, <2>4, <2>5
  <1>. QED
    BY <1>1, <1>2, <1>3, Zenon
-----------------------------------------------------------------------------
(***************************************************************************)
(* One field after the other.                                              *)
(***************************************************************************)
LEMMA PutFieldsFold ==
    ASSUME NEW e, NEW S, NEW fields \in Seq(S)
    PROVE  \E f : ByField!IsFold(f, e, fields, 0) /\ PutFields(e, fields) = f[Len(fields)]
  <1> DEFINE it == CHOOSE h : ByField!IsIter(h, e, fields, 0)
  <1>1. ByField!IsIter(it, e, fields, 0)
    BY ByField!IterExists, Zenon
  <1>2. PutFields(e, fields) = it[DOMAIN fields]
    BY DEF PutFields, ByField!IsIter, FoldLeft, MapThenFoldSet, ByField!Greatest, Max
  <1> HIDE DEF it
  <1>. QED
    BY <1>1, <1>2, ByField!IterFolds

LEMMA GetFieldsFold ==
    ASSUME NEW d, NEW S, NEW types \in Seq(S)
    PROVE  \E f : ByType!IsFold(f, d, types, 0) /\ GetFields(d, types) = f[Len(types)]
  <1> DEFINE it == CHOOSE h : ByType!IsIter(h, d, types, 0)
  <1>1. ByType!IsIter(it, d, types, 0)
    BY ByType!IterExists, Zenon
  <1>2. GetFields(d, types) = it[DOMAIN types]
    BY DEF GetFields, ByType!IsIter, FoldLeft, MapThenFoldSet, ByType!Greatest, Max
  <1> HIDE DEF it
  <1>. QED
    BY <1>1, <1>2, ByType!IterFolds

LEMMA NoFields ==
    ASSUME NEW e
    PROVE  PutFields(e, <<>>) = e /\ GetFields(e, <<>>) = e
  <1>1. <<>> \in Seq({}) /\ Len(<<>>) = 0
    OBVIOUS
  <1>2. PICK f : ByField!IsFold(f, e, <<>>, 0) /\ PutFields(e, <<>>) = f[Len(<<>>)]
    BY <1>1, PutFieldsFold
  <1>3. PICK g : ByType!IsFold(g, e, <<>>, 0) /\ GetFields(e, <<>>) = g[Len(<<>>)]
    BY <1>1, GetFieldsFold
  <1>. QED
    BY <1>1, <1>2, <1>3 DEF ByField!IsFold, ByType!IsFold

LEMMA OneFieldPut ==
    ASSUME NEW x, NEW a
    PROVE  PutFields(x, <<a>>)
               = PutField(x, a)
  <1> DEFINE s == <<a>>
  <1>1. s \in Seq({a}) /\ Len(s) = 1
    OBVIOUS
  <1>2. s[1] = a
    OBVIOUS
  <1> HIDE DEF s
  <1>3. PICK g : ByField!IsFold(g, x, s, 0) /\ PutFields(x, s) = g[Len(s)]
    BY <1>1, PutFieldsFold
  <1>4. g[0] = x /\ \A i \in 1..1 : g[i] = PutField(g[i - 1], s[i])
    BY <1>1, <1>3 DEF ByField!IsFold
  <1>5. /\ g[1] = PutField(g[0], s[1])
    BY <1>4
  <1>. QED
    BY <1>1, <1>2, <1>3, <1>4, <1>5 DEF s

LEMMA TwoFieldsPut ==
    ASSUME NEW x, NEW a, NEW b
    PROVE  PutFields(x, <<a, b>>)
               = PutField(PutField(x, a), b)
  <1> DEFINE s == <<a, b>>
  <1>1. s \in Seq({a, b}) /\ Len(s) = 2
    OBVIOUS
  <1>2. s[1] = a /\ s[2] = b
    OBVIOUS
  <1> HIDE DEF s
  <1>3. PICK g : ByField!IsFold(g, x, s, 0) /\ PutFields(x, s) = g[Len(s)]
    BY <1>1, PutFieldsFold
  <1>4. g[0] = x /\ \A i \in 1..2 : g[i] = PutField(g[i - 1], s[i])
    BY <1>1, <1>3 DEF ByField!IsFold
  <1>5. /\ g[1] = PutField(g[0], s[1])
        /\ g[2] = PutField(g[1], s[2])
    BY <1>4
  <1>. QED
    BY <1>1, <1>2, <1>3, <1>4, <1>5 DEF s

LEMMA ThreeFieldsPut ==
    ASSUME NEW x, NEW a, NEW b, NEW c
    PROVE  PutFields(x, <<a, b, c>>)
               = PutField(PutField(PutField(x, a), b), c)
  <1> DEFINE s == <<a, b, c>>
  <1>1. s \in Seq({a, b, c}) /\ Len(s) = 3
    OBVIOUS
  <1>2. s[1] = a /\ s[2] = b /\ s[3] = c
    OBVIOUS
  <1> HIDE DEF s
  <1>3. PICK g : ByField!IsFold(g, x, s, 0) /\ PutFields(x, s) = g[Len(s)]
    BY <1>1, PutFieldsFold
  <1>4. g[0] = x /\ \A i \in 1..3 : g[i] = PutField(g[i - 1], s[i])
    BY <1>1, <1>3 DEF ByField!IsFold
  <1>5. /\ g[1] = PutField(g[0], s[1])
        /\ g[2] = PutField(g[1], s[2])
        /\ g[3] = PutField(g[2], s[3])
    BY <1>4
  <1>. QED
    BY <1>1, <1>2, <1>3, <1>4, <1>5 DEF s

LEMMA FiveFieldsPut ==
    ASSUME NEW x, NEW a, NEW b, NEW c, NEW d, NEW e
    PROVE  PutFields(x, <<a, b, c, d, e>>)
               = PutField(PutField(PutField(PutField(PutField(x, a), b), c), d), e)
  <1> DEFINE s == <<a, b, c, d, e>>
  <1>1. s \in Seq({a, b, c, d, e}) /\ Len(s) = 5
    OBVIOUS
  <1>2. s[1] = a /\ s[2] = b /\ s[3] = c /\ s[4] = d /\ s[5] = e
    OBVIOUS
  <1> HIDE DEF s
  <1>3. PICK g : ByField!IsFold(g, x, s, 0) /\ PutFields(x, s) = g[Len(s)]
    BY <1>1, PutFieldsFold
  <1>4. g[0] = x /\ \A i \in 1..5 : g[i] = PutField(g[i - 1], s[i])
    BY <1>1, <1>3 DEF ByField!IsFold
  <1>5. /\ g[1] = PutField(g[0], s[1])
        /\ g[2] = PutField(g[1], s[2])
        /\ g[3] = PutField(g[2], s[3])
        /\ g[4] = PutField(g[3], s[4])
        /\ g[5] = PutField(g[4], s[5])
    BY <1>4
  <1>. QED
    BY <1>1, <1>2, <1>3, <1>4, <1>5 DEF s

LEMMA SixFieldsPut ==
    ASSUME NEW x, NEW a, NEW b, NEW c, NEW d, NEW e, NEW f
    PROVE  PutFields(x, <<a, b, c, d, e, f>>)
               = PutField(PutField(PutField(PutField(PutField(PutField(x, a), b), c), d), e), f)
  <1> DEFINE s == <<a, b, c, d, e, f>>
  <1>1. s \in Seq({a, b, c, d, e, f}) /\ Len(s) = 6
    OBVIOUS
  <1>2. s[1] = a /\ s[2] = b /\ s[3] = c /\ s[4] = d /\ s[5] = e /\ s[6] = f
    OBVIOUS
  <1> HIDE DEF s
  <1>3. PICK g : ByField!IsFold(g, x, s, 0) /\ PutFields(x, s) = g[Len(s)]
    BY <1>1, PutFieldsFold
  <1>4. g[0] = x /\ \A i \in 1..6 : g[i] = PutField(g[i - 1], s[i])
    BY <1>1, <1>3 DEF ByField!IsFold
  <1>5. /\ g[1] = PutField(g[0], s[1])
        /\ g[2] = PutField(g[1], s[2])
        /\ g[3] = PutField(g[2], s[3])
        /\ g[4] = PutField(g[3], s[4])
        /\ g[5] = PutField(g[4], s[5])
        /\ g[6] = PutField(g[5], s[6])
    BY <1>4
  <1>. QED
    BY <1>1, <1>2, <1>3, <1>4, <1>5 DEF s

LEMMA OneFieldRead ==
    ASSUME NEW r, NEW a
    PROVE  GetFields(r, <<a>>)
               = GetField(r, a)
  <1> DEFINE s == <<a>>
  <1>1. s \in Seq({a}) /\ Len(s) = 1
    OBVIOUS
  <1>2. s[1] = a
    OBVIOUS
  <1> HIDE DEF s
  <1>3. PICK g : ByType!IsFold(g, r, s, 0) /\ GetFields(r, s) = g[Len(s)]
    BY <1>1, GetFieldsFold
  <1>4. g[0] = r /\ \A i \in 1..1 : g[i] = GetField(g[i - 1], s[i])
    BY <1>1, <1>3 DEF ByType!IsFold
  <1>5. /\ g[1] = GetField(g[0], s[1])
    BY <1>4
  <1>. QED
    BY <1>1, <1>2, <1>3, <1>4, <1>5 DEF s

LEMMA TwoFieldsRead ==
    ASSUME NEW r, NEW a, NEW b
    PROVE  GetFields(r, <<a, b>>)
               = GetField(GetField(r, a), b)
  <1> DEFINE s == <<a, b>>
  <1>1. s \in Seq({a, b}) /\ Len(s) = 2
    OBVIOUS
  <1>2. s[1] = a /\ s[2] = b
    OBVIOUS
  <1> HIDE DEF s
  <1>3. PICK g : ByType!IsFold(g, r, s, 0) /\ GetFields(r, s) = g[Len(s)]
    BY <1>1, GetFieldsFold
  <1>4. g[0] = r /\ \A i \in 1..2 : g[i] = GetField(g[i - 1], s[i])
    BY <1>1, <1>3 DEF ByType!IsFold
  <1>5. /\ g[1] = GetField(g[0], s[1])
        /\ g[2] = GetField(g[1], s[2])
    BY <1>4
  <1>. QED
    BY <1>1, <1>2, <1>3, <1>4, <1>5 DEF s

LEMMA ThreeFieldsRead ==
    ASSUME NEW r, NEW a, NEW b, NEW c
    PROVE  GetFields(r, <<a, b, c>>)
               = GetField(GetField(GetField(r, a), b), c)
  <1> DEFINE s == <<a, b, c>>
  <1>1. s \in Seq({a, b, c}) /\ Len(s) = 3
    OBVIOUS
  <1>2. s[1] = a /\ s[2] = b /\ s[3] = c
    OBVIOUS
  <1> HIDE DEF s
  <1>3. PICK g : ByType!IsFold(g, r, s, 0) /\ GetFields(r, s) = g[Len(s)]
    BY <1>1, GetFieldsFold
  <1>4. g[0] = r /\ \A i \in 1..3 : g[i] = GetField(g[i - 1], s[i])
    BY <1>1, <1>3 DEF ByType!IsFold
  <1>5. /\ g[1] = GetField(g[0], s[1])
        /\ g[2] = GetField(g[1], s[2])
        /\ g[3] = GetField(g[2], s[3])
    BY <1>4
  <1>. QED
    BY <1>1, <1>2, <1>3, <1>4, <1>5 DEF s
-----------------------------------------------------------------------------
(***************************************************************************)
(* The decoder, of a message that may have been cut: a number is there or  *)
(* an exception is thrown, a blob or a string is there, or it is cut and   *)
(* the decoder is beyond the end of its buffer.                            *)
(***************************************************************************)
Readers(V) ==
    [offset : Nat, bytes : Seq(Octet), little : BOOLEAN, encapStack : Seq(Closing),
     ok : {TRUE}, got : Seq(V)]

\* As far as there are octets behind an offset, they are these.
Holds(r, from, octets) ==
    \A i \in 1..Len(octets) : from + i <= Len(r.bytes) => r.bytes[from + i] = octets[i]

\* As far as there are octets, those from an offset on are the encoder's.
Matches(r, from, e) ==
    \A i \in from + 1..e.offset : i <= Len(r.bytes) => r.bytes[i] = e.bytes[i]

LEMMA SliceIs ==
    ASSUME NEW V, NEW r \in Readers(V), NEW from \in Nat, NEW octets \in Seq(Octet),
           Holds(r, from, octets), from + Len(octets) <= Len(r.bytes)
    PROVE  Slice(r, from, Len(octets)) = octets
  <1> DEFINE d == [r EXCEPT !.got = <<>>]
  <1>1. d \in Decoders /\ d.bytes = r.bytes
    <2>1. <<>> \in Seq(Seq(Octet))
      OBVIOUS
    <2>. QED
      BY <2>1, Zenon DEF Readers, Decoders
  <1>2. Slice(d, from, Len(octets)) = Slice(r, from, Len(octets))
    <2> HIDE DEF d
    <2>. QED
      BY <1>1 DEF Slice
  <1>3. Shows(d, from, octets)
    <2>1. Len(octets) \in Nat /\ Len(r.bytes) \in Nat
      BY DEF Readers
    <2> HIDE DEF d
    <2>. QED
      BY <1>1, <2>1 DEF Shows, Holds
  <1> HIDE DEF d
  <1>. QED
    BY <1>1, <1>2, <1>3, SliceShows

LEMMA SliceIsOctets ==
    ASSUME NEW V, NEW r \in Readers(V), NEW from \in Nat, NEW n \in Int
    PROVE  Slice(r, from, n) \in Seq(Octet)
  <1> DEFINE last == IF from + n < Len(r.bytes) THEN from + n ELSE Len(r.bytes)
  <1>1. r.bytes \in Seq(Octet) /\ Len(r.bytes) \in Nat
    BY DEF Readers
  <1>2. last \in Int /\ from + 1 \in Int /\ \A i \in from + 1..last : r.bytes[i] \in Octet
    BY <1>1
  <1>3. Slice(r, from, n) = SubSeq(r.bytes, from + 1, last)
    BY DEF Slice
  <1> HIDE DEF last
  <1>. QED
    BY <1>2, <1>3, SubSeqProperties

LEMMA MovesFurther ==
    ASSUME NEW V, NEW r \in Readers(V), NEW offset \in Nat
    PROVE  /\ [r EXCEPT !.offset = offset] \in Readers(V)
           /\ \A v \in V : Advanced(r, offset, v) \in Readers(V)
  <1>1. \A v \in V : Append(r.got, v) \in Seq(V)
    BY DEF Readers
  <1>. QED
    BY <1>1 DEF Readers, Advanced

LEMMA ReadersOfMore ==
    ASSUME NEW V, NEW r \in Readers(V), NEW W, V \subseteq W
    PROVE  r \in Readers(W)
  <1>1. r.got \in Seq(W)
    BY DEF Readers
  <1>. QED
    BY <1>1 DEF Readers

LEMMA NumberTaken ==
    ASSUME NEW V, NEW r \in Readers(V), NEW p \in AnyWord,
           Holds(r, Aligned(r.offset, Len(p)), InOrder(p, r.little))
    PROVE  LET end == Aligned(r.offset, Len(p)) + Len(p)
           IN  /\ end <= Len(r.bytes) => GetNumber(r, Len(p)) = Advanced(r, end, p)
               /\ end > Len(r.bytes) => GetNumber(r, Len(p)) = Throw(r)
  <1> DEFINE w == Len(p)
             at == Aligned(r.offset, w)
             q == InOrder(p, r.little)
  <1>1. w \in AlignWidth /\ w \in Nat /\ p \in Seq(Octet) /\ r.little \in BOOLEAN /\ r.offset \in Nat
        /\ Len(r.bytes) \in Nat
    BY DEF AnyWord, Readers, AlignWidth
  <1>2. q \in Seq(Octet) /\ Len(q) = w /\ InOrder(q, r.little) = p
    BY <1>1, InOrderKeeps, InOrderTwice
  <1>3. AlignedTo(r.offset, w) = at /\ at \in Nat
    BY <1>1, PaddingAgrees, AlignedUp, Zenon
  <1>4. Holds(r, at, q)
    OBVIOUS
  <1> HIDE DEF q, at, w
  <1>5. CASE at + w <= Len(r.bytes)
    <2>1. Slice(r, at, w) = q
      BY <1>2, <1>3, <1>4, <1>5, SliceIs
    <2>2. ~(at + w > Len(r.bytes))
      BY <1>1, <1>3, <1>5
    <2>3. GetNumber(r, w) = Return([r EXCEPT !.offset = at + w], p)
      BY <1>2, <1>3, <2>1, <2>2 DEF GetNumber
    <2>4. GetNumber(r, w) = Advanced(r, at + w, p)
      BY <2>3 DEF Return, Advanced, Readers
    <2>. QED
      BY <2>2, <2>4 DEF at, w
  <1>6. CASE at + w > Len(r.bytes)
    <2>1. GetNumber(r, w) = Throw(r)
      BY <1>3, <1>6 DEF GetNumber
    <2>2. ~(at + w <= Len(r.bytes))
      BY <1>1, <1>3, <1>6
    <2>. QED
      BY <2>1, <2>2 DEF at, w
  <1>. QED
    BY <1>1, <1>3, <1>5, <1>6

\* What follows a ulong that the decoder keeps for itself.
LEMMA UlongTaken ==
    ASSUME NEW V, NEW r \in Readers(V), NEW n \in Nat, n < UlongLimit,
           Holds(r, Aligned(r.offset, 4), InOrder(Pattern(n, 4), r.little))
    PROVE  LET g == GetNumber(r, 4)
               end == Aligned(r.offset, 4) + 4
           IN  /\ end <= Len(r.bytes) => /\ g.ok /\ Number(Value(g)) = n
                                         /\ [g EXCEPT !.got = Front(@)] = [r EXCEPT !.offset = end]
                                         /\ g = Advanced(r, end, Pattern(n, 4))
               /\ end > Len(r.bytes) => ~g.ok /\ g = Throw(r)
  <1> DEFINE p == Pattern(n, 4)
             g == GetNumber(r, 4)
             end == Aligned(r.offset, 4) + 4
  <1>1. p \in AnyWord /\ Len(p) = 4
    BY PatternIsWord
  <1>2. Number(p) = n
    BY NumberOfPattern
  <1>3. Holds(r, Aligned(r.offset, 4), InOrder(p, r.little))
    OBVIOUS
  <1> HIDE DEF p
  <1>4. /\ end <= Len(r.bytes) => g = Advanced(r, end, p)
        /\ end > Len(r.bytes) => g = Throw(r)
    BY <1>1, <1>3, NumberTaken
  <1> HIDE DEF g, end
  <1>5. ASSUME g = Advanced(r, end, p)
        PROVE  g.ok /\ Number(Value(g)) = n /\ [g EXCEPT !.got = Front(@)] = [r EXCEPT !.offset = end]
    <2>1. g.got = Append(r.got, p) /\ g.ok
      BY <1>5 DEF Advanced, Readers
    <2>2. r.got \in Seq(V \cup {p}) /\ p \in V \cup {p}
      BY DEF Readers
    <2>3. Front(Append(r.got, p)) = r.got /\ Last(Append(r.got, p)) = p
      BY <2>2, FrontOfAppended
    <2>4. [g EXCEPT !.got = Front(@)] = [r EXCEPT !.offset = end]
      BY <1>5, <2>1, <2>3 DEF Advanced, Readers
    <2>. QED
      BY <1>2, <2>1, <2>3, <2>4 DEF Value
  <1>6. ASSUME g = Throw(r)
        PROVE  ~g.ok
    BY <1>6 DEF Throw, Readers
  <1>. QED
    BY <1>4, <1>5, <1>6 DEF g, end, p

LEMMA BlobTaken ==
    ASSUME NEW V, NEW r \in Readers(V), NEW octets \in Seq(Octet), Len(octets) < UlongLimit,
           NEW at, at = Aligned(r.offset, 4),
           Holds(r, at, InOrder(Pattern(Len(octets), 4), r.little)),
           Holds(r, at + 4, octets)
    PROVE  LET end == at + 4 + Len(octets)
           IN  /\ end <= Len(r.bytes) => GetBlob(r) = Advanced(r, end, octets)
               /\ end > Len(r.bytes) =>
                      \/ ~GetBlob(r).ok
                      \/ \E w \in Seq(Octet) : GetBlob(r) = Advanced(r, end, w)
  <1> DEFINE n == Len(octets)
             g == GetNumber(r, 4)
             c == [g EXCEPT !.got = Front(@)]
  <1>1. at \in Nat /\ n \in Nat /\ Len(r.bytes) \in Nat
    <2>1. at \in Nat
      BY AlignedUp, Zenon DEF Readers, AlignWidth
    <2>2. r.bytes \in Seq(Octet)
      BY DEF Readers
    <2>. QED
      BY <2>1, <2>2
  <1>2. /\ at + 4 <= Len(r.bytes) =>
               g.ok /\ Number(Value(g)) = n /\ c = [r EXCEPT !.offset = at + 4]
        /\ at + 4 > Len(r.bytes) => ~g.ok
    BY <1>1, UlongTaken
  <1>3. CASE at + 4 > Len(r.bytes)
    <2>1. GetBlob(r) = g
      BY <1>2, <1>3 DEF GetBlob, WithUlong, After
    <2>2. ~(at + 4 + n <= Len(r.bytes))
      BY <1>1, <1>3
    <2>. QED
      BY <1>2, <1>3, <2>1, <2>2
  <1>4. CASE at + 4 <= Len(r.bytes)
    <2> DEFINE s == Slice(c, c.offset, n)
    <2>1. GetBlob(r) = Return([c EXCEPT !.offset = @ + n], s)
      BY <1>2, <1>4, Zenon DEF GetBlob, WithUlong, After
    <2>2. c \in Readers(V) /\ c.offset = at + 4 /\ c.bytes = r.bytes
      <3>1. at + 4 \in Nat
        BY <1>1
      <3>. QED
        BY <1>2, <1>4, <3>1 DEF Readers
    <2>3. c = [r EXCEPT !.offset = at + 4]
      BY <1>2, <1>4
    <2> HIDE DEF c, g
    <2>4. GetBlob(r) = Advanced(r, at + 4 + n, s)
      <3> HIDE DEF s, n
      <3>. QED
        BY <2>1, <2>2, <2>3 DEF Return, Advanced, Readers
    <2>5. s \in Seq(Octet)
      <3>1. c.offset \in Nat /\ n \in Int
        BY <1>1, <2>2
      <3>. QED
        BY <2>2, <3>1, SliceIsOctets
    <2>6. ASSUME at + 4 + n <= Len(r.bytes)
          PROVE  s = octets
      <3>1. Holds(c, at + 4, octets)
        BY <2>2 DEF Holds
      <3>. QED
        BY <1>1, <2>2, <2>6, <3>1, SliceIs
    <2> HIDE DEF s, n
    <2>. QED
      BY <2>4, <2>5, <2>6 DEF n
  <1>. QED
    BY <1>1, <1>3, <1>4

LEMMA StringTaken ==
    ASSUME NEW V, NEW r \in Readers(V), NEW octets \in Seq(Octet), Len(octets) + 1 < UlongLimit,
           NEW at, at = Aligned(r.offset, 4),
           Holds(r, at, InOrder(Pattern(Len(octets) + 1, 4), r.little)),
           Holds(r, at + 4, octets)
    PROVE  LET end == at + 4 + (Len(octets) + 1)
           IN  /\ end <= Len(r.bytes) => GetString(r) = Advanced(r, end, octets)
               /\ end > Len(r.bytes) =>
                      \/ ~GetString(r).ok
                      \/ \E w \in Seq(Octet) : GetString(r) = Advanced(r, end, w)
  <1> DEFINE n == Len(octets) + 1
             g == GetNumber(r, 4)
             c == [g EXCEPT !.got = Front(@)]
  <1>1. at \in Nat /\ n \in Nat /\ Len(r.bytes) \in Nat /\ n - 1 = Len(octets)
    <2>1. at \in Nat
      BY AlignedUp, Zenon DEF Readers, AlignWidth
    <2>2. r.bytes \in Seq(Octet)
      BY DEF Readers
    <2>. QED
      BY <2>1, <2>2
  <1>2. /\ at + 4 <= Len(r.bytes) =>
               g.ok /\ Number(Value(g)) = n /\ c = [r EXCEPT !.offset = at + 4]
        /\ at + 4 > Len(r.bytes) => ~g.ok
    BY <1>1, UlongTaken
  <1>3. CASE at + 4 > Len(r.bytes)
    <2>1. GetString(r) = g
      BY <1>2, <1>3 DEF GetString, WithUlong, After
    <2>2. ~(at + 4 + n <= Len(r.bytes))
      BY <1>1, <1>3
    <2>. QED
      BY <1>2, <1>3, <2>1, <2>2
  <1>4. CASE at + 4 <= Len(r.bytes)
    <2> DEFINE s == Slice(c, c.offset, n - 1)
    <2>1. GetString(r) = Return([c EXCEPT !.offset = @ + n], s)
      BY <1>2, <1>4, Zenon DEF GetString, StringOf, WithUlong, After
    <2>2. c \in Readers(V) /\ c.offset = at + 4 /\ c.bytes = r.bytes
      <3>1. at + 4 \in Nat
        BY <1>1
      <3>. QED
        BY <1>2, <1>4, <3>1 DEF Readers
    <2>3. c = [r EXCEPT !.offset = at + 4]
      BY <1>2, <1>4
    <2> HIDE DEF c, g
    <2>4. GetString(r) = Advanced(r, at + 4 + n, s)
      <3> HIDE DEF s, n
      <3>. QED
        BY <2>1, <2>2, <2>3 DEF Return, Advanced, Readers
    <2>5. s \in Seq(Octet)
      <3>1. c.offset \in Nat /\ n - 1 \in Int
        BY <1>1, <2>2
      <3>. QED
        BY <2>2, <3>1, SliceIsOctets
    <2>6. ASSUME at + 4 + n <= Len(r.bytes)
          PROVE  s = octets
      <3>1. Holds(c, at + 4, octets)
        BY <2>2 DEF Holds
      <3>2. at + 4 + Len(octets) <= Len(c.bytes)
        BY <1>1, <2>2, <2>6
      <3>3. Slice(c, at + 4, Len(octets)) = octets
        BY <1>1, <2>2, <3>1, <3>2, SliceIs
      <3>. QED
        BY <1>1, <2>2, <3>3
    <2> HIDE DEF s, n
    <2>. QED
      BY <2>4, <2>5, <2>6 DEF n
  <1>. QED
    BY <1>1, <1>3, <1>4
-----------------------------------------------------------------------------
LEMMA MatchingHolds ==
    ASSUME NEW V, NEW r \in Readers(V), NEW from \in Nat, NEW c \in Encoders, Matches(r, from, c),
           NEW at \in Nat, at >= from, NEW octets \in Seq(Octet), at + Len(octets) <= c.offset,
           \A i \in 1..Len(octets) : c.bytes[at + i] = octets[i]
    PROVE  Holds(r, at, octets)
  <1>1. SUFFICES ASSUME NEW i \in 1..Len(octets), at + i <= Len(r.bytes)
                 PROVE  r.bytes[at + i] = octets[i]
    BY DEF Holds
  <1>2. c.offset \in Nat
    BY DEF Encoders
  <1>3. at + i \in from + 1..c.offset
    BY <1>2
  <1>. QED
    BY <1>1, <1>3 DEF Matches

\* What matches a later encoder matches an earlier one.
LEMMA MatchesEarlier ==
    ASSUME NEW V, NEW r \in Readers(V), NEW from \in Nat, NEW e \in Encoders, NEW c \in Later(e),
           Matches(r, from, c), NEW at \in Nat, at >= from
    PROVE  Matches(r, at, e)
  <1>1. SUFFICES ASSUME NEW i \in at + 1..e.offset, i <= Len(r.bytes)
                 PROVE  r.bytes[i] = e.bytes[i]
    BY DEF Matches
  <1>2. /\ e.offset \in Nat /\ c.offset \in Nat /\ c.offset >= e.offset
        /\ \A j \in 1..e.offset : c.bytes[j] = e.bytes[j]
    BY DEF Encoders, Later, Beyond
  <1>3. i \in from + 1..c.offset /\ i \in 1..e.offset
    BY <1>2
  <1>. QED
    BY <1>1, <1>2, <1>3 DEF Matches

LEMMA InsteadOf ==
    ASSUME NEW V, NEW r \in Readers(V), NEW offset, NEW p, NEW v
    PROVE  /\ Advanced(r, offset, p).ok /\ Value(Advanced(r, offset, p)) = p
           /\ Instead(Advanced(r, offset, p), v) = Advanced(r, offset, v)
  <1> DEFINE a == Advanced(r, offset, p)
  <1>1. a.got = Append(r.got, p) /\ a.ok
    BY DEF Advanced, Readers
  <1>2. r.got \in Seq(V \cup {p}) /\ p \in V \cup {p}
    BY DEF Readers
  <1>3. Front(Append(r.got, p)) = r.got /\ Last(Append(r.got, p)) = p
    BY <1>2, FrontOfAppended
  <1>4. Instead(a, v) = [a EXCEPT !.got = Append(r.got, v)]
    BY <1>1, <1>3 DEF Instead, Advanced
  <1>5. [a EXCEPT !.got = Append(r.got, v)] = Advanced(r, offset, v)
    BY DEF Advanced, Readers
  <1>. QED
    BY <1>1, <1>3, <1>4, <1>5 DEF Value

LEMMA NumberOfTwo ==
    ASSUME NEW n \in UnsignedShort
    PROVE  n \in Nat /\ Number(Pattern(n, 2)) = n
  <1>1. n \in Nat /\ n < 65536
    BY SMTT(30) DEF UnsignedShort
  <1> DEFINE p == Pattern(n, 2)
             a == n \div 256
  <1>2. p \in Seq(Octet) /\ Len(p) = 2
    <2>1. n \in Int
      BY <1>1, SMTT(30)
    <2>. QED
      BY <2>1, PatternIsWord, Zenon DEF AnyWord
  <1>3. p[1] = a % 256 /\ p[2] = n % 256
    <2>1. p[1] = a % 256 /\ p[2] = (n \div 1) % 256
      BY SMTT(30) DEF Pattern, Weight
    <2>2. n \div 1 = n
      BY <1>1, SMTT(30)
    <2> HIDE DEF a, p
    <2>. QED
      BY <2>1, <2>2, Zenon
  <1>4. a \in Int /\ 0 <= n - a * 256 /\ n - a * 256 < 256
        /\ 0 <= a - 0 * 256 /\ a - 0 * 256 < 256
    BY <1>1, SMTT(30)
  <1> HIDE DEF p, a
  <1>5. p[2] + a * 256 = n
    BY <1>1, <1>3, <1>4, RemainderIs, SMTT(30)
  <1>6. p[1] + 0 * 256 = a
    BY <1>3, <1>4, RemainderIs, SMTT(30)
  <1>7. PICK f : ByOctet!IsFold(f, 0, p, 0) /\ Number(p) = f[Len(p)]
    BY <1>2, NumberFolds, Zenon
  <1>8. f[0] = 0 /\ f[1] = f[0] * 256 + p[1] /\ f[2] = f[1] * 256 + p[2]
    <2>1. f[0] = 0 /\ \A i \in 1..2 : f[i] = f[i - 1] * 256 + p[i]
      BY <1>2, <1>7, SMTT(30) DEF ByOctet!IsFold
    <2>. QED
      BY <2>1, SMTT(30)
  <1>9. p[1] \in Int /\ p[2] \in Int
    BY <1>1, <1>3, <1>4, SMTT(30)
  <1>10. Number(p) = n
    BY <1>1, <1>2, <1>4, <1>5, <1>6, <1>7, <1>8, <1>9, SMTT(30)
  <1>. QED
    BY <1>1, <1>10 DEF p

LEMMA NumberOfOne ==
    ASSUME NEW o \in Octet
    PROVE  Number(<<o>>) = o
  <1> DEFINE p == <<o>>
  <1>1. p \in Seq(Octet) /\ Len(p) = 1 /\ p[1] = o /\ o \in Int
    BY DEF Octet
  <1> HIDE DEF p
  <1>2. PICK f : ByOctet!IsFold(f, 0, p, 0) /\ Number(p) = f[Len(p)]
    BY <1>1, NumberFolds
  <1>3. f[0] = 0 /\ f[1] = f[0] * 256 + p[1]
    <2>1. f[0] = 0 /\ \A i \in 1..1 : f[i] = f[i - 1] * 256 + p[i]
      BY <1>1, <1>2 DEF ByOctet!IsFold
    <2>. QED
      BY <2>1
  <1>. QED
    BY <1>1, <1>2, <1>3 DEF p

\* A number of a given width, put and read.
LEMMA NumberAgain ==
    ASSUME NEW V, NEW r \in Readers(V), NEW e \in Encoders, r.offset = e.offset, r.little = e.little,
           NEW p \in AnyWord, NEW c, c = PutNumber(e, p), Matches(r, e.offset, c)
    PROVE  /\ c.offset <= Len(r.bytes) => GetNumber(r, Len(p)) = Advanced(r, c.offset, p)
           /\ c.offset > Len(r.bytes) => GetNumber(r, Len(p)) = Throw(r)
  <1> DEFINE at == Aligned(e.offset, Len(p))
             q == InOrder(p, e.little)
  <1>1. p \in Seq(Octet) /\ Len(p) \in AlignWidth /\ e.offset \in Nat /\ e.little \in BOOLEAN
    BY DEF AnyWord, Encoders
  <1>2. at \in Nat /\ at >= e.offset
    BY <1>1, AlignedUp
  <1>3. q \in Seq(Octet) /\ Len(q) = Len(p)
    BY <1>1, InOrderKeeps
  <1>4. c \in Encoders /\ c.offset = at + Len(p) /\ \A i \in 1..Len(p) : c.bytes[at + i] = q[i]
    BY NumberKeeps, LaterIsEncoder
  <1> HIDE DEF at, q
  <1>5. Holds(r, at, q)
    <2>1. at + Len(q) <= c.offset /\ \A i \in 1..Len(q) : c.bytes[at + i] = q[i]
      BY <1>1, <1>2, <1>3, <1>4
    <2>. QED
      BY <1>1, <1>2, <1>3, <1>4, <2>1, MatchingHolds
  <1>6. /\ at + Len(p) <= Len(r.bytes) => GetNumber(r, Len(p)) = Advanced(r, at + Len(p), p)
        /\ at + Len(p) > Len(r.bytes) => GetNumber(r, Len(p)) = Throw(r)
    BY <1>5, NumberTaken DEF at, q
  <1>. QED
    BY <1>4, <1>6

LEMMA OctetPut ==
    ASSUME NEW e \in Encoders, NEW o \in Octet, NEW V, NEW r \in Readers(V), r.offset = e.offset,
           NEW c, c = PutOctet(e, o), Matches(r, e.offset, c)
    PROVE  /\ c.offset <= Len(r.bytes) => GetNumber(r, 1) = Advanced(r, c.offset, <<o>>)
           /\ c.offset > Len(r.bytes) => GetNumber(r, 1) = Throw(r)
  <1> DEFINE p == <<o>>
  <1>1. p \in Seq(Octet) /\ Len(p) = 1 /\ p[1] = o
    OBVIOUS
  <1>2. c \in Encoders /\ c.offset = e.offset + 1 /\ c.bytes[e.offset + 1] = o /\ e.offset \in Nat
    BY OctetKeeps, LaterIsEncoder DEF Encoders
  <1>3. Aligned(e.offset, 1) = e.offset
    BY <1>2 DEF Aligned
  <1> HIDE DEF p
  <1>4. \A order \in BOOLEAN : InOrder(p, order) = p
    <2>1. Reverse(p) = [i \in 1..1 |-> p[1]]
      BY <1>1 DEF Reverse
    <2>2. p = [i \in 1..1 |-> p[1]]
      BY <1>1
    <2>. QED
      BY <2>1, <2>2 DEF InOrder
  <1>5. p \in AnyWord
    BY <1>1 DEF AnyWord, AlignWidth
  <1>6. Holds(r, e.offset, p)
    <2>1. \A i \in 1..Len(p) : c.bytes[e.offset + i] = p[i]
      BY <1>1, <1>2
    <2>2. e.offset + Len(p) <= c.offset
      BY <1>1, <1>2
    <2>3. e.offset >= e.offset
      BY <1>2
    <2>. QED
      BY <1>1, <1>2, <2>1, <2>2, <2>3, MatchingHolds, Zenon
  <1>7. Holds(r, Aligned(r.offset, Len(p)), InOrder(p, r.little))
    <2>1. r.little \in BOOLEAN
      BY DEF Readers
    <2>. QED
      BY <1>1, <1>3, <1>4, <1>6, <2>1
  <1>8. /\ e.offset + 1 <= Len(r.bytes) => GetNumber(r, 1) = Advanced(r, e.offset + 1, p)
        /\ e.offset + 1 > Len(r.bytes) => GetNumber(r, 1) = Throw(r)
    BY <1>1, <1>3, <1>5, <1>7, NumberTaken
  <1>. QED
    BY <1>2, <1>8 DEF p

\* A field that is read as it was written.
FieldFits(f) ==
    \/ f.type = "ulong" /\ f.v \in Nat /\ f.v < UlongLimit
    \/ f.type = "ushort" /\ f.v \in UnsignedShort
    \/ f.type = "octet" /\ f.v \in Octet
    \/ f.type \in {"blob", "string"} /\ f.v \in Seq(Octet)

LEMMA FieldFitsIsOK ==
    ASSUME NEW f, FieldFits(f)
    PROVE  FieldOK(f)
  <1>1. \A v \in UnsignedShort : v \in Int
    BY NumberOfTwo
  <1>. QED
    BY <1>1 DEF FieldFits, FieldOK

\* The text or key that was read, or what is left of it.
Cut(r, g, offset) == ~g.ok \/ \E w \in Seq(Octet) : g = Advanced(r, offset, w)

\* Whether a field of this type is cut silently.
Silent(type) == type \in {"blob", "string"}

LEMMA NumberFieldTaken ==
    ASSUME NEW V, NEW r \in Readers(V), NEW type, type \in DOMAIN Width,
           NEW p \in AnyWord, Width[type] = Len(p), NEW v, v = Number(p), NEW end,
           /\ end <= Len(r.bytes) => GetNumber(r, Len(p)) = Advanced(r, end, p)
           /\ end > Len(r.bytes) => GetNumber(r, Len(p)) = Throw(r)
    PROVE  /\ end <= Len(r.bytes) => GetField(r, type) = Advanced(r, end, v)
           /\ end > Len(r.bytes) => ~GetField(r, type).ok
  <1> DEFINE g == GetNumber(r, Len(p))
  <1>1. r.ok
    BY DEF Readers
  <1>2. GetField(r, type) = IF g.ok THEN Instead(g, Number(Value(g))) ELSE g
    BY <1>1, GetFieldIs
  <1>3. ASSUME g = Advanced(r, end, p)
        PROVE  g.ok /\ Value(g) = p /\ Instead(g, v) = Advanced(r, end, v)
    <2>1. /\ Advanced(r, end, p).ok /\ Value(Advanced(r, end, p)) = p
          /\ Instead(Advanced(r, end, p), v) = Advanced(r, end, v)
      BY InsteadOf
    <2> HIDE DEF g
    <2>. QED
      BY <1>3, <2>1, Zenon
  <1>4. ASSUME g = Throw(r)
        PROVE  ~g.ok
    BY <1>4 DEF Throw, Readers
  <1>5. (end <= Len(r.bytes) => g = Advanced(r, end, p)) /\ (end > Len(r.bytes) => g = Throw(r))
    OBVIOUS
  <1> HIDE DEF g
  <1>. QED
    BY <1>2, <1>3, <1>4, <1>5, Zenon

LEMMA UlongFieldTaken ==
    ASSUME NEW V, NEW r \in Readers(V), NEW e \in Encoders, r.offset = e.offset, r.little = e.little,
           NEW v \in Nat, v < UlongLimit, NEW c, c = PutUlong(e, v), Matches(r, e.offset, c)
    PROVE  /\ c.offset <= Len(r.bytes) => GetField(r, "ulong") = Advanced(r, c.offset, v)
           /\ c.offset > Len(r.bytes) => ~GetField(r, "ulong").ok
  <1> DEFINE p == Pattern(v, 4)
             type == "ulong"
  <1>1. p \in AnyWord /\ Len(p) = 4
    BY PatternIsWord
  <1>2. v = Number(p)
    BY NumberOfPattern
  <1>3. c = PutNumber(e, p)
    BY DEF PutUlong
  <1>4. type \in DOMAIN Width /\ Width[type] = 4
    BY DEF Width
  <1> HIDE DEF p, type
  <1>5. /\ c.offset <= Len(r.bytes) => GetNumber(r, Len(p)) = Advanced(r, c.offset, p)
        /\ c.offset > Len(r.bytes) => GetNumber(r, Len(p)) = Throw(r)
    BY <1>1, <1>3, NumberAgain, Zenon
  <1>6. Width[type] = Len(p)
    BY <1>1, <1>4
  <1>7. /\ c.offset <= Len(r.bytes) => GetField(r, type) = Advanced(r, c.offset, v)
        /\ c.offset > Len(r.bytes) => ~GetField(r, type).ok
    BY <1>1, <1>2, <1>4, <1>5, <1>6, NumberFieldTaken, Zenon
  <1>. QED
    BY <1>7 DEF type

LEMMA UshortFieldTaken ==
    ASSUME NEW V, NEW r \in Readers(V), NEW e \in Encoders, r.offset = e.offset, r.little = e.little,
           NEW v \in UnsignedShort, NEW c, c = PutUshort(e, v), Matches(r, e.offset, c)
    PROVE  /\ c.offset <= Len(r.bytes) => GetField(r, "ushort") = Advanced(r, c.offset, v)
           /\ c.offset > Len(r.bytes) => ~GetField(r, "ushort").ok
  <1> DEFINE p == Pattern(v, 2)
             type == "ushort"
  <1>1. v \in Nat /\ v = Number(p)
    BY NumberOfTwo
  <1>2. p \in AnyWord /\ Len(p) = 2
    <2>1. v \in Int
      BY <1>1
    <2>. QED
      BY <2>1, PatternIsWord
  <1>3. c = PutNumber(e, p)
    BY DEF PutUshort
  <1>4. type \in DOMAIN Width /\ Width[type] = 2
    BY DEF Width
  <1> HIDE DEF p, type
  <1>5. /\ c.offset <= Len(r.bytes) => GetNumber(r, Len(p)) = Advanced(r, c.offset, p)
        /\ c.offset > Len(r.bytes) => GetNumber(r, Len(p)) = Throw(r)
    BY <1>2, <1>3, NumberAgain, Zenon
  <1>6. Width[type] = Len(p)
    BY <1>2, <1>4
  <1>7. /\ c.offset <= Len(r.bytes) => GetField(r, type) = Advanced(r, c.offset, v)
        /\ c.offset > Len(r.bytes) => ~GetField(r, type).ok
    BY <1>1, <1>2, <1>4, <1>5, <1>6, NumberFieldTaken, Zenon
  <1>. QED
    BY <1>7 DEF type

LEMMA OctetFieldTaken ==
    ASSUME NEW V, NEW r \in Readers(V), NEW e \in Encoders, r.offset = e.offset,
           NEW v \in Octet, NEW c, c = PutOctet(e, v), Matches(r, e.offset, c)
    PROVE  /\ c.offset <= Len(r.bytes) => GetField(r, "octet") = Advanced(r, c.offset, v)
           /\ c.offset > Len(r.bytes) => ~GetField(r, "octet").ok
  <1> DEFINE p == <<v>>
             type == "octet"
  <1>1. p \in Seq(Octet) /\ Len(p) = 1
    OBVIOUS
  <1>2. v = Number(p)
    BY NumberOfOne
  <1>3. type \in DOMAIN Width /\ Width[type] = 1
    BY DEF Width
  <1>4. /\ c.offset <= Len(r.bytes) => GetNumber(r, 1) = Advanced(r, c.offset, p)
        /\ c.offset > Len(r.bytes) => GetNumber(r, 1) = Throw(r)
    BY OctetPut, Zenon
  <1> HIDE DEF p, type
  <1>5. p \in AnyWord
    BY <1>1 DEF AnyWord, AlignWidth
  <1>6. Width[type] = Len(p)
    BY <1>1, <1>3
  <1>7. /\ c.offset <= Len(r.bytes) => GetNumber(r, Len(p)) = Advanced(r, c.offset, p)
        /\ c.offset > Len(r.bytes) => GetNumber(r, Len(p)) = Throw(r)
    BY <1>1, <1>4, Zenon
  <1>8. /\ c.offset <= Len(r.bytes) => GetField(r, type) = Advanced(r, c.offset, v)
        /\ c.offset > Len(r.bytes) => ~GetField(r, type).ok
    BY <1>2, <1>3, <1>5, <1>6, <1>7, NumberFieldTaken, Zenon
  <1>. QED
    BY <1>8 DEF type

LEMMA BlobFieldTaken ==
    ASSUME NEW V, NEW r \in Readers(V), NEW e \in Encoders, r.offset = e.offset, r.little = e.little,
           NEW v \in Seq(Octet), NEW c, c = PutBlob(e, v), c.offset < UlongLimit,
           Matches(r, e.offset, c)
    PROVE  /\ c.offset <= Len(r.bytes) => GetField(r, "blob") = Advanced(r, c.offset, v)
           /\ c.offset > Len(r.bytes) => Cut(r, GetField(r, "blob"), c.offset)
  <1> DEFINE at == Aligned(e.offset, 4)
             n == Len(v)
             q == InOrder(Pattern(n, 4), e.little)
  <1>1. /\ c \in Later(e) /\ c.offset = at + 4 + n
        /\ \A i \in 1..4 : c.bytes[at + i] = q[i]
        /\ \A i \in 1..n : c.bytes[at + 4 + i] = v[i]
    BY BlobKeeps, Zenon
  <1>2. c \in Encoders
    BY <1>1, LaterIsEncoder
  <1>3. e.offset \in Nat /\ e.little \in BOOLEAN /\ n \in Nat
    BY DEF Encoders
  <1>4. at \in Nat /\ at >= e.offset
    BY <1>3, AlignedUp DEF AlignWidth
  <1>5. at = Aligned(r.offset, 4)
    OBVIOUS
  <1>6. q \in Seq(Octet) /\ Len(q) = 4
    <2>1. n \in Int
      BY <1>3
    <2>2. Pattern(n, 4) \in Seq(Octet) /\ Len(Pattern(n, 4)) = 4
      BY <2>1, PatternIsWord DEF AnyWord
    <2>. QED
      BY <1>3, <2>2, InOrderKeeps
  <1>7. GetField(r, "blob") = GetBlob(r)
    BY GetFieldIs DEF Readers
  <1> HIDE DEF at, q
  <1>8. at + Len(q) <= c.offset /\ n < UlongLimit /\ at + 4 >= e.offset /\ at + 4 \in Nat
        /\ at + 4 + n <= c.offset
    <2>1. UlongLimit \in Int
      BY SMTT(30) DEF UlongLimit
    <2>. QED
      BY <1>1, <1>3, <1>4, <1>6, <2>1
  <1>9. Holds(r, at, q)
    <2>1. \A i \in 1..Len(q) : c.bytes[at + i] = q[i]
      BY <1>1, <1>6, Zenon
    <2>. QED
      BY <1>2, <1>3, <1>4, <1>6, <1>8, <2>1, MatchingHolds, Zenon
  <1>10. Holds(r, at + 4, v)
    BY <1>1, <1>2, <1>3, <1>8, MatchingHolds, Zenon
  <1>11. Holds(r, at, InOrder(Pattern(n, 4), r.little))
    BY <1>9 DEF q
  <1>12. /\ at + 4 + n <= Len(r.bytes) => GetBlob(r) = Advanced(r, at + 4 + n, v)
         /\ at + 4 + n > Len(r.bytes) => Cut(r, GetBlob(r), at + 4 + n)
    BY <1>5, <1>8, <1>10, <1>11, BlobTaken, Zenon DEF Cut
  <1>. QED
    BY <1>1, <1>7, <1>12, Zenon

LEMMA StringFieldTaken ==
    ASSUME NEW V, NEW r \in Readers(V), NEW e \in Encoders, r.offset = e.offset, r.little = e.little,
           NEW v \in Seq(Octet), NEW c, c = PutString(e, v), c.offset < UlongLimit,
           Matches(r, e.offset, c)
    PROVE  /\ c.offset <= Len(r.bytes) => GetField(r, "string") = Advanced(r, c.offset, v)
           /\ c.offset > Len(r.bytes) => Cut(r, GetField(r, "string"), c.offset)
  <1> DEFINE at == Aligned(e.offset, 4)
             n == Len(v)
             q == InOrder(Pattern(n + 1, 4), e.little)
  <1>1. /\ c \in Later(e) /\ c.offset = at + 4 + (n + 1)
        /\ \A i \in 1..4 : c.bytes[at + i] = q[i]
        /\ \A i \in 1..n : c.bytes[at + 4 + i] = v[i]
    BY StringKeeps, Zenon
  <1>2. c \in Encoders
    BY <1>1, LaterIsEncoder
  <1>3. e.offset \in Nat /\ e.little \in BOOLEAN /\ n \in Nat
    BY DEF Encoders
  <1>4. at \in Nat /\ at >= e.offset
    BY <1>3, AlignedUp DEF AlignWidth
  <1>5. at = Aligned(r.offset, 4)
    OBVIOUS
  <1>6. q \in Seq(Octet) /\ Len(q) = 4
    <2>1. n + 1 \in Int
      BY <1>3
    <2>2. Pattern(n + 1, 4) \in Seq(Octet) /\ Len(Pattern(n + 1, 4)) = 4
      BY <2>1, PatternIsWord DEF AnyWord
    <2>. QED
      BY <1>3, <2>2, InOrderKeeps
  <1>7. GetField(r, "string") = GetString(r)
    BY GetFieldIs DEF Readers
  <1> HIDE DEF at, q
  <1>8. at + Len(q) <= c.offset /\ n + 1 < UlongLimit /\ at + 4 >= e.offset /\ at + 4 \in Nat
        /\ at + 4 + n <= c.offset
    <2>1. UlongLimit \in Int
      BY SMTT(30) DEF UlongLimit
    <2>. QED
      BY <1>1, <1>3, <1>4, <1>6, <2>1
  <1>9. Holds(r, at, q)
    <2>1. \A i \in 1..Len(q) : c.bytes[at + i] = q[i]
      BY <1>1, <1>6, Zenon
    <2>. QED
      BY <1>2, <1>3, <1>4, <1>6, <1>8, <2>1, MatchingHolds, Zenon
  <1>10. Holds(r, at + 4, v)
    BY <1>1, <1>2, <1>3, <1>8, MatchingHolds, Zenon
  <1>11. Holds(r, at, InOrder(Pattern(n + 1, 4), r.little))
    BY <1>9 DEF q
  <1>12. /\ at + 4 + (n + 1) <= Len(r.bytes) => GetString(r) = Advanced(r, at + 4 + (n + 1), v)
         /\ at + 4 + (n + 1) > Len(r.bytes) => Cut(r, GetString(r), at + 4 + (n + 1))
    BY <1>5, <1>8, <1>10, <1>11, StringTaken, Zenon DEF Cut
  <1>. QED
    BY <1>1, <1>7, <1>12, Zenon

LEMMA FieldTaken ==
    ASSUME NEW V, NEW r \in Readers(V), NEW e \in Encoders, r.offset = e.offset, r.little = e.little,
           NEW f, FieldFits(f), NEW c, c = PutField(e, f), c.offset < UlongLimit,
           Matches(r, e.offset, c)
    PROVE  /\ c.offset <= Len(r.bytes) => GetField(r, f.type) = Advanced(r, c.offset, f.v)
           /\ c.offset > Len(r.bytes) =>
                  IF Silent(f.type) THEN Cut(r, GetField(r, f.type), c.offset)
                  ELSE ~GetField(r, f.type).ok
  <1>1. CASE f.type = "ulong" /\ f.v \in Nat /\ f.v < UlongLimit
    <2>1. c = PutUlong(e, f.v) /\ ~Silent(f.type)
      BY <1>1, PutFieldIs DEF Silent
    <2>2. /\ c.offset <= Len(r.bytes) => GetField(r, "ulong") = Advanced(r, c.offset, f.v)
          /\ c.offset > Len(r.bytes) => ~GetField(r, "ulong").ok
      BY <1>1, <2>1, UlongFieldTaken, Zenon
    <2>. QED
      BY <1>1, <2>1, <2>2, Zenon
  <1>2. CASE f.type = "ushort" /\ f.v \in UnsignedShort
    <2>1. c = PutUshort(e, f.v) /\ ~Silent(f.type)
      BY <1>2, PutFieldIs DEF Silent
    <2>2. /\ c.offset <= Len(r.bytes) => GetField(r, "ushort") = Advanced(r, c.offset, f.v)
          /\ c.offset > Len(r.bytes) => ~GetField(r, "ushort").ok
      BY <1>2, <2>1, UshortFieldTaken, Zenon
    <2>. QED
      BY <1>2, <2>1, <2>2, Zenon
  <1>3. CASE f.type = "octet" /\ f.v \in Octet
    <2>1. c = PutOctet(e, f.v) /\ ~Silent(f.type)
      BY <1>3, PutFieldIs DEF Silent
    <2>2. /\ c.offset <= Len(r.bytes) => GetField(r, "octet") = Advanced(r, c.offset, f.v)
          /\ c.offset > Len(r.bytes) => ~GetField(r, "octet").ok
      BY <1>3, <2>1, OctetFieldTaken, Zenon
    <2>. QED
      BY <1>3, <2>1, <2>2, Zenon
  <1>4. CASE f.type = "blob" /\ f.v \in Seq(Octet)
    <2>1. c = PutBlob(e, f.v) /\ Silent(f.type)
      BY <1>4, PutFieldIs DEF Silent
    <2>2. /\ c.offset <= Len(r.bytes) => GetField(r, "blob") = Advanced(r, c.offset, f.v)
          /\ c.offset > Len(r.bytes) => Cut(r, GetField(r, "blob"), c.offset)
      BY <1>4, <2>1, BlobFieldTaken, Zenon
    <2>. QED
      BY <1>4, <2>1, <2>2, Zenon
  <1>5. CASE f.type = "string" /\ f.v \in Seq(Octet)
    <2>1. c = PutString(e, f.v) /\ Silent(f.type)
      BY <1>5, PutFieldIs DEF Silent
    <2>2. /\ c.offset <= Len(r.bytes) => GetField(r, "string") = Advanced(r, c.offset, f.v)
          /\ c.offset > Len(r.bytes) => Cut(r, GetField(r, "string"), c.offset)
      BY <1>5, <2>1, StringFieldTaken, Zenon
    <2>. QED
      BY <1>5, <2>1, <2>2, Zenon
  <1>. QED
    BY <1>1, <1>2, <1>3, <1>4, <1>5, Zenon DEF FieldFits
-----------------------------------------------------------------------------
(***************************************************************************)
(* Whatever is read within an encapsulation, the octets and the saved      *)
(* ends of the encapsulations stay.                                        *)
(***************************************************************************)
IsSeq(s) == \E S : s \in Seq(S)

DecoderAt(o, b, l, s, k, g) ==
    [offset |-> o, bytes |-> b, little |-> l, encapStack |-> s, ok |-> k, got |-> g]

Alike(x, d) ==
    \E o, l, k, g : k \in BOOLEAN /\ IsSeq(g) /\ x = DecoderAt(o, d.bytes, l, d.encapStack, k, g)

LEMMA SequencesStay ==
    /\ IsSeq(<<>>)
    /\ \A s : IsSeq(s) => IsSeq(Front(s)) /\ \A v : IsSeq(Append(s, v))
  <1>1. IsSeq(<<>>)
    <2>1. <<>> \in Seq({})
      OBVIOUS
    <2>. QED
      BY <2>1 DEF IsSeq
  <1>2. ASSUME NEW s, NEW S, s \in Seq(S)
        PROVE  IsSeq(Front(s)) /\ \A v : IsSeq(Append(s, v))
    <2>1. Front(s) \in Seq(S)
      <3>1. 1 \in Int /\ Len(s) - 1 \in Int /\ \A i \in 1..Len(s) - 1 : s[i] \in S
        BY <1>2
      <3>2. SubSeq(s, 1, Len(s) - 1) \in Seq(S)
        BY <1>2, <3>1, SubSeqProperties
      <3>. QED
        BY <3>2 DEF Front
    <2>2. \A v : Append(s, v) \in Seq(S \cup {v})
      <3>1. ASSUME NEW v
            PROVE  Append(s, v) \in Seq(S \cup {v})
        <4>1. s \in Seq(S \cup {v}) /\ v \in S \cup {v}
          BY <1>2
        <4>. QED
          BY <4>1
      <3>. QED
        BY <3>1
    <2>. QED
      BY <2>1, <2>2, Zenon DEF IsSeq
  <1>. QED
    BY <1>1, <1>2, Zenon DEF IsSeq

LEMMA AlikeMoves ==
    ASSUME NEW x, NEW d, Alike(x, d)
    PROVE  /\ \A o : Alike([x EXCEPT !.offset = o], d)
           /\ \A g : IsSeq(g) => Alike([x EXCEPT !.got = g], d)
           /\ Alike(Throw(x), d)
           /\ \A v : Alike(Return(x, v), d) /\ Alike(Instead(x, v), d)
           /\ \A o, v : Alike(Return([x EXCEPT !.offset = o], v), d)
           /\ IsSeq(x.got)
  <1> DEFINE b == d.bytes
             s == d.encapStack
  <1>1. PICK o, l, k, g : k \in BOOLEAN /\ IsSeq(g) /\ x = DecoderAt(o, b, l, s, k, g)
    BY DEF Alike
  <1>2. \A p, m, j, h : j \in BOOLEAN /\ IsSeq(h) => Alike(DecoderAt(p, b, m, s, j, h), d)
    BY DEF Alike
  <1> HIDE DEF b, s
  <1>3. /\ x.got = g
        /\ \A p : [x EXCEPT !.offset = p] = DecoderAt(p, b, l, s, k, g)
        /\ \A v : [x EXCEPT !.got = v] = DecoderAt(o, b, l, s, k, v)
        /\ \A v : [x EXCEPT !.ok = v] = DecoderAt(o, b, l, s, v, g)
    <2> DEFINE y == DecoderAt(o, b, l, s, k, g)
    <2>1. y.got = g
      BY DEF DecoderAt
    <2>2. \A p : [y EXCEPT !.offset = p] = DecoderAt(p, b, l, s, k, g)
      BY DEF DecoderAt
    <2>3. \A v : [y EXCEPT !.got = v] = DecoderAt(o, b, l, s, k, v)
      BY DEF DecoderAt
    <2>4. \A v : [y EXCEPT !.ok = v] = DecoderAt(o, b, l, s, v, g)
      BY DEF DecoderAt
    <2>5. x = y
      BY <1>1
    <2> HIDE DEF y
    <2>. QED
      BY <2>1, <2>2, <2>3, <2>4, <2>5, Zenon
  <1>4. \A v : IsSeq(Append(g, v)) /\ IsSeq(Append(Front(g), v))
    BY <1>1, SequencesStay
  <1>5. Throw(x) = DecoderAt(o, b, l, s, FALSE, g)
    BY <1>3, Zenon DEF Throw
  <1>6. \A v : Return(x, v) = DecoderAt(o, b, l, s, k, Append(g, v))
    BY <1>3, Zenon DEF Return
  <1>7. \A v : Instead(x, v) = DecoderAt(o, b, l, s, k, Append(Front(g), v))
    BY <1>3, Zenon DEF Instead
  <1>8. \A p, v : Return([x EXCEPT !.offset = p], v) = DecoderAt(p, b, l, s, k, Append(g, v))
    <2>1. ASSUME NEW p, NEW v
          PROVE  Return([x EXCEPT !.offset = p], v) = DecoderAt(p, b, l, s, k, Append(g, v))
      <3>1. [x EXCEPT !.offset = p] = DecoderAt(p, b, l, s, k, g)
        BY <1>3
      <3>2. DecoderAt(p, b, l, s, k, g).got = g
        BY DEF DecoderAt
      <3>3. \A w : [DecoderAt(p, b, l, s, k, g) EXCEPT !.got = w] = DecoderAt(p, b, l, s, k, w)
        BY SMTT(30) DEF DecoderAt
      <3>. QED
        BY <3>1, <3>2, <3>3, Zenon DEF Return
    <2>. QED
      BY <2>1
  <1>9. \A p : Alike([x EXCEPT !.offset = p], d)
    BY <1>1, <1>2, <1>3
  <1>10. \A v : IsSeq(v) => Alike([x EXCEPT !.got = v], d)
    BY <1>1, <1>2, <1>3
  <1>11. Alike(Throw(x), d)
    BY <1>1, <1>2, <1>5
  <1>12. \A v : Alike(Return(x, v), d)
    BY <1>1, <1>2, <1>4, <1>6
  <1>13. \A v : Alike(Instead(x, v), d)
    BY <1>1, <1>2, <1>4, <1>7
  <1>14. \A p, v : Alike(Return([x EXCEPT !.offset = p], v), d)
    BY <1>1, <1>2, <1>4, <1>8
  <1>. QED
    BY <1>1, <1>3, <1>9, <1>10, <1>11, <1>12, <1>13, <1>14, Zenon

LEMMA NumberAlike ==
    ASSUME NEW x, NEW d, Alike(x, d), NEW w
    PROVE  Alike(GetNumber(x, w), d)
  BY AlikeMoves DEF GetNumber

LEMMA UlongAlike ==
    ASSUME NEW x, NEW d, Alike(x, d)
    PROVE  LET g == GetNumber(x, 4)
           IN  Alike(g, d) /\ Alike([g EXCEPT !.got = Front(@)], d)
  <1> DEFINE g == GetNumber(x, 4)
  <1>1. Alike(g, d)
    BY NumberAlike
  <1> HIDE DEF g
  <1>2. IsSeq(Front(g.got))
    BY <1>1, AlikeMoves, SequencesStay
  <1>3. Alike([g EXCEPT !.got = Front(@)], d)
    BY <1>1, <1>2, AlikeMoves
  <1>. QED
    BY <1>1, <1>3 DEF g

LEMMA TextAlike ==
    ASSUME NEW x, NEW d, Alike(x, d)
    PROVE  Alike(GetBlob(x), d) /\ Alike(GetString(x), d)
  <1> DEFINE g == GetNumber(x, 4)
             c == [g EXCEPT !.got = Front(@)]
             n == Number(Value(g))
  <1>1. Alike(g, d) /\ Alike(c, d)
    BY UlongAlike
  <1>2. /\ GetBlob(x) = IF g.ok THEN Return([c EXCEPT !.offset = @ + n], Slice(c, c.offset, n)) ELSE g
        /\ GetString(x) = IF g.ok THEN Return([c EXCEPT !.offset = @ + n], Slice(c, c.offset, n - 1))
                          ELSE g
    BY Zenon DEF GetBlob, GetString, StringOf, WithUlong, After
  <1> HIDE DEF g, c, n
  <1>3. \A o, v : Alike(Return([c EXCEPT !.offset = o], v), d)
    BY <1>1, AlikeMoves
  <1>. QED
    BY <1>1, <1>2, <1>3, Zenon

Elementary == {"octet", "ushort", "ulong", "ulonglong", "blob", "string"}

LEMMA FieldAlike ==
    ASSUME NEW x, NEW d, Alike(x, d), NEW type \in Elementary
    PROVE  Alike(GetField(x, type), d)
  <1>1. CASE ~x.ok
    BY <1>1, GetFieldIs
  <1>2. CASE x.ok /\ type \in DOMAIN Width
    <2> DEFINE g == GetNumber(x, Width[type])
    <2>1. GetField(x, type) = IF g.ok THEN Instead(g, Number(Value(g))) ELSE g
      BY <1>2, GetFieldIs
    <2>2. Alike(g, d)
      BY NumberAlike
    <2> HIDE DEF g
    <2>3. \A v : Alike(Instead(g, v), d)
      BY <2>2, AlikeMoves
    <2>. QED
      BY <2>1, <2>2, <2>3, Zenon
  <1>3. CASE x.ok /\ type \in {"ulonglong", "blob", "string"}
    BY <1>3, GetFieldIs, NumberAlike, TextAlike
  <1>. QED
    BY <1>1, <1>2, <1>3 DEF Elementary, Width

LEMMA FieldsAlike ==
    ASSUME NEW x, NEW d, Alike(x, d), NEW types \in Seq(Elementary)
    PROVE  Alike(GetFields(x, types), d)
  <1>1. PICK f : ByType!IsFold(f, x, types, 0) /\ GetFields(x, types) = f[Len(types)]
    BY GetFieldsFold
  <1> DEFINE T == {n \in Nat : n <= Len(types) => Alike(f[n], d)}
  <1>2. 0 \in T
    BY <1>1 DEF ByType!IsFold
  <1>3. ASSUME NEW n \in Nat, n \in T
        PROVE  n + 1 \in T
    <2>1. CASE n + 1 <= Len(types)
      <3>1. n + 1 \in 1..Len(types) /\ (n + 1) - 1 = n /\ Alike(f[n], d) /\ types[n + 1] \in Elementary
        BY <1>3, <2>1
      <3>2. \A i \in 1..Len(types) : f[i] = GetField(f[i - 1], types[i])
        BY <1>1 DEF ByType!IsFold
      <3>3. f[n + 1] = GetField(f[n], types[n + 1])
        <4>1. f[n + 1] = GetField(f[(n + 1) - 1], types[n + 1])
          BY <3>1, <3>2, Zenon
        <4>. QED
          BY <3>1, <4>1
      <3>4. Alike(f[n + 1], d)
        BY <3>1, <3>3, FieldAlike
      <3>. QED
        BY <3>4
    <2>. QED
      BY <2>1
  <1>4. Nat \subseteq T
    <2> HIDE DEF T
    <2>. QED
      BY <1>2, <1>3, ByNumber!Induct
  <1>5. Len(types) \in Nat /\ Len(types) <= Len(types)
    OBVIOUS
  <1>. QED
    BY <1>1, <1>4, <1>5

\* What is scanned: the values that were read, and the decoder after them.
LEMMA ScanAlike ==
    ASSUME NEW x, NEW d, Alike(x, d), NEW types \in Seq(Elementary)
    PROVE  LET g == GetFields([x EXCEPT !.got = <<>>], types)
           IN  /\ Alike(g, d)
               /\ \A s : IsSeq(s) => Alike([g EXCEPT !.got = s], d)
               /\ Alike([g EXCEPT !.got = x.got], d)
  <1> DEFINE g == GetFields([x EXCEPT !.got = <<>>], types)
  <1>1. Alike([x EXCEPT !.got = <<>>], d)
    BY AlikeMoves, SequencesStay
  <1>2. Alike(g, d)
    BY <1>1, FieldsAlike
  <1> HIDE DEF g
  <1>3. \A s : IsSeq(s) => Alike([g EXCEPT !.got = s], d)
    BY <1>2, AlikeMoves
  <1>4. IsSeq(x.got)
    BY AlikeMoves
  <1>. QED
    BY <1>2, <1>3, <1>4 DEF g
LEMMA OctetsAlike ==
    ASSUME NEW x, NEW d, Alike(x, d), NEW n
    PROVE  Alike(GetOctets(x, n), d)
  <1>1. \A p, v : Alike(Return([x EXCEPT !.offset = p], v), d)
    BY AlikeMoves
  <1>2. Alike(Throw(x), d)
    BY AlikeMoves
  <1>. QED
    BY <1>1, <1>2, Zenon DEF GetOctets

LEMMA OctetsInstead ==
    ASSUME NEW x, NEW d, Alike(x, d), NEW n, NEW v
    PROVE  LET c == GetOctets(x, n)
           IN  Alike(IF c.ok THEN Instead(c, v) ELSE c, d)
  <1>1. Alike(GetOctets(x, n), d)
    BY OctetsAlike
  <1>2. Alike(Instead(GetOctets(x, n), v), d)
    BY <1>1, AlikeMoves
  <1>. QED
    BY <1>1, <1>2

LEMMA LongTagAlike ==
    ASSUME NEW x, NEW d, Alike(x, d)
    PROVE  Alike(GetLongTag(x), d)
  <1>1. \A n, v : Alike(IF GetOctets(x, n).ok THEN Instead(GetOctets(x, n), v) ELSE GetOctets(x, n), d)
    BY OctetsInstead
  <1> DEFINE n == UpTo(x, LAMBDA o : o >= 128)
  <1>2. GetLongTag(x) = IF GetOctets(x, n).ok
                        THEN Instead(GetOctets(x, n), OfSeptets(Value(GetOctets(x, n))))
                        ELSE GetOctets(x, n)
    BY Zenon DEF GetLongTag, After
  <1> HIDE DEF n
  <1>. QED
    BY <1>1, <1>2, Zenon

LEMMA LengthAlike ==
    ASSUME NEW x, NEW d, Alike(x, d)
    PROVE  Alike(GetAsn1Length(x), d)
  <1> DEFINE c == GetOctets(x, 1)
             o == Value(c)[1]
             b == [c EXCEPT !.got = Front(@)]
             e == GetOctets(b, o - 128)
  <1>1. GetAsn1Length(x) = IF c.ok
                           THEN IF o < 128 THEN Instead(c, o)
                                ELSE IF e.ok THEN Instead(e, LongOf(Value(e))) ELSE e
                           ELSE c
    BY Zenon DEF GetAsn1Length, After
  <1>2. Alike(c, d)
    BY OctetsAlike
  <1> HIDE DEF c
  <1>3. Alike(b, d)
    BY <1>2, AlikeMoves, SequencesStay
  <1> HIDE DEF b, o
  <1>4. Alike(e, d)
    BY <1>3, OctetsAlike
  <1> HIDE DEF e
  <1>5. \A v : Alike(Instead(c, v), d) /\ Alike(Instead(e, v), d)
    BY <1>2, <1>4, AlikeMoves
  <1>. QED
    BY <1>1, <1>2, <1>4, <1>5, Zenon

LEMMA TagAlike ==
    ASSUME NEW x, NEW d, Alike(x, d)
    PROVE  Alike(GetAsn1Tag(x), d)
  <1> DEFINE c == GetOctets(x, 1)
             o == Value(c)[1]
             t == IF o % 32 = 31 THEN GetLongTag(c) ELSE Return(c, o % 32)
             l == GetAsn1Length(t)
             b == [l EXCEPT !.got = x.got]
             v == [class |-> o \div 64, encoding |-> (o \div 32) % 2,
                   tag |-> Value(t), length |-> Value(l)]
  <1>1. GetAsn1Tag(x) = IF c.ok THEN IF t.ok THEN IF l.ok THEN Return(b, v) ELSE l ELSE t ELSE c
    BY Zenon DEF GetAsn1Tag, After
  <1>2. Alike(c, d)
    BY OctetsAlike
  <1> HIDE DEF c, v
  <1>3. Alike(t, d)
    <2>1. Alike(GetLongTag(c), d) /\ \A n : Alike(Return(c, n), d)
      BY <1>2, LongTagAlike, AlikeMoves
    <2>. QED
      BY <2>1, Zenon
  <1> HIDE DEF t
  <1>4. Alike(l, d)
    BY <1>3, LengthAlike
  <1> HIDE DEF l
  <1>5. Alike(b, d)
    <2>1. IsSeq(x.got)
      BY AlikeMoves
    <2>. QED
      BY <1>4, <2>1, AlikeMoves
  <1> HIDE DEF b
  <1>6. Alike(Return(b, v), d)
    BY <1>5, AlikeMoves
  <1>. QED
    BY <1>1, <1>2, <1>3, <1>4, <1>6, Zenon

LEMMA ExpectAlike ==
    ASSUME NEW x, NEW d, Alike(x, d), NEW class, NEW tag, NEW encoding, NEW oid
    PROVE  Alike(Asn1Expect(x, class, tag, encoding), d) /\ Alike(Asn1ExpectOid(x, oid), d)
  <1> DEFINE t == GetAsn1Tag(x)
             b == [t EXCEPT !.got = x.got]
             len == Value(t).length
             o == GetAsn1Oid(b, len)
  <1>1. /\ Asn1Expect(x, class, tag, encoding)
               = IF t.ok THEN Instead(t, IsTag(Value(t), class, tag, encoding)) ELSE t
        /\ Asn1ExpectOid(x, oid)
               = IF t.ok
                 THEN IF ~IsTag(Value(t), Universal, OID, Primitive) THEN Instead(t, FALSE)
                      ELSE IF o.ok THEN Instead(o, Value(o) = oid) ELSE o
                 ELSE t
    BY Zenon DEF Asn1Expect, Asn1ExpectOid, After
  <1>2. Alike(t, d)
    BY TagAlike
  <1> HIDE DEF t
  <1>3. Alike(b, d)
    <2>1. IsSeq(x.got)
      BY AlikeMoves
    <2>. QED
      BY <1>2, <2>1, AlikeMoves
  <1> HIDE DEF b, len
  <1>4. Alike(o, d)
    <2> DEFINE g == GetOctets(b, len)
    <2>1. o = IF len <= 0 THEN Return(b, <<>>)
              ELSE IF g.ok THEN Instead(g, OidOf(Value(g))) ELSE g
      BY Zenon DEF GetAsn1Oid, After
    <2>2. Alike(g, d)
      BY <1>3, OctetsAlike
    <2> HIDE DEF g, o
    <2>3. Alike(Return(b, <<>>), d) /\ \A v : Alike(Instead(g, v), d)
      BY <1>3, <2>2, AlikeMoves
    <2>. QED
      BY <2>1, <2>2, <2>3, Zenon
  <1> HIDE DEF o
  <1>5. \A v : Alike(Instead(t, v), d) /\ Alike(Instead(o, v), d)
    BY <1>2, <1>4, AlikeMoves
  <1>. QED
    BY <1>1, <1>2, <1>4, <1>5, Zenon

LEMMA GssAlike ==
    ASSUME NEW x, NEW d, Alike(x, d)
    PROVE  Alike(GssCredentials(x), d)
  <1> DEFINE mech == Asn1Expect(x, Application, 0, Constructed)
             oid == Asn1ExpectOid(mech, GSSUP)
             inner == InitialToken(Slice(oid, oid.offset, Len(oid.bytes)))
  <1>1. GssCredentials(x)
            = IF mech.ok
              THEN IF ~Value(mech) THEN Return(x, Absent)
                   ELSE IF oid.ok
                        THEN IF ~Value(oid) THEN Return(x, Absent)
                             ELSE IF inner.ok THEN Return(x, Value(inner)) ELSE Throw(x)
                        ELSE oid
              ELSE mech
    BY Zenon DEF GssCredentials, After
  <1>2. Alike(mech, d)
    BY ExpectAlike
  <1> HIDE DEF mech
  <1>3. Alike(oid, d)
    BY <1>2, ExpectAlike
  <1> HIDE DEF oid, inner
  <1>4. Alike(Throw(x), d) /\ \A v : Alike(Return(x, v), d)
    BY AlikeMoves
  <1>. QED
    BY <1>1, <1>2, <1>3, <1>4, Zenon
\* What a number is, whatever the octets are.
LEMMA NumberIsNat ==
    ASSUME NEW p \in Seq(Octet)
    PROVE  Number(p) \in Nat
  <1>1. PICK f : ByOctet!IsFold(f, 0, p, 0) /\ Number(p) = f[Len(p)]
    BY NumberFolds
  <1>2. \A n \in Nat : \A i \in 1..Len(p) : n * 256 + p[i] \in Nat
    <2>1. \A i \in 1..Len(p) : p[i] \in Nat
      <3>1. \A o \in Octet : o \in Nat
        BY DEF Octet
      <3>2. \A i \in 1..Len(p) : p[i] \in Octet
        OBVIOUS
      <3>. QED
        BY <3>1, <3>2
    <2>. QED
      BY <2>1
  <1>3. \A i \in 0..Len(p) : f[i] \in Nat
    <2>1. 0 \in Nat
      OBVIOUS
    <2>. QED
      BY <1>1, <1>2, <2>1, ByOctet!FoldKeeps, Zenon
  <1>4. Len(p) \in 0..Len(p)
    OBVIOUS
  <1>. QED
    BY <1>1, <1>3, <1>4

LEMMA AnyNumber ==
    ASSUME NEW V, NEW r \in Readers(V), NEW w \in AlignWidth
    PROVE  LET g == GetNumber(r, w)
           IN  \/ g = Throw(r) /\ ~g.ok
               \/ /\ Aligned(r.offset, w) + w <= Len(r.bytes)
                  /\ \E p \in Seq(Octet) : g = Advanced(r, Aligned(r.offset, w) + w, p)
  <1> DEFINE at == AlignedTo(r.offset, w)
             s == Slice(r, at, w)
             p == InOrder(s, r.little)
  <1>1. r.offset \in Nat /\ r.little \in BOOLEAN /\ w \in Nat /\ Len(r.bytes) \in Nat
    <2>1. r.bytes \in Seq(Octet)
      BY DEF Readers
    <2>. QED
      BY <2>1 DEF Readers, AlignWidth
  <1>2. at = Aligned(r.offset, w) /\ at \in Nat
    BY <1>1, PaddingAgrees, AlignedUp, Zenon
  <1>3. p \in Seq(Octet)
    <2> HIDE DEF at
    <2>1. s \in Seq(Octet)
      BY <1>1, <1>2, SliceIsOctets
    <2> HIDE DEF s
    <2>. QED
      BY <1>1, <2>1, InOrderKeeps
  <1>4. GetNumber(r, w) = IF at + w > Len(r.bytes) THEN Throw(r)
                          ELSE Return([r EXCEPT !.offset = at + w], p)
    BY DEF GetNumber
  <1> HIDE DEF at, s, p
  <1>5. Return([r EXCEPT !.offset = at + w], p) = Advanced(r, at + w, p)
    BY DEF Return, Advanced, Readers
  <1>6. ~Throw(r).ok
    BY DEF Throw, Readers
  <1>7. ~(at + w > Len(r.bytes)) => at + w <= Len(r.bytes)
    BY <1>1, <1>2
  <1>. QED
    BY <1>2, <1>3, <1>4, <1>5, <1>6, <1>7, Zenon

\* A number that is scanned moves the decoder.
LEMMA ScanNumber ==
    ASSUME NEW V, NEW r \in Readers(V), NEW type \in {"octet", "ushort", "ulong", "ulonglong"}
    PROVE  LET g == GetFields([r EXCEPT !.got = <<>>], <<type>>)
               c == [g EXCEPT !.got = r.got]
           IN  g.ok => /\ c \in Readers(V) /\ c.bytes = r.bytes /\ c.encapStack = r.encapStack
                       /\ c.got = r.got
  <1> DEFINE b == [r EXCEPT !.got = <<>>]
             g == GetField(b, type)
             w == IF type = "ulonglong" THEN 8 ELSE Width[type]
             h == GetNumber(b, w)
  <1>1. GetFields(b, <<type>>) = g
    BY OneFieldRead
  <1>2. b \in Readers(V) /\ b.bytes = r.bytes /\ b.encapStack = r.encapStack
    <2>1. <<>> \in Seq(V)
      OBVIOUS
    <2>. QED
      BY <2>1 DEF Readers
  <1>3. w \in AlignWidth
    BY DEF Width, AlignWidth
  <1>4. g = h \/ g = IF h.ok THEN Instead(h, Number(Value(h))) ELSE h
    <2>1. b.ok
      BY <1>2 DEF Readers
    <2>2. CASE type = "ulonglong"
      BY <2>1, <2>2, GetFieldIs
    <2>3. CASE type # "ulonglong"
      <3>1. type \in DOMAIN Width
        BY <2>3 DEF Width
      <3>. QED
        BY <2>1, <2>3, <3>1, GetFieldIs
    <2>. QED
      BY <2>2, <2>3
  <1> HIDE DEF g, w
  <1>5. \/ ~h.ok
        \/ \E o \in Nat : \E p : h = Advanced(b, o, p)
    <2>1. Aligned(b.offset, w) + w \in Nat
      <3>1. b.offset \in Nat
        BY <1>2 DEF Readers
      <3>2. Aligned(b.offset, w) \in Nat
        BY <1>3, <3>1, AlignedUp, Zenon
      <3>3. w \in Nat
        BY <1>3 DEF AlignWidth
      <3>. QED
        BY <3>2, <3>3
    <2>. QED
      BY <1>2, <1>3, <2>1, AnyNumber, Zenon
  <1>6. ASSUME g.ok
        PROVE  \E o \in Nat : \E v : g = Advanced(b, o, v)
    <2>1. h.ok
      BY <1>4, <1>6
    <2>2a. PICK o \in Nat : \E p : h = Advanced(b, o, p)
      BY <1>5, <2>1
    <2>2. PICK p : h = Advanced(b, o, p)
      BY <2>2a
    <2> HIDE DEF h, b
    <2>3. Instead(h, Number(Value(h))) = Advanced(b, o, Number(Value(h)))
      BY <1>2, <2>2, InsteadOf, Zenon
    <2>. QED
      BY <1>4, <2>1, <2>2, <2>3, Zenon
  <1>7. ASSUME NEW o \in Nat, NEW v, g = Advanced(b, o, v)
        PROVE  [g EXCEPT !.got = r.got] = [r EXCEPT !.offset = o]
    BY <1>7 DEF Advanced, Readers
  <1>8. \A o \in Nat : LET c == [r EXCEPT !.offset = o]
                       IN  c \in Readers(V) /\ c.bytes = r.bytes /\ c.encapStack = r.encapStack
                           /\ c.got = r.got
    BY DEF Readers
  <1> HIDE DEF b
  <1>9. g.ok => LET c == [g EXCEPT !.got = r.got]
                IN  c \in Readers(V) /\ c.bytes = r.bytes /\ c.encapStack = r.encapStack
                    /\ c.got = r.got
    <2>1. SUFFICES ASSUME g.ok
                   PROVE  LET c == [g EXCEPT !.got = r.got]
                          IN  c \in Readers(V) /\ c.bytes = r.bytes /\ c.encapStack = r.encapStack
                              /\ c.got = r.got
      OBVIOUS
    <2>2a. PICK o \in Nat : \E v : g = Advanced(b, o, v)
      BY <1>6, <2>1
    <2>2. PICK v : g = Advanced(b, o, v)
      BY <2>2a
    <2>3. [g EXCEPT !.got = r.got] = [r EXCEPT !.offset = o]
      BY <1>7, <2>2
    <2>4. \A c : c = [r EXCEPT !.offset = o]
              => /\ c \in Readers(V) /\ c.bytes = r.bytes /\ c.encapStack = r.encapStack
                 /\ c.got = r.got
      <3>1. [r EXCEPT !.offset = o] \in Readers(V)
        BY <1>8
      <3>. QED
        BY <3>1, <2>2 DEF Readers
    <2>. QED
      BY <2>3, <2>4, Zenon
  <1>. QED
    BY <1>1, <1>9 DEF b

LEMMA ReaderAlike ==
    ASSUME NEW V, NEW r \in Readers(V), NEW d, r.bytes = d.bytes, r.encapStack = d.encapStack
    PROVE  Alike(r, d)
  <1>1. r = DecoderAt(r.offset, d.bytes, r.little, d.encapStack, r.ok, r.got)
    BY DEF DecoderAt, Readers
  <1>2. IsSeq(r.got) /\ r.ok \in BOOLEAN
    BY DEF IsSeq, Readers
  <1>. QED
    BY <1>1, <1>2 DEF Alike

ByToken == INSTANCE FoldFacts WITH Op <- LAMBDA e, i, w : GetFields(e, <<"ulong", "blob">>)

LEMMA TokensAlike ==
    ASSUME NEW x, NEW d, Alike(x, d), NEW n \in Nat
    PROVE  Alike(FoldLeft(LAMBDA e, i : GetFields(e, <<"ulong", "blob">>), x, [i \in 1..n |-> i]), d)
  <1> DEFINE count == [i \in 1..n |-> i]
             it == CHOOSE h : ByToken!IsIter(h, x, count, 0)
             all == FoldLeft(LAMBDA e, i : GetFields(e, <<"ulong", "blob">>), x, count)
  <1>1. count \in Seq(Nat) /\ Len(count) = n
    OBVIOUS
  <1>2. ByToken!IsIter(it, x, count, 0)
    <2> HIDE DEF count
    <2>. QED
      BY <1>1, ByToken!IterExists, Zenon
  <1>3. all = it[DOMAIN count]
    BY DEF ByToken!IsIter, FoldLeft, MapThenFoldSet, ByToken!Greatest, Max
  <1> HIDE DEF it, count, all
  <1>4. PICK f : ByToken!IsFold(f, x, count, 0) /\ all = f[n]
    BY <1>1, <1>2, <1>3, ByToken!IterFolds
  <1> DEFINE T == {m \in Nat : m <= n => Alike(f[m], d)}
  <1>5. 0 \in T
    BY <1>4 DEF ByToken!IsFold
  <1>6. ASSUME NEW m \in Nat, m \in T
        PROVE  m + 1 \in T
    <2>1. CASE m + 1 <= n
      <3>1. m + 1 \in 1..n /\ (m + 1) - 1 = m /\ Alike(f[m], d)
        BY <1>6, <2>1
      <3>2. \A i \in 1..n : f[i] = GetFields(f[i - 1], <<"ulong", "blob">>)
        BY <1>1, <1>4 DEF ByToken!IsFold
      <3>3. f[m + 1] = GetFields(f[(m + 1) - 1], <<"ulong", "blob">>)
        BY <3>1, <3>2, Zenon
      <3>4. <<"ulong", "blob">> \in Seq(Elementary)
        BY DEF Elementary
      <3>5. Alike(f[m + 1], d)
        BY <3>1, <3>3, <3>4, FieldsAlike
      <3>. QED
        BY <3>5
    <2>. QED
      BY <2>1
  <1>7. Nat \subseteq T
    <2> HIDE DEF T
    <2>. QED
      BY <1>5, <1>6, ByNumber!Induct
  <1>8. n <= n
    OBVIOUS
  <1>. QED
    BY <1>4, <1>7, <1>8 DEF all, count

\* An identity token that is absent, and the GSS token behind it.
LEMMA IdentityAlike ==
    ASSUME NEW x, NEW d, Alike(x, d), NEW s, IsSeq(s)
    PROVE  Alike(Scan([x EXCEPT !.got = s], <<"ulong">>, LAMBDA e, v :
                     IF v[1] = IdentityAbsent THEN Scan(e, <<"octet">>, LAMBDA f, w : f) ELSE e), d)
  <1> DEFINE y == [x EXCEPT !.got = s]
             g == GetFields([y EXCEPT !.got = <<>>], <<"ulong">>)
             e == [g EXCEPT !.got = y.got]
             h == GetFields([e EXCEPT !.got = <<>>], <<"octet">>)
             f == [h EXCEPT !.got = e.got]
  <1>1. <<"ulong">> \in Seq(Elementary) /\ <<"octet">> \in Seq(Elementary)
    BY DEF Elementary
  <1>2. Alike(y, d)
    BY AlikeMoves
  <1>3. Alike(g, d) /\ Alike(e, d)
    <2> HIDE DEF y
    <2>. QED
      BY <1>1, <1>2, ScanAlike, Zenon
  <1>4. Alike(h, d) /\ Alike(f, d)
    <2> HIDE DEF g, e, y
    <2>. QED
      BY <1>1, <1>3, ScanAlike, Zenon
  <1>5. Scan(y, <<"ulong">>, LAMBDA z, v :
             IF v[1] = IdentityAbsent THEN Scan(z, <<"octet">>, LAMBDA q, w : q) ELSE z)
            = IF g.ok THEN IF g.got[1] = IdentityAbsent THEN IF h.ok THEN f ELSE h ELSE e
              ELSE g
    BY Zenon DEF Scan, After
  <1> HIDE DEF g, e, h, f
  <1>. QED
    BY <1>3, <1>4, <1>5, Zenon DEF y

LEMMA TokenAlike ==
    ASSUME NEW x, NEW d, Alike(x, d)
    PROVE  Alike(Scan(x, <<"ulong">>, LAMBDA e, v : GssCredentials(e)), d)
  <1> DEFINE g == GetFields([x EXCEPT !.got = <<>>], <<"ulong">>)
             e == [g EXCEPT !.got = x.got]
  <1>1. <<"ulong">> \in Seq(Elementary)
    BY DEF Elementary
  <1>2. Alike(g, d) /\ Alike(e, d)
    BY <1>1, ScanAlike, Zenon
  <1>3. Alike(GssCredentials(e), d)
    <2> HIDE DEF e
    <2>. QED
      BY <1>2, GssAlike, Zenon
  <1>4. Scan(x, <<"ulong">>, LAMBDA z, v : GssCredentials(z)) = IF g.ok THEN GssCredentials(e) ELSE g
    BY Zenon DEF Scan, After
  <1> HIDE DEF g, e
  <1>. QED
    BY <1>2, <1>3, <1>4, Zenon

LEMMA EstablishAlike ==
    ASSUME NEW V, NEW r \in Readers(V), NEW d, r.bytes = d.bytes, r.encapStack = d.encapStack
    PROVE  Alike(GetEstablishContext(r), d)
  <1> DEFINE g == GetFields([r EXCEPT !.got = <<>>], <<"ulonglong">>)
             c == [g EXCEPT !.got = r.got]
             u == GetNumber(c, 4)
             t == [u EXCEPT !.got = Front(@)]
             n == Number(Value(u))
             all == FoldLeft(LAMBDA e, i : GetFields(e, <<"ulong", "blob">>), t, [i \in 1..n |-> i])
             w == IF u.ok THEN all ELSE u
             Identity(x) == Scan([x EXCEPT !.got = r.got], <<"ulong">>, LAMBDA e, v :
                     IF v[1] = IdentityAbsent THEN Scan(e, <<"octet">>, LAMBDA f, z : f) ELSE e)
             Token(x) == Scan(x, <<"ulong">>, LAMBDA e, v : GssCredentials(e))
             i == IF w.ok THEN Identity(w) ELSE w
             k == IF i.ok THEN Token(i) ELSE i
  <1>1. Alike(r, d)
    BY ReaderAlike
  <1>2. Alike(g, d)
    <2>1. <<"ulonglong">> \in Seq(Elementary)
      BY DEF Elementary
    <2>. QED
      BY <1>1, <2>1, ScanAlike, Zenon
  <1>3. GetEstablishContext(r) = IF g.ok THEN IF Last(c.encapStack).nextOffset - c.offset < 4
                                            THEN Return(c, Absent) ELSE k
                                 ELSE g
    BY Zenon DEF GetEstablishContext, Scan, After, WithUlong
  <1>4. g.ok => c \in Readers(V) /\ c.bytes = r.bytes /\ c.encapStack = r.encapStack
    BY ScanNumber, Zenon
  <1> HIDE DEF g, c
  <1>5. ASSUME g.ok
        PROVE  Alike(Return(c, Absent), d) /\ Alike(k, d)
    <2>1. Alike(c, d)
      BY <1>4, <1>5, ReaderAlike, Zenon
    <2>2. Alike(Return(c, Absent), d)
      BY <2>1, AlikeMoves, Zenon
    <2>3. Alike(u, d) /\ Alike(t, d)
      BY <2>1, UlongAlike, Zenon
    <2>4. u.ok => n \in Nat
      <3>1. 4 \in AlignWidth
        BY DEF AlignWidth
      <3>2. u.ok => \E o, p : p \in Seq(Octet) /\ u = Advanced(c, o, p)
        BY <1>4, <1>5, <3>1, AnyNumber, ZenonT(60)
      <3> HIDE DEF u
      <3>3. ASSUME NEW o, NEW p, u = Advanced(c, o, p)
            PROVE  Value(u) = p
        <4>1. c \in Readers(V)
          BY <1>4, <1>5
        <4>2. Value(Advanced(c, o, p)) = p
          BY <4>1, InsteadOf
        <4>. QED
          BY <3>3, <4>2, Zenon
      <3>. QED
        BY <3>2, <3>3, NumberIsNat, Zenon
    <2> HIDE DEF u, t, n
    <2>5. u.ok => Alike(all, d)
      BY <2>3, <2>4, TokensAlike, Zenon
    <2> HIDE DEF all
    <2>6. Alike(w, d)
      BY <2>3, <2>5
    <2> HIDE DEF w
    <2>7. IsSeq(r.got)
      BY <1>1, AlikeMoves, Zenon
    <2>8. Alike(Identity(w), d)
      BY <2>6, <2>7, IdentityAlike, Zenon
    <2>9. Alike(i, d)
      BY <2>6, <2>8
    <2> HIDE DEF i
    <2>10. Alike(Token(i), d)
      BY <2>9, TokenAlike, Zenon
    <2>. QED
      BY <2>2, <2>9, <2>10
  <1> HIDE DEF k
  <1>. QED
    BY <1>2, <1>3, <1>5, Zenon

LEMMA SecurityAttributesAlike ==
    ASSUME NEW V, NEW r \in Readers(V), NEW d, r.bytes = d.bytes, r.encapStack = d.encapStack
    PROVE  Alike(GetSecurityAttributes(r), d)
  <1> DEFINE g == GetFields([r EXCEPT !.got = <<>>], <<"ulong">>)
             c == [g EXCEPT !.got = r.got]
             establish == GetEstablishContext(c)
             est(v) == IF establish.ok THEN Instead(establish, v) ELSE establish
             h == GetFields([c EXCEPT !.got = <<>>], <<"ulonglong", "octet">>)
             complete(v) == IF h.ok THEN Return([h EXCEPT !.got = c.got], v) ELSE h
             k == GetFields([c EXCEPT !.got = <<>>], <<"ulonglong", "ulong", "ulong">>)
             error(v) == IF k.ok THEN Return([k EXCEPT !.got = c.got], v) ELSE k
  <1>1. Alike(r, d)
    BY ReaderAlike
  <1>2. Alike(g, d)
    <2>1. <<"ulong">> \in Seq(Elementary)
      BY DEF Elementary
    <2>. QED
      BY <1>1, <2>1, ScanAlike, Zenon
  <1>3. g.ok => c \in Readers(V) /\ c.bytes = r.bytes /\ c.encapStack = r.encapStack
    BY ScanNumber, Zenon
  <1>4. g.ok => \/ \E v : GetSecurityAttributes(r) = est(v)
                \/ \E v : GetSecurityAttributes(r) = complete(v)
                \/ \E v : GetSecurityAttributes(r) = error(v)
                \/ GetSecurityAttributes(r) = c
    <2> DEFINE e1 == est([id |-> "EstablishContext", credentials |-> Value(establish)])
               e2 == complete([id |-> "CompleteEstablishContext", stateful |-> h.got[2]])
               e3 == error([id |-> "ContextError", major |-> k.got[2], minor |-> k.got[3]])
    <2>1. GetSecurityAttributes(r)
              = IF g.ok THEN CASE g.got[1] = SASType.EstablishContext -> e1
                               [] g.got[1] = SASType.CompleteEstablishContext -> e2
                               [] g.got[1] = SASType.ContextError -> e3
                               [] OTHER -> c
                ELSE g
      BY Zenon DEF GetSecurityAttributes, Scan, After
    <2>2. (\E v : e1 = est(v)) /\ (\E v : e2 = complete(v)) /\ (\E v : e3 = error(v))
      <3> HIDE DEF est, complete, error, h, k, establish
      <3>. QED
        BY Zenon
    <2> HIDE DEF e1, e2, e3, est, complete, error, g, c
    <2>3. g.ok => GetSecurityAttributes(r) \in {e1, e2, e3, c}
      BY <2>1 DEF SASType
    <2>. QED
      BY <2>2, <2>3, Zenon
  <1>5. ~g.ok => GetSecurityAttributes(r) = g
    BY Zenon DEF GetSecurityAttributes, Scan, After
  <1> HIDE DEF g, c
  <1>6. ASSUME g.ok
        PROVE  Alike(c, d) /\ \A v : Alike(est(v), d) /\ Alike(complete(v), d) /\ Alike(error(v), d)
    <2>1. Alike(c, d)
      BY <1>3, <1>6, ReaderAlike, Zenon
    <2>2. Alike(establish, d)
      BY <1>3, <1>6, EstablishAlike, Zenon
    <2>3. \A v : Alike(Instead(establish, v), d)
      <3> HIDE DEF establish
      <3>. QED
        BY <2>2, AlikeMoves, Zenon
    <2>4. Alike(h, d) /\ Alike([h EXCEPT !.got = c.got], d)
      <3>1. <<"ulonglong", "octet">> \in Seq(Elementary)
        BY DEF Elementary
      <3>. QED
        BY <2>1, <3>1, ScanAlike, Zenon
    <2>5. Alike(k, d) /\ Alike([k EXCEPT !.got = c.got], d)
      <3>1. <<"ulonglong", "ulong", "ulong">> \in Seq(Elementary)
        BY DEF Elementary
      <3>. QED
        BY <2>1, <3>1, ScanAlike, Zenon
    <2> HIDE DEF h, k
    <2>6. \A v : Alike(Return([h EXCEPT !.got = c.got], v), d)
                 /\ Alike(Return([k EXCEPT !.got = c.got], v), d)
      BY <2>4, <2>5, AlikeMoves, Zenon
    <2>. QED
      BY <2>1, <2>2, <2>3, <2>4, <2>5, <2>6, Zenon
  <1> HIDE DEF est, complete, error
  <1>. QED
    BY <1>2, <1>4, <1>5, <1>6, Zenon

\* The content of a service context, whatever it is.
Content(d, service) ==
    CASE service = ServiceId.BI_DIR_IIOP ->
             Scan(d, <<"string", "ushort">>, LAMBDA e, v :
                 Return(e, [id |-> "BI_DIR_IIOP", host |-> v[1], port |-> v[2]]))
      [] service = ServiceId.SecurityAttributeService -> GetSecurityAttributes(d)
      [] OTHER -> d

LEMMA ContentAlike ==
    ASSUME NEW V, NEW r \in Readers(V), NEW d, r.bytes = d.bytes, r.encapStack = d.encapStack,
           NEW service
    PROVE  Alike(Content(r, service), d)
  <1> DEFINE h == GetFields([r EXCEPT !.got = <<>>], <<"string", "ushort">>)
             listen(v) == IF h.ok THEN Return([h EXCEPT !.got = r.got], v) ELSE h
  <1>1. Alike(r, d)
    BY ReaderAlike
  <1>2. \/ \E v : Content(r, service) = listen(v)
        \/ Content(r, service) = GetSecurityAttributes(r)
        \/ Content(r, service) = r
    <2> DEFINE e1 == listen([id |-> "BI_DIR_IIOP", host |-> h.got[1], port |-> h.got[2]])
               e2 == GetSecurityAttributes(r)
    <2>1. Content(r, service) = CASE service = ServiceId.BI_DIR_IIOP -> e1
                                  [] service = ServiceId.SecurityAttributeService -> e2
                                  [] OTHER -> r
      BY Zenon DEF Content, Scan, After
    <2>2. \E v : e1 = listen(v)
      <3> HIDE DEF listen, h
      <3>. QED
        BY Zenon
    <2> HIDE DEF e1, e2, listen
    <2>3. Content(r, service) \in {e1, e2, r}
      BY <2>1 DEF ServiceId
    <2>. QED
      BY <2>2, <2>3, Zenon DEF e2
  <1>3. Alike(GetSecurityAttributes(r), d)
    BY SecurityAttributesAlike
  <1>4. Alike(h, d) /\ Alike([h EXCEPT !.got = r.got], d)
    <2>1. <<"string", "ushort">> \in Seq(Elementary)
      BY DEF Elementary
    <2>. QED
      BY <1>1, <2>1, ScanAlike, Zenon
  <1> HIDE DEF h
  <1>5. \A v : Alike(Return([h EXCEPT !.got = r.got], v), d)
    BY <1>4, AlikeMoves, Zenon
  <1>6. \A v : Alike(listen(v), d)
    BY <1>4, <1>5, Zenon
  <1> HIDE DEF listen
  <1>. QED
    BY <1>1, <1>2, <1>3, <1>6, Zenon
-----------------------------------------------------------------------------
(***************************************************************************)
(* A service context, as corba.js and other ORBs put it: an encapsulation. *)
(***************************************************************************)
IsContext(e, c) ==
    \E type \in Int : \E l \in Later(PutBeginEncapsulation(e, type)) : c = PutEndEncapsulation(l)

LEMMA ContextPut ==
    ASSUME NEW e \in Encoders, NEW c, IsContext(e, c), NEW at, at = Aligned(e.offset, 4)
    PROVE  /\ at \in Nat /\ at >= e.offset
           /\ c \in Later(e) /\ c \in Encoders
           /\ c.offset >= at + 9
           /\ \A i \in 1..4 : c.bytes[at + 4 + i] = InOrder(Pattern(c.offset - (at + 8), 4), e.little)[i]
           /\ c.bytes[at + 9] = IF e.little THEN 1 ELSE 0
  <1>1. PICK type \in Int : \E l \in Later(PutBeginEncapsulation(e, type)) : c = PutEndEncapsulation(l)
    BY DEF IsContext
  <1>2. PICK l \in Later(PutBeginEncapsulation(e, type)) : c = PutEndEncapsulation(l)
    BY <1>1
  <1> DEFINE u == PutUlong(e, type)
             s == ReserveSize(u)
             b == PutEndian(s)
             r == at + 8
  <1>3. PutBeginEncapsulation(e, type) = b
    BY DEF PutBeginEncapsulation
  <1>4. e.offset \in Nat /\ e.little \in BOOLEAN /\ e.sizeStack \in Seq(StackEntry)
    BY DEF Encoders
  <1>5. at \in Nat /\ at >= e.offset /\ at % 4 = 0
    BY <1>4, AlignedUp DEF AlignWidth
  <1>6. u \in Later(e) /\ u \in Encoders /\ u.offset = at + 4
    BY UlongKeeps
  <1>7. u.sizeStack = e.sizeStack /\ u.little = e.little
    BY <1>6 DEF Later, Beyond
  <1> HIDE DEF u
  <1>8. Aligned(u.offset, 4) + 4 = r
    BY <1>5, <1>6 DEF Aligned
  <1>9. r \in StackEntry /\ s \in Beyond(u, r, Append(u.sizeStack, r)) /\ s.offset = r
    BY <1>6, <1>8, SizeReserved
  <1>10. s \in Encoders /\ s.sizeStack = Append(e.sizeStack, r) /\ s.little = e.little
    BY <1>7, <1>9 DEF Beyond
  <1> HIDE DEF s
  <1>11. b \in Later(s) /\ b.offset = r + 1 /\ b.bytes[r + 1] = IF s.little THEN 1 ELSE 0
    BY <1>9, <1>10, EndianKeeps
  <1>12. b \in Encoders
    BY <1>11 DEF Later, Beyond
  <1> HIDE DEF b
  <1>13. l \in Later(b) /\ l \in Later(s)
    BY <1>2, <1>3, <1>10, <1>11, LaterIsLater
  <1>14. /\ l \in Encoders /\ l.sizeStack = Append(e.sizeStack, r) /\ l.little = e.little
         /\ l.offset >= r + 1 /\ l.bytes[r + 1] = IF e.little THEN 1 ELSE 0
    <2>1. l \in Encoders /\ l.sizeStack = s.sizeStack /\ l.little = s.little
      BY <1>13 DEF Later, Beyond
    <2>2. l.offset >= b.offset /\ \A i \in 1..b.offset : l.bytes[i] = b.bytes[i]
      BY <1>13 DEF Later, Beyond
    <2>3. r + 1 \in 1..b.offset
      BY <1>5, <1>11
    <2>. QED
      BY <1>10, <1>11, <2>1, <2>2, <2>3
  <1>15. c = FillinSize(l)
    BY <1>2 DEF PutEndEncapsulation
  <1>16. /\ c \in Encoders /\ c.offset = l.offset
         /\ \A i \in 1..4 : c.bytes[r - 4 + i] = InOrder(Pattern(l.offset - r, 4), e.little)[i]
         /\ \A i \in 1..Len(l.bytes) : i \notin r - 3..r => c.bytes[i] = l.bytes[i]
    <2>1. r <= l.offset
      <3>1. l.offset \in Nat
        BY <1>14 DEF Encoders
      <3>. QED
        BY <1>5, <1>14, <3>1
    <2>2. r \in StackEntry /\ e.sizeStack \in Seq(StackEntry)
      BY <1>4, <1>9
    <2> HIDE DEF r
    <2>3. /\ FillinSize(l) \in Encoders /\ FillinSize(l).offset = l.offset
          /\ \A i \in 1..4 : FillinSize(l).bytes[r - 4 + i]
                                 = InOrder(Pattern(l.offset - r, 4), l.little)[i]
          /\ \A i \in 1..Len(l.bytes) : i \notin r - 3..r => FillinSize(l).bytes[i] = l.bytes[i]
      <3>1. l \in Encoders /\ l.sizeStack = Append(e.sizeStack, r)
        BY <1>14
      <3>. QED
        BY <2>1, <2>2, <3>1, SizeFilled, ZenonT(60)
    <2>4. l.little = e.little
      BY <1>14
    <2>. QED
      BY <1>15, <2>3, <2>4, Zenon
  <1>17. c.bytes[r + 1] = l.bytes[r + 1]
    <2>1. l.offset \in Nat /\ l.offset <= Len(l.bytes) /\ Len(l.bytes) \in Nat
      BY <1>14 DEF Encoders
    <2>2. r + 1 \in 1..Len(l.bytes) /\ r + 1 \notin r - 3..r
      BY <1>5, <1>14, <2>1
    <2>. QED
      BY <1>16, <2>2
  <1>18. c \in Later(e)
    <2>1. PutBeginEncapsulation(e, type) \in Inside(e)
      BY <1>1, EncapsulationBegins
    <2>2. PutBeginEncapsulation(e, type) \in Encoders
      BY <2>1, InsideIsEncoder
    <2>3. l \in Inside(e)
      BY <1>2, <2>1, <2>2, InsideStays
    <2>. QED
      BY <1>15, <2>3, InsideIsLeft
  <1>19. \A i \in 1..4 : r - 4 + i = at + 4 + i
    BY <1>5
  <1>20. r + 1 = at + 9
    BY <1>5
  <1> HIDE DEF r
  <1>. QED
    <2>1. c.offset >= at + 9
      BY <1>14, <1>16, <1>20
    <2>2. c.bytes[at + 9] = IF e.little THEN 1 ELSE 0
      BY <1>14, <1>17, <1>20
    <2>3. \A i \in 1..4 : c.bytes[at + 4 + i] = InOrder(Pattern(c.offset - r, 4), e.little)[i]
      BY <1>16, <1>19
    <2>. QED
      BY <1>5, <1>16, <1>18, <2>1, <2>2, <2>3 DEF r

\* A decoder elsewhere, that has returned something else.
MovedTo(r, offset, got) == [r EXCEPT !.offset = offset, !.got = got]

LEMMA ReaderSet ==
    ASSUME NEW V, NEW r \in Readers(V), NEW p, NEW v
    PROVE  MovedTo(r, p, v)
               = DecoderAt(p, r.bytes, r.little, r.encapStack, TRUE, v)
  <1> DEFINE o == r.offset
             b == r.bytes
             l == r.little
             s == r.encapStack
             g == r.got
             k == r.ok
             x == DecoderAt(o, b, l, s, k, g)
             y == DecoderAt(p, b, l, s, k, g)
  <1>1. r = x
    BY DEF DecoderAt, Readers
  <1> HIDE DEF o, b, l, s, g, k
  <1>2. [x EXCEPT !.offset = p] = y
    BY DEF DecoderAt
  <1>3. [y EXCEPT !.got = v] = DecoderAt(p, b, l, s, k, v)
    BY DEF DecoderAt
  <1> HIDE DEF x, y
  <1>4. [r EXCEPT !.offset = p, !.got = v] = DecoderAt(p, b, l, s, k, v)
    BY <1>1, <1>2, <1>3, Zenon
  <1>5. k = TRUE
    BY DEF k, Readers
  <1>. QED
    BY <1>4, <1>5, Zenon DEF b, l, s, MovedTo

\* What is read of a service context, if it can be read: the decoder is behind
\* it, and was not at the end of the message before.
LEMMA ContextTaken ==
    ASSUME NEW V, NEW r \in Readers(V), NEW e \in Encoders, r.offset = e.offset,
           r.little = e.little, NEW c, IsContext(e, c), c.offset < UlongLimit,
           Matches(r, e.offset, c), GetContext(r).ok
    PROVE  /\ \E s : IsSeq(s) /\ GetContext(r) = MovedTo(r, c.offset, s)
           /\ r.offset + 9 <= Len(r.bytes)
  <1> DEFINE at == Aligned(e.offset, 4)
             size == c.offset - (at + 8)
             t == GetNumber(r, 4)
             u == GetNumber(t, 4)
             y == [u EXCEPT !.got = Front(@)]
             n == Number(Value(u))
             x == [y EXCEPT !.encapStack =
                       Append(@, [nextOffset |-> y.offset + n, endian |-> y.little])]
             z == GetNumber(x, 1)
             v == [z EXCEPT !.got = Front(@), !.little = (Value(z) = <<1>>)]
             b == IF z.ok THEN v ELSE z
             w == IF u.ok THEN b ELSE u
             a == IF t.ok THEN w ELSE t
             h == Content([a EXCEPT !.got = r.got], Number(Value(a)))
             p == IF a.ok THEN h ELSE a
  <1>1. GetContext(r) = IF p.ok THEN GetEndEncapsulation(p) ELSE p
    BY Zenon DEF GetContext, GetBeginEncapsulation, GetEndian, WithUlong, After, Content
  <1>2. /\ at \in Nat /\ at >= e.offset /\ c \in Encoders
        /\ c.offset >= at + 9
        /\ \A i \in 1..4 : c.bytes[at + 4 + i] = InOrder(Pattern(size, 4), e.little)[i]
    BY ContextPut
  <1>3. c.offset \in Nat /\ e.offset \in Nat /\ e.little \in BOOLEAN /\ at % 4 = 0
    <2>1. c.offset \in Nat /\ e.offset \in Nat /\ e.little \in BOOLEAN
      BY <1>2 DEF Encoders
    <2>. QED
      BY <2>1, AlignedUp DEF AlignWidth
  <1> HIDE DEF at
  <1>4. size \in Nat /\ size < UlongLimit
    BY <1>2, <1>3, SMTT(30) DEF UlongLimit
  <1>5. t.ok /\ u.ok /\ z.ok /\ h.ok /\ GetContext(r) = GetEndEncapsulation(h) /\ a = v
    <2> HIDE DEF t, u, z, h, v
    <2>1. p.ok
      <3> HIDE DEF p
      <3>. QED
        BY <1>1
    <2>2. GetContext(r) = GetEndEncapsulation(p)
      BY <1>1, <2>1, Zenon
    <2>3. a.ok /\ p = h
      <3> HIDE DEF a
      <3>. QED
        BY <2>1
    <2>4. t.ok /\ a = w
      <3> HIDE DEF w
      <3>. QED
        BY <2>3
    <2>5. u.ok /\ a = b
      <3> HIDE DEF b
      <3>. QED
        BY <2>3, <2>4
    <2>. QED
      BY <2>1, <2>2, <2>3, <2>4, <2>5
  <1> HIDE DEF p, a, b, w
  <1> DEFINE W == V \cup Seq(Octet)
             close == [nextOffset |-> c.offset, endian |-> r.little]
  <1>6. /\ r.offset \in Nat /\ r.bytes \in Seq(Octet) /\ Len(r.bytes) \in Nat
        /\ r.little \in BOOLEAN /\ r.encapStack \in Seq(Closing) /\ r.got \in Seq(V)
    <2>1. r.bytes \in Seq(Octet)
      BY DEF Readers
    <2>. QED
      BY <2>1 DEF Readers
  <1>7. 4 \in AlignWidth /\ 1 \in AlignWidth
    BY DEF AlignWidth
  <1>8. PICK q \in Seq(Octet) : t = Advanced(r, at + 4, q)
    <2>1. Aligned(r.offset, 4) = at
      BY DEF at
    <2>2. \/ ~t.ok
          \/ \E q \in Seq(Octet) : t = Advanced(r, at + 4, q)
      BY <1>7, <2>1, AnyNumber
    <2>. QED
      BY <1>5, <2>2
  <1> HIDE DEF t
  <1>9. /\ t \in Readers(W) /\ t.offset = at + 4 /\ t.bytes = r.bytes /\ t.little = r.little
        /\ t.encapStack = r.encapStack
    <2>1. r \in Readers(W)
      BY ReadersOfMore DEF W
    <2>2. at + 4 \in Nat /\ q \in W
      BY <1>2
    <2> HIDE DEF W
    <2>3. t \in Readers(W)
      BY <1>8, <2>1, <2>2, MovesFurther
    <2>. QED
      BY <1>8, <2>1, <2>3 DEF Advanced, Readers
  <1> HIDE DEF W
  <1>10. Aligned(t.offset, 4) = at + 4
    BY <1>2, <1>3, <1>9 DEF Aligned
  <1>11. Holds(t, at + 4, InOrder(Pattern(size, 4), t.little))
    <2> DEFINE all == InOrder(Pattern(size, 4), t.little)
    <2>1. Pattern(size, 4) \in Seq(Octet) /\ Len(Pattern(size, 4)) = 4
      BY <1>4, PatternIsWord DEF AnyWord
    <2>2. all \in Seq(Octet) /\ Len(all) = 4
      BY <1>6, <1>9, <2>1, InOrderKeeps
    <2>3. Matches(t, e.offset, c)
      BY <1>9 DEF Matches
    <2> DEFINE given == \A i \in 1..4 : c.bytes[at + 4 + i] = all[i]
    <2>0. given
      BY <1>2, <1>9
    <2> HIDE DEF all
    <2>4. at + 4 \in Nat /\ at + 4 >= e.offset /\ at + 4 + Len(all) <= c.offset
      BY <1>2, <1>3, <2>2, SMTT(30)
    <2>5. \A i \in 1..Len(all) : c.bytes[at + 4 + i] = all[i]
      BY <2>0, <2>2
    <2>6. Holds(t, at + 4, all)
      BY <1>2, <1>3, <1>9, <2>2, <2>3, <2>4, <2>5, MatchingHolds
    <2>. QED
      BY <2>6 DEF all
  <1>12. n = size /\ y = [t EXCEPT !.offset = at + 8] /\ at + 8 <= Len(r.bytes)
    <2>1. Holds(t, Aligned(t.offset, 4), InOrder(Pattern(size, 4), t.little))
      BY <1>10, <1>11
    <2> DEFINE end == Aligned(t.offset, 4) + 4
    <2>2. /\ end <= Len(t.bytes) => n = size /\ y = [t EXCEPT !.offset = end]
          /\ end > Len(t.bytes) => ~u.ok
      <3> HIDE DEF size
      <3>. QED
        BY <1>4, <1>9, <2>1, UlongTaken
    <2>3. end = at + 8
      BY <1>2, <1>10
    <2> HIDE DEF end, u, y, n
    <2>. QED
      BY <1>2, <1>5, <1>6, <1>9, <2>2, <2>3
  <1> HIDE DEF y, n, u
  <1>13. /\ x = [t EXCEPT !.offset = at + 8, !.encapStack = Append(r.encapStack, close)]
         /\ x \in Readers(W) /\ x.bytes = r.bytes /\ x.offset = at + 8
         /\ x.encapStack = Append(r.encapStack, close)
    <2>1. y.offset = at + 8 /\ y.little = r.little /\ y.encapStack = r.encapStack
      BY <1>9, <1>12 DEF Readers
    <2>2. y.offset + n = c.offset
      BY <1>2, <1>3, <1>12, <2>1
    <2>3. x = [t EXCEPT !.offset = at + 8, !.encapStack = Append(r.encapStack, close)]
      BY <1>9, <1>12, <2>1, <2>2 DEF Readers
    <2>4. close \in Closing
      BY <1>3, <1>6 DEF Closing
    <2>5. Append(r.encapStack, close) \in Seq(Closing) /\ at + 8 \in Nat
      BY <1>2, <1>6, <2>4
    <2> HIDE DEF close, x
    <2>. QED
      BY <1>9, <2>3, <2>5 DEF Readers
  <1> HIDE DEF x, close
  <1>14. PICK q2 \in Seq(Octet) : z = Advanced(x, at + 9, q2) /\ at + 9 <= Len(r.bytes)
    <2>1. Aligned(x.offset, 1) = at + 8
      BY <1>2, <1>13 DEF Aligned
    <2>2. at + 8 + 1 = at + 9
      BY <1>2
    <2>3. \/ ~z.ok
          \/ Aligned(x.offset, 1) + 1 <= Len(x.bytes)
             /\ \E q2 \in Seq(Octet) : z = Advanced(x, Aligned(x.offset, 1) + 1, q2)
      <3>1. x \in Readers(W)
        BY <1>13
      <3>. QED
        BY <1>7, <3>1, AnyNumber
    <2> HIDE DEF z
    <2>. QED
      BY <1>5, <1>13, <2>1, <2>2, <2>3
  <1> HIDE DEF z
  <1> DEFINE l == (Value(z) = <<1>>)
             d == [a EXCEPT !.got = r.got]
  <1>15. d \in Readers(V) /\ d.bytes = r.bytes /\ d.encapStack = Append(r.encapStack, close)
    <2>1. a = [z EXCEPT !.got = Front(@), !.little = l]
      BY <1>5
    <2>2. l \in BOOLEAN
      OBVIOUS
    <2> HIDE DEF l
    <2>3. /\ d = [x EXCEPT !.offset = at + 9, !.little = l, !.got = r.got]
      BY <1>13, <1>14, <2>1 DEF Advanced, Readers
    <2>4. at + 9 \in Nat
      BY <1>2
    <2> HIDE DEF d
    <2>. QED
      BY <1>6, <1>13, <2>2, <2>3, <2>4 DEF Readers
  <1>16. Alike(h, d)
    <2>1. h = Content(d, Number(Value(a)))
      BY DEF h
    <2> HIDE DEF d, h
    <2>. QED
      BY <1>15, <2>1, ContentAlike, Zenon
  <1> HIDE DEF h, d
  <1>17. PICK o, m, k, g : /\ k \in BOOLEAN /\ IsSeq(g)
                          /\ h = DecoderAt(o, r.bytes, m, Append(r.encapStack, close), k, g)
    BY <1>15, <1>16 DEF Alike
  <1>18. k = TRUE
    BY <1>5, <1>17 DEF DecoderAt
  <1>19. Front(Append(r.encapStack, close)) = r.encapStack /\ Last(Append(r.encapStack, close)) = close
    <2>1. close \in Closing
      BY <1>3, <1>6 DEF close, Closing
    <2>. QED
      BY <1>6, <2>1, FrontOfAppended
  <1>20. GetEndEncapsulation(h) = DecoderAt(c.offset, r.bytes, r.little, r.encapStack, TRUE, g)
    <2> DEFINE s == Append(r.encapStack, close)
    <2>1. Last(h.encapStack) = close /\ Front(h.encapStack) = r.encapStack
      BY <1>17, <1>19 DEF DecoderAt
    <2>2. close.nextOffset = c.offset /\ close.endian = r.little
      BY DEF close
    <2>3. GetEndEncapsulation(h) = [h EXCEPT !.encapStack = r.encapStack, !.little = r.little,
                                             !.offset = c.offset]
      BY <2>1, <2>2, Zenon DEF GetEndEncapsulation
    <2> HIDE DEF s
    <2>4. h = DecoderAt(o, r.bytes, m, s, TRUE, g)
      BY <1>17, <1>18 DEF s
    <2>. QED
      BY <2>3, <2>4 DEF DecoderAt
  <1>21. MovedTo(r, c.offset, g)
             = DecoderAt(c.offset, r.bytes, r.little, r.encapStack, TRUE, g)
    BY ReaderSet
  <1>22. r.offset + 9 <= Len(r.bytes)
    BY <1>2, <1>3, <1>6, <1>14
  <1>. QED
    BY <1>5, <1>17, <1>20, <1>21, <1>22, Zenon
-----------------------------------------------------------------------------
(***************************************************************************)
(* The list of service contexts: how many, and one after the other.        *)
(***************************************************************************)
IsList(f, e, m) ==
    /\ f[0] = PutUlong(e, m)
    /\ \A i \in 1..m : IsContext(f[i - 1], f[i])

LEMMA ListPut ==
    ASSUME NEW e \in Encoders, NEW m \in Nat, NEW f, IsList(f, e, m)
    PROVE  /\ \A i \in 0..m : f[i] \in Encoders /\ f[i].offset \in Nat /\ f[i].offset >= 9 * i
           /\ \A i \in 0..m : \A j \in i..m : f[j] \in Later(f[i])
           /\ f[m] \in Later(e)
  <1>1. f[0] \in Encoders /\ f[0] \in Later(e) /\ f[0].offset \in Nat
    <2>1. f[0] \in Encoders /\ f[0] \in Later(e)
      BY UlongKeeps DEF IsList
    <2>. QED
      BY <2>1 DEF Encoders
  <1>2. ASSUME NEW i \in 1..m, f[i - 1] \in Encoders
        PROVE  f[i] \in Encoders /\ f[i] \in Later(f[i - 1]) /\ f[i].offset \in Nat
               /\ f[i].offset >= f[i - 1].offset + 9
    <2> DEFINE at == Aligned(f[i - 1].offset, 4)
    <2>1. IsContext(f[i - 1], f[i])
      BY DEF IsList
    <2>2. /\ at \in Nat /\ at >= f[i - 1].offset
          /\ f[i] \in Later(f[i - 1]) /\ f[i] \in Encoders
          /\ f[i].offset >= at + 9
      BY <1>2, <2>1, ContextPut
    <2>3. f[i].offset \in Nat /\ f[i - 1].offset \in Nat
      BY <1>2, <2>2 DEF Encoders
    <2> HIDE DEF at
    <2>. QED
      BY <2>2, <2>3
  <1> DEFINE T == {k \in Nat : k <= m => /\ f[k] \in Encoders /\ f[k].offset \in Nat
                                         /\ f[k].offset >= 9 * k}
  <1>3. \A k \in Nat : k \in T
    <2>1. 0 \in T
      BY <1>1
    <2>2. ASSUME NEW k \in Nat, k \in T
          PROVE  k + 1 \in T
      <3>1. CASE k + 1 <= m
        <4>1. k + 1 \in 1..m /\ (k + 1) - 1 = k
          BY <3>1
        <4>2. f[k] \in Encoders /\ f[k].offset \in Nat /\ f[k].offset >= 9 * k
          BY <2>2, <3>1
        <4>3. f[k + 1] \in Encoders /\ f[k + 1].offset \in Nat /\ f[k + 1].offset >= f[k].offset + 9
          BY <1>2, <4>1, <4>2
        <4>4. f[k + 1].offset >= 9 * (k + 1)
          BY <4>2, <4>3
        <4>. QED
          BY <4>3, <4>4
      <3>. QED
        BY <3>1
    <2> HIDE DEF T
    <2>3. Nat \subseteq T
      BY <2>1, <2>2, ByNumber!Induct
    <2>. QED
      BY <2>3
  <1>4. \A i \in 0..m : f[i] \in Encoders /\ f[i].offset \in Nat /\ f[i].offset >= 9 * i
    BY <1>3
  <1> HIDE DEF T
  <1>5. ASSUME NEW i \in 0..m
        PROVE  \A j \in i..m : f[j] \in Later(f[i])
    <2> DEFINE S == {k \in Nat : i + k <= m => f[i + k] \in Later(f[i])}
    <2>1. 0 \in S
      <3>1. f[i] \in Later(f[i]) /\ i + 0 = i
        BY <1>4, NowIsLater
      <3>. QED
        BY <3>1
    <2>2. ASSUME NEW k \in Nat, k \in S
          PROVE  k + 1 \in S
      <3>1. CASE i + (k + 1) <= m
        <4>1. i + (k + 1) \in 1..m /\ i + (k + 1) - 1 = i + k /\ i + k \in 0..m /\ i + k <= m
          BY <3>1
        <4>2. f[i + (k + 1)] \in Later(f[i + k])
          <5>1. f[i + (k + 1) - 1] \in Encoders
            BY <1>4, <4>1
          <5>2. f[i + (k + 1)] \in Later(f[i + (k + 1) - 1])
            BY <1>2, <4>1, <5>1
          <5>. QED
            BY <4>1, <5>2
        <4>3. f[i + k] \in Later(f[i])
          BY <2>2, <4>1
        <4>4. f[i + (k + 1)] \in Later(f[i])
          BY <1>4, <4>2, <4>3, LaterIsLater
        <4>. QED
          BY <4>4
      <3>. QED
        BY <3>1
    <2> HIDE DEF S
    <2>3. Nat \subseteq S
      BY <2>1, <2>2, ByNumber!Induct
    <2>4. ASSUME NEW j \in i..m
          PROVE  f[j] \in Later(f[i])
      <3>1. j - i \in S /\ i + (j - i) = j /\ j <= m
        BY <2>3
      <3>. QED
        BY <3>1 DEF S
    <2>. QED
      BY <2>4
  <1>6. f[m] \in Later(e)
    <2>1. 0 \in 0..m /\ m \in 0..m
      OBVIOUS
    <2>2. f[m] \in Later(f[0])
      BY <1>5, <2>1
    <2>. QED
      BY <1>1, <2>2, LaterIsLater
  <1>. QED
    BY <1>4, <1>5, <1>6

ByContext == INSTANCE FoldFacts WITH Op <- LAMBDA e, i, w : IF e.ok THEN GetContext(e) ELSE e

LEMMA ContextsFold ==
    ASSUME NEW x, NEW n \in Nat
    PROVE  \E h : /\ h[0] = x
                  /\ \A i \in 1..n : h[i] = IF h[i - 1].ok THEN GetContext(h[i - 1]) ELSE h[i - 1]
                  /\ FoldLeft(LAMBDA e, i : After(e, GetContext), x, [i \in 1..n |-> i]) = h[n]
  <1> DEFINE count == [i \in 1..n |-> i]
             it == CHOOSE h : ByContext!IsIter(h, x, count, 0)
             all == FoldLeft(LAMBDA e, i : After(e, GetContext), x, count)
  <1>1. count \in Seq(Nat) /\ Len(count) = n
    OBVIOUS
  <1>2. ByContext!IsIter(it, x, count, 0)
    <2> HIDE DEF count
    <2>. QED
      BY <1>1, ByContext!IterExists, Zenon
  <1>3. all = it[DOMAIN count]
    BY DEF ByContext!IsIter, FoldLeft, MapThenFoldSet, ByContext!Greatest, Max, After
  <1> HIDE DEF it, count, all
  <1>4. PICK h : ByContext!IsFold(h, x, count, 0) /\ all = h[n]
    BY <1>1, <1>2, <1>3, ByContext!IterFolds
  <1>5. h[0] = x /\ \A i \in 1..n : h[i] = IF h[i - 1].ok THEN GetContext(h[i - 1]) ELSE h[i - 1]
    BY <1>1, <1>4 DEF ByContext!IsFold
  <1>. QED
    BY <1>4, <1>5 DEF all, count

LEMMA ReaderMovedTo ==
    ASSUME NEW V, NEW r \in Readers(V), NEW offset \in Nat, NEW s, IsSeq(s)
    PROVE  /\ \E S : MovedTo(r, offset, s) \in Readers(S)
           /\ MovedTo(r, offset, s).offset = offset /\ MovedTo(r, offset, s).bytes = r.bytes
           /\ MovedTo(r, offset, s).little = r.little /\ MovedTo(r, offset, s).ok
           /\ MovedTo(r, offset, s).encapStack = r.encapStack /\ MovedTo(r, offset, s).got = s
           /\ \A p, g : MovedTo(MovedTo(r, offset, s), p, g) = MovedTo(r, p, g)
  <1>1. PICK S : s \in Seq(S)
    BY DEF IsSeq
  <1>2. MovedTo(r, offset, s) \in Readers(S)
    BY <1>1 DEF MovedTo, Readers
  <1>3. /\ MovedTo(r, offset, s).offset = offset /\ MovedTo(r, offset, s).bytes = r.bytes
        /\ MovedTo(r, offset, s).little = r.little /\ MovedTo(r, offset, s).ok
        /\ MovedTo(r, offset, s).encapStack = r.encapStack /\ MovedTo(r, offset, s).got = s
    BY DEF MovedTo, Readers
  <1> DEFINE c == MovedTo(r, offset, s)
  <1>4. ASSUME NEW p, NEW g
        PROVE  MovedTo(c, p, g) = MovedTo(r, p, g)
    <2> HIDE DEF c
    <2>1. MovedTo(c, p, g) = DecoderAt(p, c.bytes, c.little, c.encapStack, TRUE, g)
      BY <1>2, ReaderSet DEF c
    <2>2. MovedTo(r, p, g) = DecoderAt(p, r.bytes, r.little, r.encapStack, TRUE, g)
      BY ReaderSet
    <2>. QED
      BY <1>3, <2>1, <2>2, Zenon DEF c
  <1>. QED
    BY <1>2, <1>3, <1>4

\* Service contexts that can be read at all are read to their end.
LEMMA ContextsTaken ==
    ASSUME NEW V, NEW r \in Readers(V), NEW e \in Encoders, r.offset = e.offset,
           r.little = e.little, NEW m \in Nat, NEW f, IsList(f, e, m), NEW c, c = f[m],
           c.offset < UlongLimit, Matches(r, e.offset, c), GetServiceContext(r).ok
    PROVE  /\ \E x : GetServiceContext(r) = Advanced(r, c.offset, x)
           /\ Aligned(e.offset, 4) + 4 <= Len(r.bytes)
  <1> DEFINE at == Aligned(e.offset, 4)
             u == GetNumber(r, 4)
             d == [u EXCEPT !.got = Front(@)]
             n == Number(Value(u))
             size == Len(r.bytes)
             count == IF m < size THEN m ELSE size
             b == [d EXCEPT !.got = <<>>]
             all == FoldLeft(LAMBDA z, i : After(z, GetContext), b, [i \in 1..count |-> i])
  <1>1. /\ r.bytes \in Seq(Octet) /\ size \in Nat /\ r.offset \in Nat /\ r.little \in BOOLEAN
        /\ r.got \in Seq(V)
    <2>1. r.bytes \in Seq(Octet)
      BY DEF Readers
    <2>. QED
      BY <2>1 DEF Readers
  <1>2. at \in Nat /\ at >= e.offset /\ e.offset \in Nat
    <2>1. e.offset \in Nat
      BY DEF Encoders
    <2>. QED
      BY <2>1, AlignedUp DEF AlignWidth
  <1>3. /\ \A i \in 0..m : f[i] \in Encoders /\ f[i].offset \in Nat /\ f[i].offset >= 9 * i
        /\ \A i \in 0..m : \A j \in i..m : f[j] \in Later(f[i])
    BY ListPut, Zenon
  <1>4. c.offset \in Nat /\ c.offset >= 9 * m
    BY <1>3
  <1>5. m < UlongLimit
    BY <1>4, SMTT(30) DEF UlongLimit
  <1>6. Holds(r, at, InOrder(Pattern(m, 4), r.little))
    <2> DEFINE p == InOrder(Pattern(m, 4), r.little)
               given == \A i \in 1..4 : f[0].bytes[at + i] = p[i]
    <2>1. given /\ f[0].offset = at + 4
      BY UlongKeeps DEF IsList
    <2>2. Pattern(m, 4) \in Seq(Octet) /\ Len(Pattern(m, 4)) = 4
      BY PatternIsWord DEF AnyWord
    <2>3. p \in Seq(Octet) /\ Len(p) = 4
      BY <1>1, <2>2, InOrderKeeps
    <2> HIDE DEF p, at
    <2>4. f[0] \in Encoders /\ c \in Later(f[0])
      BY <1>3
    <2>5. Matches(r, e.offset, f[0])
      BY <1>2, <2>4, MatchesEarlier
    <2>6. at + Len(p) <= f[0].offset /\ \A i \in 1..Len(p) : f[0].bytes[at + i] = p[i]
      BY <1>2, <2>1, <2>3
    <2>7. Holds(r, at, p)
      BY <1>2, <2>3, <2>4, <2>5, <2>6, MatchingHolds
    <2>. QED
      BY <2>7 DEF p
  <1>7. u.ok
    <2>1. ~u.ok => GetServiceContext(r) = u
      BY Zenon DEF GetServiceContext, WithUlong, After
    <2> HIDE DEF u
    <2>. QED
      BY <2>1
  <1>8. n = m /\ d = [r EXCEPT !.offset = at + 4] /\ at + 4 <= size
    <2>1. Holds(r, Aligned(r.offset, 4), InOrder(Pattern(m, 4), r.little))
      BY <1>6
    <2> DEFINE end == Aligned(r.offset, 4) + 4
    <2>2. /\ end <= size => n = m /\ d = [r EXCEPT !.offset = end]
          /\ end > size => ~u.ok
      BY <1>5, <2>1, UlongTaken
    <2>3. end = at + 4
      OBVIOUS
    <2> HIDE DEF end, u, d, n
    <2>. QED
      BY <1>1, <1>2, <1>7, <2>2, <2>3
  <1>9. GetServiceContext(r) = IF all.ok THEN Together(d, all) ELSE all
    <2>1. GetServiceContext(r) = GetContexts(d, n)
      BY <1>7, Zenon DEF GetServiceContext, WithUlong, After
    <2> HIDE DEF u, n
    <2>2. d.bytes = r.bytes
      <3> HIDE DEF d
      <3>. QED
        BY <1>8 DEF Readers
    <2> HIDE DEF d
    <2>3. GetContexts(d, m) = IF all.ok THEN Together(d, all) ELSE all
      BY <2>2, Zenon DEF GetContexts, After
    <2>. QED
      BY <1>8, <2>1, <2>3, Zenon
  <1> HIDE DEF u, n, d
  <1>10. b = MovedTo(r, at + 4, <<>>)
    BY <1>8, Zenon DEF MovedTo
  <1>11. count \in Nat /\ count <= m
    BY <1>1
  <1> HIDE DEF count, b
  <1>12. PICK h : /\ h[0] = b
                  /\ \A i \in 1..count : h[i] = IF h[i - 1].ok THEN GetContext(h[i - 1]) ELSE h[i - 1]
                  /\ all = h[count]
    BY <1>11, ContextsFold, Zenon
  <1> HIDE DEF all
  <1>13. all.ok /\ GetServiceContext(r) = Together(d, all)
    BY <1>9
  <1> DEFINE Passed(i) == /\ \E s : IsSeq(s) /\ h[i] = MovedTo(r, f[i].offset, s)
                          /\ 9 * i <= size
             T == {k \in Nat : k <= count /\ h[k].ok => Passed(k)}
  <1> HIDE DEF at, size
  <1>14. 0 \in T
    <2>1. f[0].offset = at + 4
      BY UlongKeeps DEF IsList, at
    <2>2. IsSeq(<<>>)
      BY SequencesStay
    <2>3. 9 * 0 <= size
      BY <1>1
    <2>. QED
      BY <1>10, <1>12, <2>1, <2>2, <2>3
  <1>15. ASSUME NEW k \in Nat, k \in T
         PROVE  k + 1 \in T
    <2>1. SUFFICES ASSUME k + 1 <= count, h[k + 1].ok
                   PROVE  Passed(k + 1)
      OBVIOUS
    <2>2. k + 1 \in 1..count /\ (k + 1) - 1 = k /\ k \in 0..m /\ k + 1 \in 0..m /\ k + 1 \in 1..m
          /\ m \in k + 1..m /\ k <= count
      BY <1>11, <2>1
    <2>3. h[k + 1] = IF h[k].ok THEN GetContext(h[k]) ELSE h[k]
      <3>1. \A i \in 1..count : h[i] = IF h[i - 1].ok THEN GetContext(h[i - 1]) ELSE h[i - 1]
        BY <1>12
      <3>2. h[k + 1] = IF h[(k + 1) - 1].ok THEN GetContext(h[(k + 1) - 1]) ELSE h[(k + 1) - 1]
        BY <2>2, <3>1, Zenon
      <3>. QED
        BY <2>2, <3>2
    <2>4. h[k].ok /\ h[k + 1] = GetContext(h[k]) /\ GetContext(h[k]).ok
      BY <2>1, <2>3
    <2>5. Passed(k)
      BY <1>15, <2>2, <2>4
    <2>6. PICK s : IsSeq(s) /\ h[k] = MovedTo(r, f[k].offset, s)
      BY <2>5
    <2>7. /\ f[k] \in Encoders /\ f[k].offset \in Nat /\ f[k].offset >= 9 * k
          /\ f[k + 1] \in Encoders /\ f[k + 1].offset \in Nat /\ c \in Later(f[k + 1])
          /\ f[k] \in Later(f[0]) /\ f[0] \in Encoders
      BY <1>3, <2>2
    <2>8. IsContext(f[k], f[k + 1])
      BY <2>2 DEF IsList
    <2>9. PICK S : h[k] \in Readers(S)
      BY <2>6, <2>7, ReaderMovedTo
    <2>10. h[k].offset = f[k].offset /\ h[k].little = r.little /\ h[k].bytes = r.bytes
      BY <2>6, <2>7, ReaderMovedTo
    <2>11. f[k].little = e.little /\ f[k].offset >= e.offset
      <3>1. f[0].little = e.little /\ f[0].offset >= e.offset
        BY UlongKeeps DEF IsList, Later, Beyond
      <3>2. f[k].little = f[0].little /\ f[k].offset >= f[0].offset /\ f[0].offset \in Nat
        BY <2>7 DEF Later, Beyond, Encoders
      <3>. QED
        BY <1>2, <2>7, <3>1, <3>2
    <2>12. Matches(h[k], f[k].offset, f[k + 1])
      <3>1. Matches(r, f[k].offset, f[k + 1])
        BY <1>2, <2>7, <2>11, MatchesEarlier
      <3>. QED
        BY <2>10, <3>1 DEF Matches
    <2>13. f[k + 1].offset < UlongLimit
      <3>1. c.offset >= f[k + 1].offset
        BY <2>7 DEF Later, Beyond
      <3>. QED
        BY <1>4, <2>7, <3>1, SMTT(30) DEF UlongLimit
    <2>14. /\ \E s2 : IsSeq(s2) /\ GetContext(h[k]) = MovedTo(h[k], f[k + 1].offset, s2)
           /\ h[k].offset + 9 <= Len(h[k].bytes)
      BY <2>4, <2>7, <2>8, <2>9, <2>10, <2>11, <2>12, <2>13, ContextTaken
    <2>15. PICK s2 : IsSeq(s2) /\ GetContext(h[k]) = MovedTo(h[k], f[k + 1].offset, s2)
      BY <2>14
    <2>16. MovedTo(h[k], f[k + 1].offset, s2) = MovedTo(r, f[k + 1].offset, s2)
      BY <2>6, <2>7, ReaderMovedTo
    <2>17. 9 * (k + 1) <= size
      <3>1. f[k].offset + 9 <= size
        BY <2>10, <2>14 DEF size
      <3>. QED
        BY <1>1, <2>7, <3>1
    <2>. QED
      BY <2>4, <2>15, <2>16, <2>17
  <1>16. Nat \subseteq T
    <2> HIDE DEF T
    <2>. QED
      BY <1>14, <1>15, ByNumber!Induct
  <1>17. Passed(count)
    <2>1. count \in T /\ count <= count
      BY <1>11, <1>16
    <2> HIDE DEF Passed
    <2>. QED
      BY <1>12, <1>13, <2>1
  <1>18. count = m
    <2>1. count = m \/ count = size
      BY DEF count
    <2>2. size > 0
      BY <1>1, <1>2, <1>8
    <2>3. 9 * count <= size
      BY <1>17
    <2>. QED
      BY <1>1, <2>1, <2>2, <2>3
  <1>19. PICK s : IsSeq(s) /\ all = MovedTo(r, c.offset, s)
    BY <1>12, <1>17, <1>18
  <1>20. Together(d, all) = Advanced(r, c.offset, s)
    <2>1. all.got = s
      BY <1>4, <1>19, ReaderMovedTo
    <2>2. d.got = r.got
      BY <1>8 DEF Readers
    <2>3. [all EXCEPT !.got = r.got] = [r EXCEPT !.offset = c.offset]
      <3>1. [MovedTo(r, c.offset, s) EXCEPT !.got = r.got] = MovedTo(r, c.offset, r.got)
        BY DEF MovedTo, Readers
      <3>2. MovedTo(r, c.offset, r.got) = [r EXCEPT !.offset = c.offset]
        BY DEF MovedTo, Readers
      <3>. QED
        BY <1>19, <3>1, <3>2, Zenon
    <2>4. Together(d, all) = [[r EXCEPT !.offset = c.offset] EXCEPT !.got = Append(@, s)]
      BY <2>1, <2>2, <2>3, Zenon DEF Together, Return
    <2>5. [[r EXCEPT !.offset = c.offset] EXCEPT !.got = Append(@, s)] = Advanced(r, c.offset, s)
      BY DEF Advanced, Readers
    <2>. QED
      BY <2>4, <2>5, Zenon
  <1>. QED
    BY <1>8, <1>13, <1>20 DEF at, size
=============================================================================
