----------------------------- MODULE FoldFacts -----------------------------
(***************************************************************************)
(* What FoldLeft of SequencesExt computes, for any operator: the values    *)
(* f[0], f[1], ... of which each follows from the one before and the next  *)
(* element of the sequence.  A module about an operator takes this one     *)
(* with INSTANCE ... WITH Op <- that operator.                             *)
(***************************************************************************)
EXTENDS Integers, Sequences, TLAPS

LOCAL Order == INSTANCE WellFoundedInduction

CONSTANT Op(_, _, _)

\* Every set of natural numbers has a least one.
LEMMA Least ==
    ASSUME NEW T \in SUBSET Nat, T # {}
    PROVE  \E n \in T : \A m \in T : n <= m
  <1>1. Order!IsWellFoundedOn(Order!OpToRel(<, Nat), Nat)
    BY Order!NatLessThanWellFounded
  <1>2. PICK n \in T : \A m \in T : ~(<<m, n>> \in Order!OpToRel(<, Nat))
    BY <1>1, Order!WFMin
  <1>3. Order!OpToRel(<, Nat) = {ss \in Nat \X Nat : ss[1] < ss[2]}
    BY DEF Order!OpToRel
  <1>4. ASSUME NEW m \in T
        PROVE  n <= m
    <2>1. ~(<<m, n>> \in {ss \in Nat \X Nat : ss[1] < ss[2]})
      BY <1>2, <1>3
    <2>. QED
      BY <2>1, n \in Nat, m \in Nat
  <1>. QED
    BY <1>4

\* Induction over the natural numbers, for sets.
LEMMA Induct ==
    ASSUME NEW S, 0 \in S, \A n \in Nat : n \in S => n + 1 \in S
    PROVE  Nat \subseteq S
  <1>1. SUFFICES ASSUME Nat \ S # {}
                 PROVE  FALSE
    OBVIOUS
  <1>2. PICK n \in Nat \ S : \A m \in Nat \ S : n <= m
    BY <1>1, Least
  <1>3. n # 0
    OBVIOUS
  <1>4. n - 1 \in Nat /\ n - 1 \in S
    BY <1>2, <1>3
  <1>5. n - 1 + 1 = n
    OBVIOUS
  <1>. QED
    BY <1>2, <1>4, <1>5

-----------------------------------------------------------------------------
\* Max of FiniteSetsExt, on whose sets of indices FoldLeft is defined.
Greatest(s) == CHOOSE x \in s : \A y \in s : x >= y

IsFold(f, base, seq, with) ==
    /\ f[0] = base
    /\ \A i \in 1..Len(seq) : f[i] = Op(f[i - 1], seq[i], with)

\* The function of sets of indices that FoldLeft chooses.
IsIter(it, base, seq, with) ==
    it = [s \in SUBSET DOMAIN seq |->
             IF s = {} THEN base ELSE Op(it[s \ {Greatest(s)}], seq[Greatest(s)], with)]

LEMMA MaxOfRange ==
    ASSUME NEW m \in Nat, NEW s \in SUBSET (1..m), s # {}
    PROVE  Greatest(s) \in s /\ \A x \in s : x <= Greatest(s)
  <1> DEFINE T == {m - x : x \in s}
  <1>1. T \in SUBSET Nat /\ T # {}
    <2>1. \A x \in s : x \in 1..m /\ m - x \in Nat
      OBVIOUS
    <2>2. PICK x \in s : TRUE
      OBVIOUS
    <2>. QED
      BY <2>1, <2>2
  <1>2. PICK n \in T : \A k \in T : n <= k
    BY <1>1, Least
  <1>3. PICK x \in s : n = m - x
    BY <1>2
  <1>4. \A y \in s : x >= y
    BY <1>2, <1>3
  <1>. QED
    BY <1>4 DEF Greatest

\* The same for the sets of the first m indices only.
IsPartial(it, m, base, seq, with) ==
    it = [s \in SUBSET (1..m) |->
             IF s = {} THEN base ELSE Op(it[s \ {Greatest(s)}], seq[Greatest(s)], with)]

LEMMA IterExists ==
    ASSUME NEW base, NEW with, NEW S, NEW seq \in Seq(S)
    PROVE  \E it : IsIter(it, base, seq, with)
  <1> DEFINE M == {m \in Nat : \E it : IsPartial(it, m, base, seq, with)}
  <1>1. 0 \in M
    <2> DEFINE it == [s \in SUBSET (1..0) |-> base]
    <2>1. \A s \in SUBSET (1..0) : s = {} /\ it[s] = base
      OBVIOUS
    <2>2. it = [s \in SUBSET (1..0) |-> it[s]]
      OBVIOUS
    <2> HIDE DEF it
    <2>3. IsPartial(it, 0, base, seq, with)
      BY <2>1, <2>2 DEF IsPartial
    <2>. QED
      BY <2>3
  <1>2. ASSUME NEW m \in Nat, m \in M
        PROVE  m + 1 \in M
    <2>1. PICK it : IsPartial(it, m, base, seq, with)
      BY <1>2
    <2> DEFINE next == [s \in SUBSET (1..m + 1) |->
                           IF s = {} THEN base ELSE Op(it[s \ {Greatest(s)}], seq[Greatest(s)], with)]
    <2>2. ASSUME NEW s \in SUBSET (1..m + 1), s # {}
          PROVE  s \ {Greatest(s)} \in SUBSET (1..m)
      <3>1. Greatest(s) \in s /\ \A x \in s : x <= Greatest(s)
        BY <2>2, MaxOfRange, m + 1 \in Nat
      <3>2. ASSUME NEW x \in s, x # Greatest(s)
            PROVE  x \in 1..m
        <4>1. x \in 1..m + 1 /\ Greatest(s) \in 1..m + 1 /\ x <= Greatest(s)
          BY <3>1
        <4>. QED
          BY <3>2, <4>1
      <3>. QED
        BY <3>2
    <2>3. \A s \in SUBSET (1..m) : next[s] = it[s]
      <3>1. SUBSET (1..m) \subseteq SUBSET (1..m + 1)
        OBVIOUS
      <3>2. \A s \in SUBSET (1..m) :
                it[s] = IF s = {} THEN base ELSE Op(it[s \ {Greatest(s)}], seq[Greatest(s)], with)
        BY <2>1 DEF IsPartial
      <3>. QED
        BY <3>1, <3>2
    <2>4. \A s \in SUBSET (1..m + 1) :
              next[s] = IF s = {} THEN base ELSE Op(next[s \ {Greatest(s)}], seq[Greatest(s)], with)
      BY <2>2, <2>3
    <2>5. next = [s \in SUBSET (1..m + 1) |-> next[s]]
      OBVIOUS
    <2> HIDE DEF next
    <2>6. IsPartial(next, m + 1, base, seq, with)
      BY <2>4, <2>5 DEF IsPartial
    <2>. QED
      BY <2>6
  <1>3. Len(seq) \in M
    <2> HIDE DEF M
    <2>. QED
      BY <1>1, <1>2, Induct
  <1>4. PICK it : IsPartial(it, Len(seq), base, seq, with)
    BY <1>3
  <1>5. IsIter(it, base, seq, with)
    BY <1>4, DOMAIN seq = 1..Len(seq) DEF IsIter, IsPartial
  <1>. QED
    BY <1>5

\* The function of indices: what has been folded so far.
LEMMA IterFolds ==
    ASSUME NEW base, NEW with, NEW S, NEW seq \in Seq(S), NEW it, IsIter(it, base, seq, with)
    PROVE  \E f : IsFold(f, base, seq, with) /\ it[DOMAIN seq] = f[Len(seq)]
  <1> DEFINE f == [i \in 0..Len(seq) |-> it[1..i]]
  <1>1. /\ DOMAIN seq = 1..Len(seq) /\ Len(seq) \in Nat
        /\ \A s \in SUBSET (1..Len(seq)) :
              it[s] = IF s = {} THEN base ELSE Op(it[s \ {Greatest(s)}], seq[Greatest(s)], with)
    <2>1. DOMAIN seq = 1..Len(seq) /\ Len(seq) \in Nat
      OBVIOUS
    <2>. QED
      BY <2>1 DEF IsIter
  <1>2. f[0] = base
    <2>1. 1..0 = {} /\ 0 \in 0..Len(seq)
      BY <1>1
    <2>. QED
      BY <1>1, <2>1
  <1>3. ASSUME NEW i \in 1..Len(seq)
        PROVE  f[i] = Op(f[i - 1], seq[i], with)
    <2>1. Greatest(1..i) = i
      <3>1. i \in Nat /\ 1..i \in SUBSET (1..i) /\ i \in 1..i
        BY <1>1
      <3>2. Greatest(1..i) \in 1..i /\ \A x \in 1..i : x <= Greatest(1..i)
        BY <3>1, MaxOfRange
      <3>. QED
        BY <3>1, <3>2
    <2>2. i \in Nat /\ 1 <= i /\ i <= Len(seq)
      BY <1>1
    <2>3. \A x : x \in (1..i) \ {i} <=> x \in 1..i - 1
      BY <2>2
    <2>4. (1..i) \ {i} = 1..i - 1
      BY <2>3
    <2>5. i \in 1..i /\ \A x \in 1..i : x \in 1..Len(seq)
      BY <1>1, <2>2
    <2>6. 1..i \in SUBSET (1..Len(seq))
      BY <2>5
    <2>7. it[1..i] = Op(it[(1..i) \ {i}], seq[i], with)
      BY <1>1, <2>1, <2>5, <2>6
    <2>8. i \in 0..Len(seq) /\ i - 1 \in 0..Len(seq)
      BY <1>1, <2>2
    <2>9. f[i] = it[1..i] /\ f[i - 1] = it[1..i - 1]
      BY <2>8
    <2> HIDE DEF f
    <2>. QED
      BY <2>4, <2>7, <2>9
  <1>4. it[DOMAIN seq] = f[Len(seq)]
    BY <1>1
  <1> HIDE DEF f
  <1>. QED
    BY <1>2, <1>3, <1>4 DEF IsFold

(***************************************************************************)
(* A set for each index: when a step leads from one set to the next, the   *)
(* fold goes through all of them.                                          *)
(***************************************************************************)
LEMMA FoldReaches ==
    ASSUME NEW base, NEW with, NEW S, NEW seq \in Seq(S), NEW f, IsFold(f, base, seq, with),
           NEW I, base \in I[0],
           \A i \in 1..Len(seq) : \A e \in I[i - 1] : Op(e, seq[i], with) \in I[i]
    PROVE  \A i \in 0..Len(seq) : f[i] \in I[i]
  <1> DEFINE T == {n \in Nat : n <= Len(seq) => f[n] \in I[n]}
  <1>1. 0 \in T
    BY DEF IsFold
  <1>2. ASSUME NEW n \in Nat, n \in T
        PROVE  n + 1 \in T
    <2>1. CASE n + 1 <= Len(seq)
      <3>1. n + 1 \in 1..Len(seq) /\ n + 1 - 1 = n /\ f[n] \in I[n]
        BY <1>2, <2>1
      <3>2. f[n + 1] = Op(f[n], seq[n + 1], with)
        BY <3>1 DEF IsFold
      <3>3. \A e \in I[n] : Op(e, seq[n + 1], with) \in I[n + 1]
        BY <3>1
      <3>. QED
        BY <3>1, <3>2, <3>3
    <2>. QED
      BY <2>1
  <1>3. Nat \subseteq T
    <2> HIDE DEF T
    <2>. QED
      BY <1>1, <1>2, Induct
  <1>. QED
    BY <1>3

\* The same with one set: what a step keeps, the fold keeps.
LEMMA FoldKeeps ==
    ASSUME NEW base, NEW with, NEW S, NEW seq \in Seq(S), NEW f, IsFold(f, base, seq, with),
           NEW I, base \in I,
           \A e \in I : \A i \in 1..Len(seq) : Op(e, seq[i], with) \in I
    PROVE  \A i \in 0..Len(seq) : f[i] \in I
  <1> DEFINE J == [i \in 0..Len(seq) |-> I]
  <1>1. \A i \in 0..Len(seq) : J[i] = I
    OBVIOUS
  <1>2. Len(seq) \in Nat /\ \A i \in 1..Len(seq) : i \in 0..Len(seq) /\ i - 1 \in 0..Len(seq)
    OBVIOUS
  <1> HIDE DEF J
  <1>3. base \in J[0]
    BY <1>1, <1>2
  <1>4. \A i \in 1..Len(seq) : \A e \in J[i - 1] : Op(e, seq[i], with) \in J[i]
    BY <1>1, <1>2
  <1>5. \A i \in 0..Len(seq) : f[i] \in J[i]
    BY <1>3, <1>4, FoldReaches
  <1>. QED
    BY <1>1, <1>5
=============================================================================
