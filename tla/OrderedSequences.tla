--------------------------- MODULE OrderedSequences ---------------------------
(***************************************************************************)
(* Lemmas about queues, for the proofs that a component hands things on in *)
(* order: queues of bounded length, and sequences whose numbers rise.  The *)
(* number 0 stands for an item without one.                                *)
(***************************************************************************)
EXTENDS Integers, SequencesExt, SequenceTheorems, TLAPS

\* The numbers of a sequence, and of one item.
Numbers(s) == {s[i] : i \in DOMAIN s} \ {0}
One(x) == {x} \ {0}

Before(A, B) == \A x \in A, y \in B : x < y
Rising(s) == \A i, j \in DOMAIN s : i < j /\ s[j] # 0 => s[i] < s[j]

-----------------------------------------------------------------------------
\* Bounded sequences.
LEMMA Bounded ==
  ASSUME NEW S, NEW n \in Nat, NEW s
  PROVE  s \in BoundedSeq(S, n) <=> s \in Seq(S) /\ Len(s) <= n
<1>1. s \in BoundedSeq(S, n) <=> \E m \in 0..n : s \in [1..m -> S]
  BY DEF BoundedSeq, SeqOf
<1>2. ASSUME NEW m \in 0..n, s \in [1..m -> S] PROVE s \in Seq(S) /\ Len(s) <= n
  BY <1>2
<1>3. ASSUME s \in Seq(S), Len(s) <= n PROVE \E m \in 0..n : s \in [1..m -> S]
  <2>1. Len(s) \in 0..n /\ s \in [1..Len(s) -> S]
    BY <1>3
  <2>2. QED
    BY <2>1
<1>4. QED
  BY <1>1, <1>2, <1>3

LEMMA BoundedEmpty == ASSUME NEW S, NEW n \in Nat PROVE <<>> \in BoundedSeq(S, n)
<1>1. <<>> \in Seq(S) /\ Len(<<>>) <= n
  OBVIOUS
<1>2. QED
  BY <1>1, Bounded

LEMMA BoundedTail ==
  ASSUME NEW S, NEW n \in Nat, NEW s \in BoundedSeq(S, n), s # <<>>
  PROVE  Tail(s) \in BoundedSeq(S, n) /\ Head(s) \in S
<1>1. s \in Seq(S) /\ Len(s) <= n
  BY Bounded
<1>2. Tail(s) \in Seq(S) /\ Len(Tail(s)) <= n /\ Head(s) \in S
  BY <1>1, HeadTailProperties
<1>3. QED
  BY <1>2, Bounded

LEMMA BoundedAppend ==
  ASSUME NEW S, NEW n \in Nat, NEW s \in BoundedSeq(S, n), Len(s) < n, NEW x \in S
  PROVE  Append(s, x) \in BoundedSeq(S, n)
<1>1. s \in Seq(S) /\ Len(s) <= n
  BY Bounded
<1>2. Append(s, x) \in Seq(S) /\ Len(Append(s, x)) <= n
  BY <1>1, AppendProperties
<1>3. QED
  BY <1>2, Bounded

-----------------------------------------------------------------------------
\* Rising sequences.
LEMMA EmptyRises == Rising(<<>>) /\ Numbers(<<>>) = {} /\ One(0) = {}
BY DEF Rising, Numbers, One

LEMMA RisingTail ==
  ASSUME NEW s \in Seq(Nat), s # <<>>, Rising(s)
  PROVE  /\ Rising(Tail(s)) /\ Numbers(Tail(s)) \subseteq Numbers(s)
         /\ One(Head(s)) \subseteq Numbers(s)
         /\ Before(One(Head(s)), Numbers(Tail(s)))
<1>1. /\ Tail(s) \in Seq(Nat) /\ Len(Tail(s)) = Len(s) - 1 /\ Len(s) \in Nat \ {0}
      /\ \A i \in 1..Len(Tail(s)) : Tail(s)[i] = s[i + 1]
      /\ Head(s) = s[1]
  BY HeadTailProperties
<1>2. \A i \in DOMAIN Tail(s) : i + 1 \in DOMAIN s /\ i + 1 > 1 /\ Tail(s)[i] = s[i + 1]
  BY <1>1
<1>3. 1 \in DOMAIN s
  BY <1>1
<1>4. Rising(Tail(s))
  <2>1. SUFFICES ASSUME NEW i \in DOMAIN Tail(s), NEW j \in DOMAIN Tail(s), i < j,
                        Tail(s)[j] # 0
                 PROVE  Tail(s)[i] < Tail(s)[j]
    BY DEF Rising
  <2>2. i + 1 < j + 1
    BY <1>1, <2>1
  <2>3. QED
    BY <1>2, <2>1, <2>2 DEF Rising
<1>5. Numbers(Tail(s)) \subseteq Numbers(s)
  BY <1>2 DEF Numbers
<1>6. One(Head(s)) \subseteq Numbers(s)
  BY <1>1, <1>3 DEF One, Numbers
<1>7. Before(One(Head(s)), Numbers(Tail(s)))
  BY <1>1, <1>2, <1>3 DEF Before, One, Numbers, Rising
<1>8. QED
  BY <1>4, <1>5, <1>6, <1>7

LEMMA RisingAppend ==
  ASSUME NEW s \in Seq(Nat), Rising(s), NEW x \in Nat, Before(Numbers(s), One(x))
  PROVE  Rising(Append(s, x)) /\ Numbers(Append(s, x)) = Numbers(s) \cup One(x)
<1>. DEFINE t == Append(s, x)
<1>1. /\ Len(s) \in Nat /\ Len(t) = Len(s) + 1 /\ t \in Seq(Nat)
      /\ \A i \in 1..Len(s) : t[i] = s[i]
      /\ t[Len(s) + 1] = x
  BY AppendProperties
<1>2. DOMAIN t = DOMAIN s \cup {Len(s) + 1} /\ DOMAIN s = 1..Len(s)
  BY <1>1
<1>. HIDE DEF t
<1>3. Rising(t)
  <2>1. SUFFICES ASSUME NEW i \in DOMAIN t, NEW j \in DOMAIN t, i < j, t[j] # 0
                 PROVE  t[i] < t[j]
    BY DEF Rising
  <2>2. i \in DOMAIN s /\ t[i] = s[i] /\ s[i] \in Nat
    BY <1>1, <1>2, <2>1
  <2>3. CASE j \in DOMAIN s
    BY <1>1, <1>2, <2>1, <2>2, <2>3 DEF Rising
  <2>4. CASE j = Len(s) + 1
    <3>1. s[i] = 0 \/ s[i] \in Numbers(s)
      BY <2>2 DEF Numbers
    <3>2. t[j] = x /\ x # 0 /\ x \in One(x)
      BY <1>1, <2>1, <2>4 DEF One
    <3>3. QED
      BY <2>2, <3>1, <3>2 DEF Before
  <2>5. QED
    BY <1>2, <2>3, <2>4
<1>4. Numbers(t) = Numbers(s) \cup One(x)
  BY <1>1, <1>2 DEF Numbers, One
<1>5. QED
  BY <1>3, <1>4 DEF t

LEMMA RisingConcat ==
  ASSUME NEW s \in Seq(Nat), NEW t \in Seq(Nat), Rising(s), Rising(t),
         Before(Numbers(s), Numbers(t))
  PROVE  /\ s \o t \in Seq(Nat) /\ Rising(s \o t)
         /\ Numbers(s \o t) = Numbers(s) \cup Numbers(t)
<1>. DEFINE c == s \o t
<1>1. /\ c \in Seq(Nat) /\ Len(c) = Len(s) + Len(t)
      /\ Len(s) \in Nat /\ Len(t) \in Nat
      /\ \A i \in 1..Len(s) : c[i] = s[i]
      /\ \A i \in 1..Len(t) : c[Len(s) + i] = t[i]
  BY ConcatProperties
<1>. HIDE DEF c
<1>2. ASSUME NEW i \in DOMAIN c
      PROVE  \/ i \in DOMAIN s /\ c[i] = s[i]
             \/ i > Len(s) /\ i - Len(s) \in DOMAIN t /\ c[i] = t[i - Len(s)]
  <2>1. i \in 1..Len(c)
    BY <1>1
  <2>2. CASE i <= Len(s)
    BY <1>1, <2>1, <2>2
  <2>3. CASE i > Len(s)
    <3>1. i - Len(s) \in 1..Len(t) /\ Len(s) + (i - Len(s)) = i
      BY <1>1, <2>1, <2>3
    <3>2. QED
      BY <1>1, <2>3, <3>1
  <2>4. QED
    BY <1>1, <2>1, <2>2, <2>3
<1>3. Rising(c)
  <2>1. SUFFICES ASSUME NEW i \in DOMAIN c, NEW j \in DOMAIN c, i < j, c[j] # 0
                 PROVE  c[i] < c[j]
    BY DEF Rising
  <2>2. i \in Int /\ j \in Int /\ Len(s) \in Int /\ DOMAIN s = 1..Len(s) /\ c[j] \in Nat
    BY <1>1
  <2>3. CASE j \in DOMAIN s /\ c[j] = s[j]
    <3>1. i \in DOMAIN s /\ c[i] = s[i]
      BY <1>2, <2>1, <2>2, <2>3
    <3>2. QED
      BY <2>1, <2>3, <3>1 DEF Rising
  <2>4. CASE j > Len(s) /\ j - Len(s) \in DOMAIN t /\ c[j] = t[j - Len(s)]
    <3>1. CASE i \in DOMAIN s /\ c[i] = s[i]
      <4>1. c[j] \in Numbers(t)
        BY <2>1, <2>4 DEF Numbers
      <4>2. c[i] = 0 \/ c[i] \in Numbers(s)
        BY <3>1 DEF Numbers
      <4>3. QED
        BY <2>1, <2>2, <4>1, <4>2 DEF Before
    <3>2. CASE i > Len(s) /\ i - Len(s) \in DOMAIN t /\ c[i] = t[i - Len(s)]
      <4>1. i - Len(s) < j - Len(s)
        BY <2>1, <2>2
      <4>2. QED
        BY <2>1, <2>4, <3>2, <4>1 DEF Rising
    <3>3. QED
      BY <1>2, <3>1, <3>2
  <2>5. QED
    BY <1>2, <2>3, <2>4
<1>4. Numbers(c) = Numbers(s) \cup Numbers(t)
  <2>1. DOMAIN s = 1..Len(s) /\ DOMAIN t = 1..Len(t) /\ DOMAIN c = 1..Len(c)
    BY <1>1
  <2>2. Numbers(c) \subseteq Numbers(s) \cup Numbers(t)
    BY <1>2 DEF Numbers
  <2>3. Numbers(s) \subseteq Numbers(c)
    <3>1. \A i \in DOMAIN s : i \in DOMAIN c /\ c[i] = s[i]
      BY <1>1, <2>1
    <3>2. QED
      BY <3>1 DEF Numbers
  <2>4. Numbers(t) \subseteq Numbers(c)
    <3>1. \A i \in DOMAIN t : Len(s) + i \in DOMAIN c /\ c[Len(s) + i] = t[i]
      BY <1>1, <2>1
    <3>2. QED
      BY <3>1 DEF Numbers
  <2>5. QED
    BY <2>2, <2>3, <2>4
<1>5. QED
  BY <1>1, <1>3, <1>4 DEF c
===============================================================================
