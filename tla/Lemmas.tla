-------------------------------- MODULE Lemmas --------------------------------
(* What the operators of the community modules return that the models use: *)
(* the first and the last of a set of numbers, and sequences put together. *)
EXTENDS Integers, SequencesExt, FiniteSetsExt, WellFoundedInduction, TLAPS

(* Min and Max of FiniteSetsExt are CHOOSE expressions: that they choose   *)
(* something follows from < being well-founded.                            *)
LEMMA LeastOf ==
    ASSUME NEW S, S \subseteq Nat, S # {}
    PROVE  Min(S) \in S /\ \A y \in S : Min(S) <= y
<1>1. \E x \in S : \A y \in S : ~ (<<y, x>> \in OpToRel(<, Nat))
  BY NatLessThanWellFounded, WFMin
<1>2. PICK x \in S : \A y \in S : ~ (<<y, x>> \in OpToRel(<, Nat))
  BY <1>1
<1>3. \A y \in S : ~ (y < x)
  BY <1>2 DEF OpToRel
<1>4. \A y \in S : x <= y
  BY <1>3
<1> QED BY <1>4 DEF Min

LEMMA GreatestOf ==
    ASSUME NEW n \in Nat, NEW S, S \subseteq 0..n, S # {}
    PROVE  Max(S) \in S /\ \A y \in S : y <= Max(S)
<1> DEFINE T == {n - y : y \in S}
<1>1. ASSUME NEW y \in S PROVE n - y \in Nat /\ y \in Nat
  <2>1. y \in 0..n
    OBVIOUS
  <2> QED BY <2>1
<1>2. T \subseteq Nat /\ T # {}
  BY <1>1
<1> HIDE DEF T
<1>3. Min(T) \in T /\ \A t \in T : Min(T) <= t
  BY <1>2, LeastOf
<1>4. PICK x \in S : n - x = Min(T)
  BY <1>3 DEF T
<1>5. ASSUME NEW y \in S PROVE x >= y
  <2>1. n - y \in T
    BY DEF T
  <2>2. n - x <= n - y
    BY <1>3, <1>4, <2>1
  <2> QED BY <1>1, <2>2
<1>6. \A y \in S : y <= x
  BY <1>1, <1>5
<1> QED BY <1>5, <1>6 DEF Max

(* Induction, with the set of the numbers that have the property for what  *)
(* would be a predicate.                                                   *)
LEMMA SetInduction ==
  ASSUME NEW T, 0 \in T, \A n \in Nat : n \in T => n + 1 \in T
  PROVE  Nat \subseteq T
  <1> SUFFICES ASSUME Nat \ T # {} PROVE FALSE
    OBVIOUS
  <1> DEFINE n == Min(Nat \ T)
  <1>1. n \in Nat \ T /\ \A y \in Nat \ T : n <= y
    BY LeastOf
  <1> HIDE DEF n
  <1>2. n - 1 \in Nat
    BY <1>1
  <1>3. n - 1 \in T
    BY <1>1, <1>2
  <1> QED  BY <1>1, <1>2, <1>3

-----------------------------------------------------------------------------
(* Sequences put together.                                                 *)

LEMMA RangeOfConcat ==
    ASSUME NEW S, NEW s \in Seq(S), NEW t \in Seq(S)
    PROVE  s \o t \in Seq(S) /\ Range(s \o t) = Range(s) \cup Range(t)
<1>1. /\ s \o t \in Seq(S) /\ Len(s \o t) = Len(s) + Len(t)
      /\ Len(s) \in Nat /\ Len(t) \in Nat
      /\ DOMAIN s = 1..Len(s) /\ DOMAIN t = 1..Len(t)
      /\ DOMAIN (s \o t) = 1..(Len(s) + Len(t))
  OBVIOUS
<1>2. ASSUME NEW i \in 1..Len(s) PROVE s[i] \in Range(s \o t)
  <2>1. i \in 1..(Len(s) + Len(t)) /\ (s \o t)[i] = s[i]
    BY <1>1
  <2> QED BY <1>1, <2>1 DEF Range
<1>3. ASSUME NEW i \in 1..Len(t) PROVE t[i] \in Range(s \o t)
  <2>1. Len(s) + i \in 1..(Len(s) + Len(t)) /\ (s \o t)[Len(s) + i] = t[i]
    BY <1>1
  <2> QED BY <1>1, <2>1 DEF Range
<1>4. ASSUME NEW i \in 1..(Len(s) + Len(t))
      PROVE  (s \o t)[i] \in Range(s) \cup Range(t)
  <2>1. CASE i <= Len(s)
    BY <1>1, <2>1 DEF Range
  <2>2. CASE i > Len(s)
    <3>1. i - Len(s) \in 1..Len(t) /\ (s \o t)[i] = t[i - Len(s)]
      BY <1>1, <2>2
    <3> QED BY <1>1, <3>1 DEF Range
  <2> QED BY <1>1, <2>1, <2>2
<1> QED BY <1>1, <1>2, <1>3, <1>4 DEF Range

LEMMA InLarger ==
  ASSUME NEW S, NEW T, S \subseteq T, NEW s \in Seq(S)
  PROVE  s \in Seq(T)
  OBVIOUS

LEMMA EmptyIs ==
  ASSUME NEW S, NEW s \in Seq(S)
  PROVE  s = <<>> <=> Range(s) = {}
  <1>1. Len(s) \in Nat /\ DOMAIN s = 1..Len(s)
    OBVIOUS
  <1>2. CASE Len(s) = 0
    <2>1. s = <<>>
      BY <1>2
    <2>2. Range(s) = {}
      BY <1>1, <1>2 DEF Range
    <2> QED  BY <2>1, <2>2
  <1>3. CASE Len(s) # 0
    <2>1. s[1] \in Range(s)
      BY <1>1, <1>3 DEF Range
    <2>2. s # <<>>
      BY <1>3
    <2> QED  BY <2>1, <2>2
  <1> QED  BY <1>2, <1>3

LEMMA RangeOfOne ==
  ASSUME NEW x
  PROVE  Range(<<x>>) = {x} /\ Range(<<>>) = {}
  <1>1. DOMAIN <<x>> = {1} /\ <<x>>[1] = x
    OBVIOUS
  <1>2. DOMAIN <<>> = {}
    OBVIOUS
  <1> QED  BY <1>1, <1>2 DEF Range

LEMMA HeadAndTail ==
  ASSUME NEW S, NEW s \in Seq(S), s # <<>>
  PROVE  /\ Head(s) \in S /\ Tail(s) \in Seq(S) /\ Head(s) \in Range(s)
         /\ \A e : e \in Range(s) <=> e = Head(s) \/ e \in Range(Tail(s))
         /\ Len(s) \in Nat /\ Len(s) > 0 /\ Len(Tail(s)) = Len(s) - 1 /\ Head(s) = s[1]
         /\ \A i \in 1..(Len(s) - 1) : Tail(s)[i] = s[i + 1]
  <1>1. /\ Len(s) \in Nat /\ Len(s) > 0 /\ DOMAIN s = 1..Len(s) /\ Tail(s) \in Seq(S)
        /\ Head(s) = s[1] /\ s[1] \in S
        /\ DOMAIN Tail(s) = 1..(Len(s) - 1) /\ Len(Tail(s)) = Len(s) - 1
    OBVIOUS
  <1>2. \A i \in 1..(Len(s) - 1) : Tail(s)[i] = s[i + 1]
    BY <1>1
  <1>3. ASSUME NEW e, e \in Range(s) PROVE e = Head(s) \/ e \in Range(Tail(s))
    <2>1. PICK i \in 1..Len(s) : e = s[i]
      BY <1>1, <1>3 DEF Range
    <2>2. CASE i # 1
      <3>1. i - 1 \in 1..(Len(s) - 1) /\ (i - 1) + 1 = i
        BY <1>1, <2>2
      <3>2. Tail(s)[i - 1] = s[i]
        BY <1>2, <3>1
      <3> QED  BY <1>1, <2>1, <3>1, <3>2 DEF Range
    <2> QED  BY <1>1, <2>1, <2>2
  <1>4. ASSUME NEW e, e \in Range(Tail(s)) PROVE e \in Range(s)
    <2>1. PICK i \in 1..(Len(s) - 1) : e = Tail(s)[i]
      BY <1>1, <1>4 DEF Range
    <2>2. i + 1 \in 1..Len(s) /\ e = s[i + 1]
      BY <1>1, <1>2, <2>1
    <2> QED  BY <1>1, <2>2 DEF Range
  <1>5. Head(s) \in Range(s)
    BY <1>1 DEF Range
  <1> QED  BY <1>1, <1>2, <1>3, <1>4, <1>5

LEMMA RangeOfAppend ==
  ASSUME NEW S, NEW s \in Seq(S), NEW e \in S
  PROVE  Append(s, e) \in Seq(S) /\ \A x : x \in Range(Append(s, e)) <=> x \in Range(s) \/ x = e
  <1>1. /\ Append(s, e) \in Seq(S) /\ Len(s) \in Nat /\ DOMAIN s = 1..Len(s)
        /\ DOMAIN Append(s, e) = 1..(Len(s) + 1)
        /\ Append(s, e)[Len(s) + 1] = e
        /\ \A i \in 1..Len(s) : Append(s, e)[i] = s[i]
    OBVIOUS
  <1>2. \A i \in 1..(Len(s) + 1) : i \in 1..Len(s) \/ i = Len(s) + 1
    BY <1>1
  <1>3. Len(s) + 1 \in 1..(Len(s) + 1) /\ \A i \in 1..Len(s) : i \in 1..(Len(s) + 1)
    BY <1>1
  <1> QED  BY <1>1, <1>2, <1>3 DEF Range

LEMMA ReverseIs ==
  ASSUME NEW D, NEW s \in Seq(D)
  PROVE  Reverse(s) \in Seq(D) /\ Range(Reverse(s)) = ToSet(s)
  <1>1. Len(s) \in Nat /\ DOMAIN s = 1..Len(s) /\ \A i \in 1..Len(s) : s[i] \in D
    OBVIOUS
  <1>2. \A i \in 1..Len(s) : (Len(s) - i) + 1 \in 1..Len(s) /\ (Len(s) - ((Len(s) - i) + 1)) + 1 = i
    BY <1>1
  <1>3. Reverse(s) \in Seq(D)
    BY <1>1, <1>2 DEF Reverse
  <1>4. DOMAIN Reverse(s) = 1..Len(s) /\ \A i \in 1..Len(s) : Reverse(s)[i] = s[(Len(s) - i) + 1]
    BY DEF Reverse
  <1>5. \A x \in Range(Reverse(s)) : x \in ToSet(s)
    BY <1>1, <1>2, <1>4 DEF Range, ToSet
  <1>6. \A x \in ToSet(s) : x \in Range(Reverse(s))
    <2> SUFFICES ASSUME NEW i \in 1..Len(s) PROVE s[i] \in Range(Reverse(s))
      BY <1>1 DEF ToSet
    <2> DEFINE j == (Len(s) - i) + 1
    <2>1. j \in 1..Len(s) /\ Reverse(s)[j] = s[i]
      BY <1>2, <1>4
    <2> QED  BY <1>4, <2>1 DEF Range
  <1> QED  BY <1>3, <1>5, <1>6

(* FlattenSeq is defined by a recursive function, of which TLA+ does not   *)
(* say that it exists: it does, one number after the other.                *)
IsFlat(g, h, n) == g = [i \in 1..n |-> IF i = 1 THEN h[i] ELSE g[i - 1] \o h[i]]

LEMMA FlatExists ==
  ASSUME NEW h, NEW m \in Nat
  PROVE  \E g : IsFlat(g, h, m)
  <1> DEFINE T == {n \in Nat : \E g : IsFlat(g, h, n)}
  <1>1. 0 \in T
    <2> DEFINE g == [i \in 1..0 |-> h]
    <2>1. IsFlat(g, h, 0)
      BY DEF IsFlat
    <2> QED  BY <2>1
  <1>2. ASSUME NEW n \in Nat, n \in T PROVE n + 1 \in T
    <2>1. PICK g : IsFlat(g, h, n)
      BY <1>2
    <2> DEFINE f == [i \in 1..(n + 1) |-> IF i = n + 1 THEN (IF i = 1 THEN h[i] ELSE g[i - 1] \o h[i]) ELSE g[i]]
    <2>2. \A i \in 1..n : f[i] = g[i]
      OBVIOUS
    <2>3. \A i \in 1..n : g[i] = IF i = 1 THEN h[i] ELSE g[i - 1] \o h[i]
      BY <2>1 DEF IsFlat
    <2>4. \A i \in 1..(n + 1) : f[i] = IF i = 1 THEN h[i] ELSE f[i - 1] \o h[i]
      <3> SUFFICES ASSUME NEW i \in 1..(n + 1) PROVE f[i] = IF i = 1 THEN h[i] ELSE f[i - 1] \o h[i]
        OBVIOUS
      <3>1. i # 1 => i - 1 \in 1..n
        OBVIOUS
      <3>2. CASE i = n + 1
        BY <2>2, <3>1, <3>2
      <3>3. CASE i # n + 1
        <4>1. i \in 1..n
          BY <3>3
        <4> QED  BY <2>2, <2>3, <3>1, <4>1
      <3> QED  BY <3>2, <3>3
    <2>5. f = [i \in 1..(n + 1) |-> f[i]]
      OBVIOUS
    <2> HIDE DEF f
    <2>6. IsFlat(f, h, n + 1)
      BY <2>4, <2>5 DEF IsFlat
    <2> QED  BY <2>6
  <1> HIDE DEF T
  <1>3. Nat \subseteq T
    BY <1>1, <1>2, SetInduction
  <1> QED  BY <1>3 DEF T

LEMMA Flattened ==
  ASSUME NEW S, NEW h \in Seq(Seq(S))
  PROVE  /\ FlattenSeq(h) \in Seq(S)
         /\ Range(FlattenSeq(h)) = UNION {Range(h[i]) : i \in 1..Len(h)}
  <1> DEFINE N == Len(h)
             f == CHOOSE g : IsFlat(g, h, N)
             T == {n \in Nat : n \in 1..N => /\ f[n] \in Seq(S)
                                             /\ Range(f[n]) = UNION {Range(h[i]) : i \in 1..n}}
  <1>1. N \in Nat /\ \A i \in 1..N : h[i] \in Seq(S)
    OBVIOUS
  <1>2. CASE N = 0
    BY <1>2 DEF FlattenSeq, Range
  <1>3. CASE N # 0
    <2>1. IsFlat(f, h, N)
      BY <1>1, FlatExists
    <2>2. FlattenSeq(h) = f[N]
      BY <1>3 DEF FlattenSeq, IsFlat
    <2> HIDE DEF f
    <2>3. \A n \in 1..N : f[n] = IF n = 1 THEN h[n] ELSE f[n - 1] \o h[n]
      BY <2>1 DEF IsFlat
    <2>4. 0 \in T
      OBVIOUS
    <2>5. ASSUME NEW n \in Nat, n \in T PROVE n + 1 \in T
      <3> SUFFICES ASSUME n + 1 \in 1..N
                   PROVE  /\ f[n + 1] \in Seq(S)
                          /\ Range(f[n + 1]) = UNION {Range(h[i]) : i \in 1..(n + 1)}
        OBVIOUS
      <3>1. h[n + 1] \in Seq(S)
        BY <1>1
      <3>2. CASE n = 0
        <4>1. f[n + 1] = h[n + 1]
          BY <2>3, <3>2
        <4>2. 1..(n + 1) = {n + 1}
          BY <3>2
        <4> QED  BY <3>1, <4>1, <4>2
      <3>3. CASE n # 0
        <4>1. f[n + 1] = f[n] \o h[n + 1]
          <5>1. n + 1 \in 1..N /\ n + 1 # 1 /\ (n + 1) - 1 = n
            BY <3>3
          <5>2. f[n + 1] = IF n + 1 = 1 THEN h[n + 1] ELSE f[(n + 1) - 1] \o h[n + 1]
            BY <2>3, <5>1
          <5> QED  BY <5>1, <5>2
        <4>2. n \in 1..N
          BY <1>1, <3>3
        <4>3. f[n] \in Seq(S) /\ Range(f[n]) = UNION {Range(h[i]) : i \in 1..n}
          BY <2>5, <4>2
        <4>4. 1..(n + 1) = 1..n \cup {n + 1}
          OBVIOUS
        <4>5. UNION {Range(h[i]) : i \in 1..(n + 1)}
                = (UNION {Range(h[i]) : i \in 1..n}) \cup Range(h[n + 1])
          BY <4>4
        <4>6. /\ f[n] \o h[n + 1] \in Seq(S)
              /\ Range(f[n] \o h[n + 1]) = Range(f[n]) \cup Range(h[n + 1])
          BY <3>1, <4>3, RangeOfConcat
        <4> QED  BY <4>1, <4>3, <4>5, <4>6
      <3> QED  BY <3>2, <3>3
    <2> HIDE DEF T
    <2>6. N \in T
      BY <1>1, <2>4, <2>5, SetInduction
    <2>7. N \in 1..N
      BY <1>1, <1>3
    <2> QED  BY <2>2, <2>6, <2>7 DEF T
  <1> QED  BY <1>2, <1>3

LEMMA ConcatHead ==
  ASSUME NEW S, NEW s \in Seq(S), NEW t \in Seq(S)
  PROVE  /\ s = <<>> => s \o t = t
         /\ s # <<>> => s \o t # <<>> /\ Head(s \o t) = Head(s)
  <1>1. Len(s) \in Nat /\ Len(t) \in Nat /\ Len(s \o t) = Len(s) + Len(t) /\ s \o t \in Seq(S)
    OBVIOUS
  <1>2. CASE s = <<>>
    BY <1>2
  <1>3. CASE s # <<>>
    <2>1. Len(s) > 0
      BY <1>1, <1>3, EmptyIs
    <2>2. (s \o t)[1] = s[1] /\ s \o t # <<>>
      BY <1>1, <2>1
    <2> QED  BY <1>1, <1>3, <2>2
  <1> QED  BY <1>2, <1>3

(* What comes first in sequences put together.                             *)
LEMMA FlatHead ==
  ASSUME NEW S, NEW h \in Seq(Seq(S)), FlattenSeq(h) # <<>>
  PROVE  \E i \in 1..Len(h) : /\ h[i] # <<>> /\ Head(FlattenSeq(h)) = Head(h[i])
                              /\ \A j \in 1..(i - 1) : h[j] = <<>>
  <1> DEFINE N == Len(h)
             f == CHOOSE g : IsFlat(g, h, N)
             First(n) == f[n] # <<>> /\ \E i \in 1..n :
                           /\ h[i] # <<>> /\ Head(f[n]) = Head(h[i])
                           /\ \A j \in 1..(i - 1) : h[j] = <<>>
             Nowhere(n) == f[n] = <<>> /\ \A j \in 1..n : h[j] = <<>>
             T == {n \in Nat : n \in 1..N => f[n] \in Seq(S) /\ (Nowhere(n) \/ First(n))}
  <1>1. N \in Nat /\ \A i \in 1..N : h[i] \in Seq(S)
    OBVIOUS
  <1>2. N # 0
    BY DEF FlattenSeq
  <1>3. IsFlat(f, h, N)
    BY <1>1, FlatExists
  <1>4. FlattenSeq(h) = f[N]
    BY <1>2 DEF FlattenSeq, IsFlat
  <1> HIDE DEF f
  <1>5. \A n \in 1..N : f[n] = IF n = 1 THEN h[n] ELSE f[n - 1] \o h[n]
    BY <1>3 DEF IsFlat
  <1>6. 0 \in T
    OBVIOUS
  <1>7. ASSUME NEW n \in Nat, n \in T PROVE n + 1 \in T
    <2> SUFFICES ASSUME n + 1 \in 1..N
                 PROVE  f[n + 1] \in Seq(S) /\ (Nowhere(n + 1) \/ First(n + 1))
      OBVIOUS
    <2>0. h[n + 1] \in Seq(S)
      BY <1>1
    <2>1. CASE n = 0
      <3>1. n + 1 = 1
        BY <2>1
      <3>2. f[n + 1] = IF n + 1 = 1 THEN h[n + 1] ELSE f[(n + 1) - 1] \o h[n + 1]
        BY <1>5
      <3>3. f[n + 1] = h[n + 1]
        BY <3>1, <3>2
      <3>4. 1..(n + 1) = {n + 1} /\ 1..((n + 1) - 1) = {}
        BY <2>1
      <3> QED  BY <2>0, <3>3, <3>4
    <2>2. CASE n # 0
      <3>1. n \in 1..N /\ n + 1 # 1 /\ (n + 1) - 1 = n
        BY <1>1, <2>2
      <3>2. f[n + 1] = f[n] \o h[n + 1]
        <4>1. f[n + 1] = IF n + 1 = 1 THEN h[n + 1] ELSE f[(n + 1) - 1] \o h[n + 1]
          BY <1>5
        <4> QED  BY <3>1, <4>1
      <3>3. f[n] \in Seq(S) /\ (Nowhere(n) \/ First(n))
        BY <1>7, <3>1
      <3>4. f[n + 1] \in Seq(S)
        BY <2>0, <3>2, <3>3
      <3>5. CASE Nowhere(n)
        <4>1. f[n + 1] = h[n + 1]
          BY <2>0, <3>2, <3>3, <3>5, ConcatHead
        <4>2. \A j \in 1..((n + 1) - 1) : h[j] = <<>>
          BY <3>1, <3>5
        <4>3. CASE h[n + 1] = <<>>
          <5>1. \A j \in 1..(n + 1) : j \in 1..n \/ j = n + 1
            OBVIOUS
          <5> QED  BY <3>4, <3>5, <4>1, <4>3, <5>1
        <4>4. CASE h[n + 1] # <<>>
          <5>1. n + 1 \in 1..(n + 1)
            OBVIOUS
          <5> QED  BY <3>4, <4>1, <4>2, <4>4, <5>1
        <4> QED  BY <4>3, <4>4
      <3>6. CASE First(n) /\ ~Nowhere(n)
        <4>1. PICK i \in 1..n : /\ h[i] # <<>> /\ Head(f[n]) = Head(h[i])
                                /\ \A j \in 1..(i - 1) : h[j] = <<>>
          BY <3>6
        <4>2. f[n + 1] # <<>> /\ Head(f[n + 1]) = Head(f[n])
          <5>1. f[n] \in Seq(S) /\ f[n] # <<>>
            BY <3>3, <3>6
          <5> HIDE DEF First, Nowhere, T
          <5>2. f[n] \o h[n + 1] # <<>> /\ Head(f[n] \o h[n + 1]) = Head(f[n])
            BY <2>0, <5>1, ConcatHead
          <5> QED  BY <3>2, <5>2
        <4>3. i \in 1..(n + 1)
          OBVIOUS
        <4> QED  BY <3>4, <4>1, <4>2, <4>3
      <3> QED  BY <3>3, <3>5, <3>6
    <2> QED  BY <2>1, <2>2
  <1> HIDE DEF T
  <1>8. N \in T
    BY <1>1, <1>6, <1>7, SetInduction
  <1>9. N \in 1..N
    BY <1>1, <1>2
  <1>10. ~Nowhere(N)
    BY <1>4
  <1>11. First(N)
    BY <1>8, <1>9, <1>10 DEF T
  <1> QED  BY <1>4, <1>11

LEMMA FlatOne == ASSUME NEW S, NEW s \in Seq(S) PROVE FlattenSeq(<<s>>) = s
  <1> DEFINE h == <<s>>
             f == CHOOSE g : IsFlat(g, h, 1)
  <1>1. Len(h) = 1 /\ h[1] = s
    OBVIOUS
  <1> HIDE DEF h
  <1>2. IsFlat(f, h, 1)
    BY FlatExists
  <1>3. FlattenSeq(h) = f[1]
    BY <1>1 DEF FlattenSeq, IsFlat
  <1> HIDE DEF f
  <1>4. f[1] = h[1]
    BY <1>2 DEF IsFlat
  <1> QED  BY <1>1, <1>3, <1>4 DEF h

(* Sequences without repetition that have nothing in common.               *)
LEMMA InjectiveConcat ==
  ASSUME NEW S, NEW s \in Seq(S), NEW t \in Seq(S),
         IsInjective(s), IsInjective(t), Range(s) \cap Range(t) = {}
  PROVE  IsInjective(s \o t)
  <1>1. /\ Len(s) \in Nat /\ Len(t) \in Nat
        /\ DOMAIN s = 1..Len(s) /\ DOMAIN t = 1..Len(t)
        /\ DOMAIN (s \o t) = 1..(Len(s) + Len(t))
    OBVIOUS
  <1>2. ASSUME NEW i \in 1..(Len(s) + Len(t))
        PROVE  \/ i \in 1..Len(s) /\ (s \o t)[i] = s[i] /\ s[i] \in Range(s)
               \/ /\ i \notin 1..Len(s) /\ i - Len(s) \in 1..Len(t)
                  /\ (s \o t)[i] = t[i - Len(s)] /\ t[i - Len(s)] \in Range(t)
    <2>1. CASE i <= Len(s)
      BY <1>1, <2>1 DEF Range
    <2>2. CASE i > Len(s)
      <3>1. i - Len(s) \in 1..Len(t) /\ (s \o t)[i] = t[i - Len(s)]
        BY <1>1, <2>2
      <3> QED  BY <1>1, <2>2, <3>1 DEF Range
    <2> QED  BY <1>1, <2>1, <2>2
  <1> SUFFICES ASSUME NEW i \in 1..(Len(s) + Len(t)), NEW j \in 1..(Len(s) + Len(t)),
                      (s \o t)[i] = (s \o t)[j]
               PROVE  i = j
    BY <1>1 DEF IsInjective
  <1>3. CASE i \in 1..Len(s) /\ j \in 1..Len(s)
    BY <1>1, <1>2, <1>3 DEF IsInjective
  <1>4. CASE i \notin 1..Len(s) /\ j \notin 1..Len(s)
    <2>1. i - Len(s) \in 1..Len(t) /\ j - Len(s) \in 1..Len(t)
          /\ t[i - Len(s)] = t[j - Len(s)]
      BY <1>2, <1>4
    <2>2. i - Len(s) = j - Len(s)
      BY <1>1, <2>1 DEF IsInjective
    <2> QED  BY <1>1, <2>2
  <1> QED  BY <1>2, <1>3, <1>4

LEMMA FlatInjective ==
  ASSUME NEW S, NEW h \in Seq(Seq(S)),
         \A i \in 1..Len(h) : IsInjective(h[i]),
         \A i, j \in 1..Len(h) : i # j => Range(h[i]) \cap Range(h[j]) = {}
  PROVE  IsInjective(FlattenSeq(h))
  <1> DEFINE N == Len(h)
             f == CHOOSE g : IsFlat(g, h, N)
             T == {n \in Nat : n \in 1..N => /\ f[n] \in Seq(S) /\ IsInjective(f[n])
                                             /\ Range(f[n]) = UNION {Range(h[i]) : i \in 1..n}}
  <1>1. N \in Nat /\ \A i \in 1..N : h[i] \in Seq(S)
    OBVIOUS
  <1>2. CASE N = 0
    <2>1. FlattenSeq(h) = <<>>
      BY <1>2 DEF FlattenSeq
    <2>2. DOMAIN <<>> = {}
      OBVIOUS
    <2> QED  BY <2>1, <2>2 DEF IsInjective
  <1>3. CASE N # 0
    <2>1. IsFlat(f, h, N)
      BY <1>1, FlatExists
    <2>2. FlattenSeq(h) = f[N]
      BY <1>3 DEF FlattenSeq, IsFlat
    <2> HIDE DEF f
    <2>3. \A n \in 1..N : f[n] = IF n = 1 THEN h[n] ELSE f[n - 1] \o h[n]
      BY <2>1 DEF IsFlat
    <2>4. 0 \in T
      OBVIOUS
    <2>5. ASSUME NEW n \in Nat, n \in T PROVE n + 1 \in T
      <3> SUFFICES ASSUME n + 1 \in 1..N
                   PROVE  /\ f[n + 1] \in Seq(S) /\ IsInjective(f[n + 1])
                          /\ Range(f[n + 1]) = UNION {Range(h[i]) : i \in 1..(n + 1)}
        OBVIOUS
      <3>1. h[n + 1] \in Seq(S) /\ IsInjective(h[n + 1])
        BY <1>1
      <3>2. CASE n = 0
        <4>1. f[n + 1] = h[n + 1]
          BY <2>3, <3>2
        <4>2. 1..(n + 1) = {n + 1}
          BY <3>2
        <4> QED  BY <3>1, <4>1, <4>2
      <3>3. CASE n # 0
        <4>1. f[n + 1] = f[n] \o h[n + 1]
          <5>1. n + 1 \in 1..N /\ n + 1 # 1 /\ (n + 1) - 1 = n
            BY <3>3
          <5>2. f[n + 1] = IF n + 1 = 1 THEN h[n + 1] ELSE f[(n + 1) - 1] \o h[n + 1]
            BY <2>3, <5>1
          <5> QED  BY <5>1, <5>2
        <4>2. n \in 1..N
          BY <1>1, <3>3
        <4>3. /\ f[n] \in Seq(S) /\ IsInjective(f[n])
              /\ Range(f[n]) = UNION {Range(h[i]) : i \in 1..n}
          BY <2>5, <4>2
        <4>4. 1..(n + 1) = 1..n \cup {n + 1} /\ \A i \in 1..n : i \in 1..N /\ i # n + 1
          BY <1>1
        <4>5. UNION {Range(h[i]) : i \in 1..(n + 1)}
                = (UNION {Range(h[i]) : i \in 1..n}) \cup Range(h[n + 1])
          BY <4>4
        <4>6. Range(f[n]) \cap Range(h[n + 1]) = {}
          <5>1. \A i \in 1..n : Range(h[i]) \cap Range(h[n + 1]) = {}
            BY <4>4
          <5> QED  BY <4>3, <5>1
        <4>7. /\ f[n] \o h[n + 1] \in Seq(S)
              /\ Range(f[n] \o h[n + 1]) = Range(f[n]) \cup Range(h[n + 1])
          BY <3>1, <4>3, RangeOfConcat
        <4> DEFINE u == f[n]
                   v == h[n + 1]
        <4>8. u \in Seq(S) /\ v \in Seq(S) /\ IsInjective(u) /\ IsInjective(v)
              /\ Range(u) \cap Range(v) = {}
          BY <3>1, <4>3, <4>6
        <4> HIDE DEF u, v, T
        <4>9. IsInjective(u \o v)
          BY <4>8, InjectiveConcat
        <4> QED  BY <4>1, <4>3, <4>5, <4>7, <4>9 DEF u, v
      <3> QED  BY <3>2, <3>3
    <2> HIDE DEF T
    <2>6. N \in T
      BY <1>1, <2>4, <2>5, SetInduction
    <2>7. N \in 1..N
      BY <1>1, <1>3
    <2> QED  BY <2>2, <2>6, <2>7 DEF T
  <1> QED  BY <1>2, <1>3

(* One sequence more, and two lists of sequences.                          *)
LEMMA FlatAppend ==
  ASSUME NEW S, NEW h \in Seq(Seq(S)), NEW x \in Seq(S)
  PROVE  FlattenSeq(Append(h, x)) = FlattenSeq(h) \o x
  <1> DEFINE k == Append(h, x)
             N == Len(h)
             f == CHOOSE g : IsFlat(g, h, N)
             e == CHOOSE g : IsFlat(g, k, N + 1)
             T == {n \in Nat : n \in 1..N => e[n] = f[n]}
  <1>1. /\ N \in Nat /\ k \in Seq(Seq(S)) /\ Len(k) = N + 1 /\ k[N + 1] = x
        /\ \A i \in 1..N : k[i] = h[i]
    OBVIOUS
  <1> HIDE DEF k
  <1>2. IsFlat(e, k, N + 1) /\ IsFlat(f, h, N)
    <2>1. N + 1 \in Nat
      BY <1>1
    <2>2. (\E g : IsFlat(g, k, N + 1)) /\ (\E g : IsFlat(g, h, N))
      <3> HIDE DEF N
      <3> QED  BY <1>1, <2>1, FlatExists
    <2> QED  BY <2>2
  <1>3. FlattenSeq(k) = e[N + 1]
    BY <1>1 DEF FlattenSeq, IsFlat
  <1>4. N # 0 => FlattenSeq(h) = f[N]
    BY DEF FlattenSeq, IsFlat
  <1> HIDE DEF e, f
  <1>5. \A n \in 1..(N + 1) : e[n] = IF n = 1 THEN k[n] ELSE e[n - 1] \o k[n]
    BY <1>2 DEF IsFlat
  <1>6. \A n \in 1..N : f[n] = IF n = 1 THEN h[n] ELSE f[n - 1] \o h[n]
    BY <1>2 DEF IsFlat
  <1>7. CASE N = 0
    <2>1. e[N + 1] = x
      BY <1>1, <1>5, <1>7
    <2>2. FlattenSeq(h) = <<>> /\ <<>> \o x = x
      BY <1>7 DEF FlattenSeq
    <2> QED  BY <1>3, <2>1, <2>2 DEF k
  <1>8. CASE N # 0
    <2>1. 0 \in T
      OBVIOUS
    <2>2. ASSUME NEW n \in Nat, n \in T PROVE n + 1 \in T
      <3> SUFFICES ASSUME n + 1 \in 1..N PROVE e[n + 1] = f[n + 1]
        OBVIOUS
      <3>1. /\ n + 1 \in 1..(N + 1) /\ (n + 1) - 1 = n /\ (n + 1 = 1 <=> n = 0)
            /\ (n # 0 => n \in 1..N)
        BY <1>1
      <3>2. e[n + 1] = IF n + 1 = 1 THEN k[n + 1] ELSE e[(n + 1) - 1] \o k[n + 1]
        BY <1>5, <3>1
      <3>3. f[n + 1] = IF n + 1 = 1 THEN h[n + 1] ELSE f[(n + 1) - 1] \o h[n + 1]
        BY <1>6
      <3>4. k[n + 1] = h[n + 1]
        BY <1>1
      <3> QED  BY <2>2, <3>1, <3>2, <3>3, <3>4
    <2> HIDE DEF T
    <2>3. N \in T
      BY <1>1, <2>1, <2>2, SetInduction
    <2>4. N \in 1..N
      BY <1>1, <1>8
    <2>5. e[N] = f[N]
      BY <2>3, <2>4 DEF T
    <2>6. e[N + 1] = e[N] \o x
      <3>1. N + 1 \in 1..(N + 1) /\ N + 1 # 1 /\ (N + 1) - 1 = N
        BY <1>1, <1>8
      <3>2. e[N + 1] = IF N + 1 = 1 THEN k[N + 1] ELSE e[(N + 1) - 1] \o k[N + 1]
        BY <1>5, <3>1
      <3> QED  BY <1>1, <3>1, <3>2
    <2> QED  BY <1>3, <1>4, <1>8, <2>5, <2>6 DEF k
  <1> QED  BY <1>7, <1>8

(* A sequence is the one without its last element, and that.               *)
LEMMA ConcatIs ==
  ASSUME NEW S, NEW s \in Seq(S), NEW t \in Seq(S), NEW u \in Seq(S)
  PROVE  /\ (s \o t) \o u = s \o (t \o u)
         /\ s \o <<>> = s /\ <<>> \o s = s
  OBVIOUS

LEMMA FrontAndLast ==
  ASSUME NEW S, NEW s \in Seq(S), NEW n \in Nat, Len(s) = n + 1
  PROVE  \E r \in Seq(S), x \in S : s = Append(r, x) /\ Len(r) = n
  <1> DEFINE r == [i \in 1..n |-> s[i]]
  <1>1. r \in Seq(S) /\ Len(r) = n
    OBVIOUS
  <1>2. s[n + 1] \in S
    OBVIOUS
  <1>3. s = Append(r, s[n + 1])
    OBVIOUS
  <1> QED  BY <1>1, <1>2, <1>3

LEMMA ConcatAppend ==
  ASSUME NEW S, NEW s \in Seq(S), NEW t \in Seq(S), NEW x \in S
  PROVE  s \o Append(t, x) = Append(s \o t, x) /\ s \o t \in Seq(S)
  OBVIOUS

LEMMA FlatConcat ==
  ASSUME NEW S, NEW h \in Seq(Seq(S)), NEW k \in Seq(Seq(S))
  PROVE  FlattenSeq(h \o k) = FlattenSeq(h) \o FlattenSeq(k)
  <1> DEFINE Q == Seq(S)
             T == {n \in Nat : \A g \in Seq(Q) : Len(g) = n =>
                               FlattenSeq(h \o g) = FlattenSeq(h) \o FlattenSeq(g)}
  <1>0. FlattenSeq(h) \in Q
    BY Flattened
  <1>1. 0 \in T
    <2> SUFFICES ASSUME NEW g \in Seq(Q), Len(g) = 0
                 PROVE  FlattenSeq(h \o g) = FlattenSeq(h) \o FlattenSeq(g)
      OBVIOUS
    <2>1. g = <<>> /\ h \o g = h
      OBVIOUS
    <2>2. FlattenSeq(g) = <<>>
      BY <2>1 DEF FlattenSeq
    <2>3. FlattenSeq(h) \o <<>> = FlattenSeq(h)
      BY <1>0
    <2> QED  BY <2>1, <2>2, <2>3
  <1>2. ASSUME NEW n \in Nat, n \in T PROVE n + 1 \in T
    <2> SUFFICES ASSUME NEW g \in Seq(Q), Len(g) = n + 1
                 PROVE  FlattenSeq(h \o g) = FlattenSeq(h) \o FlattenSeq(g)
      OBVIOUS
    <2>1. PICK r \in Seq(Q), x \in Q : g = Append(r, x) /\ Len(r) = n
      <3> HIDE DEF Q, T
      <3> QED  BY FrontAndLast
    <2>2. FlattenSeq(h \o r) = FlattenSeq(h) \o FlattenSeq(r)
      BY <1>2, <2>1
    <2>3. h \o g = Append(h \o r, x) /\ h \o r \in Seq(Q)
      <3> HIDE DEF Q, T
      <3>1. h \in Seq(Q)
        BY DEF Q
      <3> QED  BY <2>1, <3>1, ConcatAppend
    <2>4. FlattenSeq(h \o g) = FlattenSeq(h \o r) \o x
      BY <2>3, FlatAppend
    <2>5. FlattenSeq(g) = FlattenSeq(r) \o x
      BY <2>1, FlatAppend
    <2>6. FlattenSeq(r) \in Q
      BY Flattened
    <2>7. (FlattenSeq(h) \o FlattenSeq(r)) \o x = FlattenSeq(h) \o (FlattenSeq(r) \o x)
      <3> DEFINE a == FlattenSeq(h)
                 b == FlattenSeq(r)
      <3>1. a \in Seq(S) /\ b \in Seq(S) /\ x \in Seq(S)
        BY <1>0, <2>6
      <3> HIDE DEF a, b, T, Q
      <3>2. (a \o b) \o x = a \o (b \o x)
        BY <3>1, ConcatIs, SMTT(30)
      <3> QED  BY <3>2 DEF a, b
    <2> QED  BY <2>2, <2>4, <2>5, <2>7
  <1> HIDE DEF T
  <1>3. Len(k) \in Nat
    OBVIOUS
  <1>4. Len(k) \in T
    BY <1>1, <1>2, <1>3, SetInduction
  <1> QED  BY <1>4 DEF T
=============================================================================
