------------------------- MODULE SettingsCodecProofs -------------------------
(* What the settings codec does to every sequence of bytes and of fields:  *)
(* it reads back what it wrote, and a sync or a clear changes the numbers  *)
(* and the toggles and nothing else.                                       *)
EXTENDS SettingsCodec, Lemmas, FiniteSetTheorems

-----------------------------------------------------------------------------
(* Lists, element by element.  Maps and IsList are names for the provers.  *)
Maps(F, D, E) == F \in [D -> E]
IsList(s, D)  == s \in Seq(D)
Image(F, s)   == [i \in DOMAIN s |-> F[s[i]]]

IsImage(r, F, s, D, E) ==
    /\ IsList(r, E) /\ Len(r) = Len(s) /\ Len(s) \in Nat
    /\ \A i \in 1..Len(s) : s[i] \in D /\ r[i] = F[s[i]]

LEMMA ImageIs ==
  ASSUME NEW D, NEW E, NEW F, NEW s, Maps(F, D, E), IsList(s, D)
  PROVE  IsImage(Image(F, s), F, s, D, E)
  <1>1. s \in Seq(D) /\ F \in [D -> E]
    BY DEF Maps, IsList
  <1>2. Len(s) \in Nat /\ DOMAIN s = 1..Len(s) /\ \A i \in 1..Len(s) : s[i] \in D
    BY <1>1
  <1>3. Image(F, s) = [i \in 1..Len(s) |-> F[s[i]]]
    BY <1>2 DEF Image
  <1>4. \A i \in 1..Len(s) : F[s[i]] \in E
    BY <1>1, <1>2
  <1> DEFINE r == Image(F, s)
  <1>5. IsList(r, E) /\ Len(r) = Len(s) /\ \A i \in 1..Len(s) : r[i] = F[s[i]]
    BY <1>2, <1>3, <1>4 DEF IsList
  <1> HIDE DEF r
  <1>6. IsImage(r, F, s, D, E)
    BY <1>2, <1>5 DEF IsImage
  <1> QED  BY <1>6 DEF r

LEMMA ConcatAt ==
  ASSUME NEW S, NEW s, NEW t, IsList(s, S), IsList(t, S)
  PROVE  /\ IsList(s \o t, S) /\ Len(s \o t) = Len(s) + Len(t)
         /\ \A i \in 1..Len(s) : (s \o t)[i] = s[i]
         /\ \A i \in 1..(Len(s) + Len(t)) :
               i \in 1..Len(s) \/ (i - Len(s) \in 1..Len(t) /\ (s \o t)[i] = t[i - Len(s)])
  BY DEF IsList

LEMMA SameSeq ==
  ASSUME NEW S, NEW s, NEW t, IsList(s, S), IsList(t, S), Len(s) = Len(t),
         \A i \in 1..Len(s) : s[i] = t[i]
  PROVE  s = t
  BY DEF IsList

LEMMA ImageConcat ==
  ASSUME NEW D, NEW E, NEW F, NEW s, NEW t, Maps(F, D, E), IsList(s, D), IsList(t, D)
  PROVE  Image(F, s \o t) = Image(F, s) \o Image(F, t)
  <1> DEFINE u == Image(F, s)
             v == Image(F, t)
             w == Image(F, s \o t)
  <1>1. /\ IsList(u, E) /\ Len(u) = Len(s) /\ Len(s) \in Nat
        /\ \A i \in 1..Len(s) : u[i] = F[s[i]]
    <2>1. IsImage(u, F, s, D, E)
      BY ImageIs
    <2> HIDE DEF u, v, w
    <2> QED  BY <2>1 DEF IsImage
  <1>2. /\ IsList(v, E) /\ Len(v) = Len(t) /\ Len(t) \in Nat
        /\ \A i \in 1..Len(t) : v[i] = F[t[i]]
    <2>1. IsImage(v, F, t, D, E)
      BY ImageIs
    <2> HIDE DEF u, v, w
    <2> QED  BY <2>1 DEF IsImage
  <1>3. IsList(s \o t, D) /\ Len(s \o t) = Len(s) + Len(t)
    BY ConcatAt
  <1>4. /\ IsList(w, E) /\ Len(w) = Len(s \o t)
        /\ \A i \in 1..Len(s \o t) : w[i] = F[(s \o t)[i]]
    <2>1. IsImage(w, F, s \o t, D, E)
      BY <1>3, ImageIs
    <2> HIDE DEF u, v, w
    <2> QED  BY <2>1 DEF IsImage
  <1> HIDE DEF u, v, w
  <1>5. IsList(u \o v, E) /\ Len(u \o v) = Len(s) + Len(t)
    BY <1>1, <1>2, ConcatAt
  <1>6. ASSUME NEW i \in 1..(Len(s) + Len(t)) PROVE w[i] = (u \o v)[i]
    <2>1. CASE i \in 1..Len(s)
      <3>1. (s \o t)[i] = s[i]
        BY <2>1, ConcatAt
      <3>2. (u \o v)[i] = u[i]
        BY <1>1, <1>2, <2>1, ConcatAt
      <3> QED  BY <1>1, <1>3, <1>4, <2>1, <3>1, <3>2
    <2>2. CASE i \notin 1..Len(s)
      <3>1. i - Len(s) \in 1..Len(t) /\ (s \o t)[i] = t[i - Len(s)]
        BY <2>2, ConcatAt
      <3>2. (u \o v)[i] = v[i - Len(s)]
        BY <1>1, <1>2, <2>2, ConcatAt
      <3> QED  BY <1>2, <1>3, <1>4, <3>1, <3>2
    <2> QED  BY <2>1, <2>2
  <1>7. w = u \o v
    BY <1>3, <1>4, <1>5, <1>6, SameSeq
  <1> QED  BY <1>7 DEF u, v, w

LEMMA ImageOne ==
  ASSUME NEW F, NEW x
  PROVE  Image(F, <<x>>) = <<F[x]>> /\ Image(F, <<>>) = <<>>
  <1>1. DOMAIN <<x>> = 1..1 /\ <<x>>[1] = x
    OBVIOUS
  <1>2. DOMAIN <<>> = 1..0
    OBVIOUS
  <1>3. Image(F, <<x>>) = [i \in 1..1 |-> F[x]]
    BY <1>1 DEF Image
  <1>4. Image(F, <<>>) = <<>>
    BY <1>2 DEF Image
  <1> QED  BY <1>3, <1>4

(* The fields of a list that are in K, in their order.                     *)
KeepIf(K) == [x \in Field |-> IF x \in K THEN <<x>> ELSE <<>>]
Kept(s, K) == FlattenSeq(Image(KeepIf(K), s))

LEMMA KeepIfIs == ASSUME NEW K PROVE KeepIf(K) \in [Field -> Seq(Field)]
  <1> DEFINE D == Field
  <1>1. \A x \in D : (IF x \in K THEN <<x>> ELSE <<>>) \in Seq(D)
    <2> HIDE DEF D
    <2> QED  OBVIOUS
  <1> QED  BY <1>1 DEF KeepIf

LEMMA KeptConcat ==
  ASSUME NEW K, NEW s \in Seq(Field), NEW t \in Seq(Field)
  PROVE  /\ Kept(s, K) \in Seq(Field) /\ Kept(t, K) \in Seq(Field)
         /\ Kept(s \o t, K) = Kept(s, K) \o Kept(t, K)
  <1> DEFINE D == Field
             u == Image(KeepIf(K), s)
             v == Image(KeepIf(K), t)
  <1>1. IsList(s, D) /\ IsList(t, D) /\ Maps(KeepIf(K), D, Seq(D))
    BY KeepIfIs DEF IsList, Maps
  <1> HIDE DEF D
  <1>2. IsList(u, Seq(D)) /\ IsList(v, Seq(D))
    BY <1>1, ImageIs DEF IsImage
  <1>3. Image(KeepIf(K), s \o t) = u \o v
    BY <1>1, ImageConcat
  <1> HIDE DEF u, v
  <1>4. u \in Seq(Seq(D)) /\ v \in Seq(Seq(D))
    BY <1>2 DEF IsList
  <1>5. FlattenSeq(u \o v) = FlattenSeq(u) \o FlattenSeq(v)
    BY <1>4, FlatConcat
  <1>6. FlattenSeq(u) \in Seq(D) /\ FlattenSeq(v) \in Seq(D)
    BY <1>4, Flattened
  <1> QED  BY <1>3, <1>5, <1>6 DEF Kept, D, u, v

LEMMA KeptOne ==
  ASSUME NEW K, NEW x \in Field
  PROVE  /\ Kept(<<x>>, K) = IF x \in K THEN <<x>> ELSE <<>>
         /\ Kept(<<>>, K) = <<>>
  <1> DEFINE D == Field
  <1>1. x \in D /\ KeepIf(K) \in [D -> Seq(D)] /\ KeepIf(K)[x] = IF x \in K THEN <<x>> ELSE <<>>
    BY KeepIfIs DEF KeepIf
  <1> HIDE DEF D
  <1>2. Image(KeepIf(K), <<x>>) = <<KeepIf(K)[x]>> /\ Image(KeepIf(K), <<>>) = <<>>
    BY ImageOne
  <1>3. KeepIf(K)[x] \in Seq(D)
    BY <1>1
  <1>4. FlattenSeq(<<KeepIf(K)[x]>>) = KeepIf(K)[x]
    BY <1>3, FlatOne
  <1>5. FlattenSeq(<<>>) = <<>>
    BY DEF FlattenSeq
  <1> QED  BY <1>1, <1>2, <1>4, <1>5 DEF Kept

(* All of a list is kept, or nothing.                                      *)
LEMMA KeptAllOrNone ==
  ASSUME NEW K, NEW s \in Seq(Field)
  PROVE  /\ (\A i \in 1..Len(s) : s[i] \in K) => Kept(s, K) = s
         /\ (\A i \in 1..Len(s) : s[i] \notin K) => Kept(s, K) = <<>>
  <1> DEFINE D == Field
             P(r) == /\ (\A i \in 1..Len(r) : r[i] \in K) => Kept(r, K) = r
                     /\ (\A i \in 1..Len(r) : r[i] \notin K) => Kept(r, K) = <<>>
             T == {n \in Nat : \A r \in Seq(D) : Len(r) = n => P(r)}
  <1>1. 0 \in T
    <2>1. \A r \in Seq(D) : Len(r) = 0 => r = <<>>
      <3> HIDE DEF D
      <3> QED  OBVIOUS
    <2>2. Kept(<<>>, K) = <<>>
      <3>1. Image(KeepIf(K), <<>>) = <<>>
        BY ImageOne
      <3> QED  BY <3>1 DEF Kept, FlattenSeq
    <2> QED  BY <2>1, <2>2
  <1>2. ASSUME NEW n \in Nat, n \in T PROVE n + 1 \in T
    <2> SUFFICES ASSUME NEW r \in Seq(D), Len(r) = n + 1 PROVE P(r)
      OBVIOUS
    <2>1. PICK q \in Seq(D), x \in D : r = Append(q, x) /\ Len(q) = n
      <3> HIDE DEF D, T, P
      <3> QED  BY FrontAndLast, ZenonT(30)
    <2>2. /\ r = q \o <<x>> /\ r[n + 1] = x /\ \A i \in 1..n : r[i] = q[i]
      <3> HIDE DEF D, T, P
      <3> QED  BY <2>1
    <2>3. Kept(r, K) = Kept(q, K) \o (IF x \in K THEN <<x>> ELSE <<>>)
      <3>1. <<x>> \in Seq(Field)
        <4> HIDE DEF D
        <4> <<x>> \in Seq(D)
          OBVIOUS
        <4> QED  BY DEF D
      <3>2. Kept(q \o <<x>>, K) = Kept(q, K) \o Kept(<<x>>, K)
        BY <3>1, KeptConcat
      <3>3. Kept(<<x>>, K) = IF x \in K THEN <<x>> ELSE <<>>
        BY KeptOne
      <3> QED  BY <2>2, <3>2, <3>3
    <2>4. P(q)
      BY <1>2, <2>1
    <2>5. ASSUME \A i \in 1..Len(r) : r[i] \in K PROVE Kept(r, K) = r
      <3>1. x \in K /\ \A i \in 1..n : q[i] \in K
        BY <2>2, <2>5
      <3> QED  BY <2>1, <2>2, <2>3, <2>4, <3>1
    <2>6. ASSUME \A i \in 1..Len(r) : r[i] \notin K PROVE Kept(r, K) = <<>>
      <3>1. x \notin K /\ \A i \in 1..n : q[i] \notin K
        BY <2>2, <2>6
      <3>2. <<>> \o <<>> = <<>>
        OBVIOUS
      <3> QED  BY <2>1, <2>3, <2>4, <3>1, <3>2
    <2> QED  BY <2>5, <2>6
  <1> HIDE DEF T, P
  <1>3. Len(s) \in Nat
    OBVIOUS
  <1>4. Len(s) \in T
    BY <1>1, <1>2, <1>3, SetInduction
  <1> QED  BY <1>4 DEF T, P, D

(* Nothing is kept that was not there, and nothing that is not in K.       *)
LEMMA KeptAreKept ==
  ASSUME NEW K, NEW s \in Seq(Field)
  PROVE  Range(Kept(s, K)) = Range(s) \cap K
  <1> DEFINE D == Field
             u == Image(KeepIf(K), s)
  <1>1. IsList(s, D) /\ Maps(KeepIf(K), D, Seq(D))
    BY KeepIfIs DEF IsList, Maps
  <1>2. \A x \in D : KeepIf(K)[x] = IF x \in K THEN <<x>> ELSE <<>>
    BY DEF KeepIf
  <1> HIDE DEF D
  <1>a. /\ IsList(u, Seq(D)) /\ Len(u) = Len(s)
        /\ \A i \in 1..Len(s) : s[i] \in D /\ u[i] = KeepIf(K)[s[i]]
    <2>1. IsImage(u, KeepIf(K), s, D, Seq(D))
      BY <1>1, ImageIs
    <2> HIDE DEF u
    <2> QED  BY <2>1 DEF IsImage
  <1> HIDE DEF u
  <1>3. /\ u \in Seq(Seq(D)) /\ Len(u) = Len(s) /\ DOMAIN s = 1..Len(s)
        /\ \A i \in 1..Len(s) : s[i] \in D /\ u[i] = KeepIf(K)[s[i]]
    BY <1>a, <1>1 DEF IsList
  <1>4. Range(FlattenSeq(u)) = UNION {Range(u[i]) : i \in 1..Len(u)}
    BY <1>3, Flattened
  <1>5. ASSUME NEW i \in 1..Len(s) PROVE Range(u[i]) = {s[i]} \cap K
    <2>1. u[i] = IF s[i] \in K THEN <<s[i]>> ELSE <<>>
      BY <1>2, <1>3
    <2> QED  BY <2>1, RangeOfOne
  <1>6. Range(s) = {s[i] : i \in 1..Len(s)}
    BY <1>3 DEF Range
  <1> QED  BY <1>3, <1>4, <1>5, <1>6 DEF Kept, u
-----------------------------------------------------------------------------
(* Varints.  The recursive functions exist, and so the equations hold that *)
(* define them.                                                            *)
IsWrite(g, v) ==
    g = [u \in 0..v |-> IF u < 128 THEN <<u>> ELSE <<128 + (u % 128)>> \o g[u \div 128]]

LEMMA SevenBitsLess ==
  ASSUME NEW u \in Nat
  PROVE  /\ u % 128 \in 0..127 /\ u \div 128 \in Nat /\ u = 128 * (u \div 128) + (u % 128)
         /\ u >= 128 => u \div 128 < u
  OBVIOUS

LEMMA WriteExists == ASSUME NEW v \in Nat PROVE \E g : IsWrite(g, v)
  <1> DEFINE T == {n \in Nat : \E g : IsWrite(g, n)}
  <1>1. 0 \in T
    <2> DEFINE g == [u \in 0..0 |-> <<u>>]
    <2>1. g = [u \in 0..0 |-> IF u < 128 THEN <<u>> ELSE <<128 + (u % 128)>> \o g[u \div 128]]
      OBVIOUS
    <2> HIDE DEF g
    <2>2. IsWrite(g, 0)
      BY <2>1 DEF IsWrite
    <2> QED  BY <2>2
  <1>2. ASSUME NEW n \in Nat, n \in T PROVE n + 1 \in T
    <2>1. PICK g : IsWrite(g, n)
      BY <1>2
    <2> DEFINE W(h, u) == IF u < 128 THEN <<u>> ELSE <<128 + (u % 128)>> \o h[u \div 128]
               f == [u \in 0..(n + 1) |-> IF u = n + 1 THEN W(g, u) ELSE g[u]]
    <2>2. \A u \in 0..n : f[u] = g[u] /\ g[u] = W(g, u)
      <3>1. \A u \in 0..n : g[u] = W(g, u)
        BY <2>1 DEF IsWrite
      <3>2. \A u \in 0..n : u \in 0..(n + 1) /\ u # n + 1
        OBVIOUS
      <3>3. \A u \in 0..n : f[u] = g[u]
        BY <3>2
      <3> HIDE DEF f, W
      <3> QED  BY <3>1, <3>3
    <2>3. f = [u \in 0..(n + 1) |-> f[u]] /\ f[n + 1] = W(g, n + 1)
      OBVIOUS
    <2> HIDE DEF f
    <2>4. ASSUME NEW u \in 0..(n + 1) PROVE f[u] = W(f, u)
      <3>1. u >= 128 => u \div 128 \in 0..n
        BY SevenBitsLess
      <3>2. W(f, u) = W(g, u)
        <4>1. CASE u < 128
          BY <4>1
        <4>2. CASE u >= 128
          <5>1. f[u \div 128] = g[u \div 128]
            BY <2>2, <3>1, <4>2
          <5> QED  BY <5>1
        <4> QED  BY <4>1, <4>2
      <3>3. CASE u = n + 1
        <4> HIDE DEF W
        <4> QED  BY <2>3, <3>2, <3>3
      <3>4. CASE u # n + 1
        <4>1. u \in 0..n
          BY <3>4
        <4> HIDE DEF W
        <4> QED  BY <2>2, <3>2, <4>1
      <3> QED  BY <3>3, <3>4
    <2>5. IsWrite(f, n + 1)
      BY <2>3, <2>4, ZenonT(30) DEF IsWrite
    <2> QED  BY <2>5
  <1> HIDE DEF T
  <1>3. v \in T
    BY <1>1, <1>2, SetInduction
  <1> QED  BY <1>3 DEF T

LEMMA WriteUnique ==
  ASSUME NEW a \in Nat, NEW b \in Nat, NEW g, NEW h, IsWrite(g, a), IsWrite(h, b),
         NEW v \in Nat, v <= a, v <= b
  PROVE  g[v] = h[v]
  <1> DEFINE T == {n \in Nat : \A u \in 0..n : u <= a /\ u <= b => g[u] = h[u]}
             W(f, u) == IF u < 128 THEN <<u>> ELSE <<128 + (u % 128)>> \o f[u \div 128]
  <1>1. \A u \in 0..a : g[u] = W(g, u)
    BY ZenonT(30) DEF IsWrite
  <1>2. \A u \in 0..b : h[u] = W(h, u)
    BY DEF IsWrite
  <1>3. 0 \in T
    <2>1. 0 \in 0..a /\ 0 \in 0..b /\ W(g, 0) = <<0>> /\ W(h, 0) = <<0>>
      OBVIOUS
    <2>2. g[0] = h[0]
      <3> HIDE DEF W
      <3> QED  BY <1>1, <1>2, <2>1
    <2>3. \A u \in 0..0 : u = 0
      OBVIOUS
    <2> QED  BY <2>2, <2>3
  <1>4. ASSUME NEW n \in Nat, n \in T PROVE n + 1 \in T
    <2> SUFFICES ASSUME NEW u \in 0..(n + 1), u <= a, u <= b PROVE g[u] = h[u]
      OBVIOUS
    <2>1. u \in 0..a /\ u \in 0..b
      OBVIOUS
    <2>2. CASE u < 128
      <3>1. W(g, u) = W(h, u)
        BY <2>2
      <3> HIDE DEF W
      <3> QED  BY <1>1, <1>2, <2>1, <3>1
    <2>3. CASE u >= 128
      <3>1. u \div 128 \in 0..n /\ u \div 128 <= a /\ u \div 128 <= b
        BY <2>3, SevenBitsLess
      <3>2. g[u \div 128] = h[u \div 128]
        BY <1>4, <3>1
      <3>3. W(g, u) = W(h, u)
        BY <3>2
      <3> HIDE DEF W
      <3> QED  BY <1>1, <1>2, <2>1, <3>3
    <2> QED  BY <2>2, <2>3
  <1> HIDE DEF T
  <1>5. v \in T
    BY <1>3, <1>4, SetInduction
  <1> QED  BY <1>5 DEF T

LEMMA WriteVarintIs ==
  ASSUME NEW v \in Nat
  PROVE  /\ v < 128 => WriteVarint(v) = <<v>>
         /\ v >= 128 => WriteVarint(v) = <<128 + (v % 128)>> \o WriteVarint(v \div 128)
  <1> DEFINE w == v \div 128
             f == CHOOSE g : IsWrite(g, v)
             e == CHOOSE g : IsWrite(g, w)
  <1>1. w \in Nat /\ (v >= 128 => w < v)
    BY SevenBitsLess
  <1>2. WriteVarint(v) = f[v] /\ WriteVarint(w) = e[w]
    BY DEF WriteVarint, IsWrite
  <1>3. IsWrite(f, v) /\ IsWrite(e, w)
    <2> HIDE DEF w
    <2> QED  BY <1>1, WriteExists
  <1> HIDE DEF e, f
  <1>4. f[v] = IF v < 128 THEN <<v>> ELSE <<128 + (v % 128)>> \o f[w]
    <2>1. v \in 0..v
      OBVIOUS
    <2>2. IsWrite(f, v)
      BY <1>3
    <2> QED  BY <2>1, <2>2 DEF IsWrite
  <1> HIDE DEF w
  <1>5. v >= 128 => f[w] = e[w]
    BY <1>1, <1>3, WriteUnique
  <1> QED  BY <1>1, <1>2, <1>4, <1>5, SMTT(30) DEF w

LEMMA WriteIsBytes ==
  ASSUME NEW v \in Nat
  PROVE  WriteVarint(v) \in Seq(Byte) /\ Len(WriteVarint(v)) >= 1
  <1> DEFINE B == Byte
             P(u) == WriteVarint(u) \in Seq(B) /\ Len(WriteVarint(u)) >= 1
             T == {n \in Nat : \A u \in 0..n : P(u)}
  <1>0. \A b \in 0..255 : <<b>> \in Seq(B) /\ Len(<<b>>) = 1
    <2>1. \A b \in 0..255 : b \in B
      BY DEF Byte
    <2> HIDE DEF B
    <2> QED  BY <2>1
  <1>1. 0 \in T
    <2>1. 0 \in Nat /\ 0 < 128 /\ 0 \in 0..255
      OBVIOUS
    <2>2. WriteVarint(0) = <<0>>
      BY <2>1, WriteVarintIs, Zenon
    <2>3. <<0>> \in Seq(B) /\ Len(<<0>>) = 1
      BY <1>0, <2>1
    <2>4. P(0)
      <3> DEFINE w == <<0>>
      <3>1. w \in Seq(B) /\ Len(w) >= 1 /\ WriteVarint(0) = w
        BY <2>2, <2>3
      <3> HIDE DEF w, B
      <3> QED  BY <3>1
    <2> QED  BY <2>4
  <1>2. ASSUME NEW n \in Nat, n \in T PROVE n + 1 \in T
    <2> SUFFICES ASSUME NEW u \in 0..(n + 1) PROVE P(u)
      OBVIOUS
    <2>1. CASE u < 128
      <3>1. u \in Nat /\ u \in 0..255
        BY <2>1
      <3>2. WriteVarint(u) = <<u>>
        BY <2>1, <3>1, WriteVarintIs, Zenon
      <3> QED  BY <1>0, <3>1, <3>2
    <2>2. CASE u >= 128
      <3> DEFINE w == WriteVarint(u \div 128)
                 c == 128 + (u % 128)
      <3>1. WriteVarint(u) = <<c>> \o w
        <4>1. u \in Nat
          OBVIOUS
        <4> QED  BY <2>2, <4>1, WriteVarintIs, Zenon
      <3>2. u \div 128 \in 0..n /\ c \in 0..255
        BY <2>2, SevenBitsLess
      <3>3. w \in Seq(B) /\ Len(w) >= 1 /\ <<c>> \in Seq(B) /\ Len(<<c>>) = 1
        BY <1>0, <1>2, <3>2
      <3> HIDE DEF w, c, B
      <3>4. <<c>> \o w \in Seq(B) /\ Len(<<c>> \o w) >= 1
        BY <3>3
      <3> QED  BY <3>1, <3>4
    <2> QED  BY <2>1, <2>2
  <1> HIDE DEF T, P
  <1>3. v \in T
    BY <1>1, <1>2, SetInduction
  <1> QED  BY <1>3 DEF T, P

(* Where a varint ends.                                                    *)
LEMMA VarintEndIs ==
  ASSUME NEW d \in Seq(Byte), NEW i \in Nat \ {0}
  PROVE  LET e == VarintEnd(d, i)
         IN \/ e = 0 /\ \A j \in i..Len(d) : d[j] >= 128
            \/ e \in i..Len(d) /\ d[e] < 128 /\ \A j \in i..(e - 1) : d[j] >= 128
  <1> DEFINE I == {j \in i..Len(d) : d[j] < 128}
  <1>1. VarintEnd(d, i) = IF I # {} THEN Min(I) ELSE 0
    BY DEF VarintEnd, SelectInSubSeq
  <1>2. Len(d) \in Nat /\ \A j \in i..Len(d) : d[j] \in Nat /\ j \in Nat
    <2> DEFINE B == Byte
    <2>1. d \in Seq(B) /\ \A b \in B : b \in Nat
      BY DEF Byte
    <2> HIDE DEF B, I
    <2>2. Len(d) \in Nat /\ \A j \in 1..Len(d) : d[j] \in B
      BY <2>1
    <2> QED  BY <2>1, <2>2
  <1>3. I \subseteq Nat
    BY <1>2
  <1>4. CASE I = {}
    <2>1. \A j \in i..Len(d) : d[j] >= 128
      BY <1>2, <1>4
    <2> QED  BY <1>1, <1>4, <2>1
  <1>5. CASE I # {}
    <2> DEFINE e == Min(I)
    <2>1. e \in I /\ \A j \in I : e <= j
      <3> HIDE DEF I
      <3> QED  BY <1>3, <1>5, LeastOf
    <2> HIDE DEF e
    <2>2. e \in i..Len(d) /\ d[e] < 128
      BY <2>1
    <2>3. ASSUME NEW j \in i..(e - 1) PROVE d[j] >= 128
      <3>1. j \in i..Len(d) /\ ~(e <= j)
        BY <1>2, <2>2
      <3> QED  BY <1>2, <2>1, <3>1
    <2> QED  BY <1>1, <1>5, <2>2, <2>3 DEF e
  <1> QED  BY <1>4, <1>5

(* What a varint says: existence from the last byte to the first.          *)
IsRead(g, d, e) ==
    g = [j \in 1..e |-> (d[j] % 128) + (IF j = e THEN 0 ELSE 128 * g[j + 1])]

LEMMA ReadExists == ASSUME NEW d, NEW e \in Nat PROVE \E g : IsRead(g, d, e)
  <1> DEFINE R(h, j) == (d[j] % 128) + (IF j = e THEN 0 ELSE 128 * h[j + 1])
             From(n) == {j \in 1..e : j > e - n}
             T == {n \in Nat : \E g : g = [j \in From(n) |-> R(g, j)]}
  <1>1. 0 \in T
    <2> DEFINE g == [j \in {} |-> 0]
    <2>1. From(0) = {}
      OBVIOUS
    <2>2. g = [j \in {} |-> R(g, j)]
      OBVIOUS
    <2> QED  BY <2>1, <2>2
  <1>2. ASSUME NEW n \in Nat, n \in T PROVE n + 1 \in T
    <2>1. PICK g : g = [j \in From(n) |-> R(g, j)]
      BY <1>2
    <2> DEFINE f == [j \in From(n + 1) |-> IF j \in From(n) THEN g[j] ELSE R(g, j)]
    <2>2. \A j \in From(n) : f[j] = g[j] /\ g[j] = R(g, j)
      <3>1. \A j \in From(n) : g[j] = R(g, j)
        BY <2>1
      <3>2. \A j \in From(n) : j \in From(n + 1)
        OBVIOUS
      <3> QED  BY <3>1, <3>2
    <2>3. \A j \in From(n + 1) \ From(n) : f[j] = R(g, j)
      OBVIOUS
    <2>4. \A j \in From(n + 1) : j # e => j + 1 \in From(n)
      OBVIOUS
    <2>5. f = [j \in From(n + 1) |-> f[j]]
      OBVIOUS
    <2> HIDE DEF f, From
    <2>6. ASSUME NEW j \in From(n + 1) PROVE f[j] = R(f, j)
      <3>1. j # e => f[j + 1] = g[j + 1]
        BY <2>2, <2>4
      <3>2. R(f, j) = R(g, j)
        BY <3>1
      <3> HIDE DEF R
      <3> QED  BY <2>2, <2>3, <3>2
    <2>7. f = [j \in From(n + 1) |-> R(f, j)]
      BY <2>5, <2>6
    <2> HIDE DEF R
    <2> QED  BY <2>7
  <1>3. From(e) = 1..e
    OBVIOUS
  <1> HIDE DEF T, From, R
  <1>4. e \in T
    BY <1>1, <1>2, SetInduction
  <1> QED  BY <1>3, <1>4 DEF T, IsRead, R

LEMMA ReadVarintIs ==
  ASSUME NEW d, NEW e \in Nat, NEW i \in 1..e
  PROVE  ReadVarint(d, i, e) = (d[i] % 128) + (IF i = e THEN 0 ELSE 128 * ReadVarint(d, i + 1, e))
  <1> DEFINE f == CHOOSE g : IsRead(g, d, e)
  <1>1. ReadVarint(d, i, e) = f[i] /\ ReadVarint(d, i + 1, e) = f[i + 1]
    BY DEF ReadVarint, IsRead
  <1>2. IsRead(f, d, e)
    BY ReadExists
  <1> HIDE DEF f
  <1>3. f[i] = (d[i] % 128) + (IF i = e THEN 0 ELSE 128 * f[i + 1])
    BY <1>2 DEF IsRead
  <1> QED  BY <1>1, <1>3
(* The bytes of w lie in d from i on.                                      *)
At(d, i, w) == i + Len(w) <= Len(d) + 1 /\ \A k \in 1..Len(w) : d[i + (k - 1)] = w[k]

LEMMA AtConcat ==
  ASSUME NEW B, NEW d, NEW i, NEW a, NEW b, IsList(d, B), IsList(a, B), IsList(b, B),
         i \in Nat \ {0}, At(d, i, a \o b)
  PROVE  At(d, i, a) /\ At(d, i + Len(a), b)
  <1>1. /\ a \o b \in Seq(B) /\ Len(a \o b) = Len(a) + Len(b)
        /\ Len(a) \in Nat /\ Len(b) \in Nat /\ Len(d) \in Nat
        /\ \A k \in 1..Len(a) : (a \o b)[k] = a[k]
        /\ \A k \in 1..Len(b) : (a \o b)[Len(a) + k] = b[k]
    BY DEF IsList
  <1>2. /\ i + Len(a \o b) <= Len(d) + 1
        /\ \A k \in 1..(Len(a) + Len(b)) : d[i + (k - 1)] = (a \o b)[k]
    BY <1>1 DEF At
  <1>3. At(d, i, a)
    <2>1. \A k \in 1..Len(a) : k \in 1..(Len(a) + Len(b))
      BY <1>1
    <2>2. i + Len(a) <= Len(d) + 1
      BY <1>1, <1>2
    <2> QED  BY <1>1, <1>2, <2>1, <2>2 DEF At
  <1>4. At(d, i + Len(a), b)
    <2>1. \A k \in 1..Len(b) : /\ Len(a) + k \in 1..(Len(a) + Len(b))
                               /\ i + ((Len(a) + k) - 1) = (i + Len(a)) + (k - 1)
      BY <1>1
    <2>2. \A k \in 1..Len(b) : d[(i + Len(a)) + (k - 1)] = b[k]
      BY <1>1, <1>2, <2>1
    <2>3. (i + Len(a)) + Len(b) <= Len(d) + 1
      BY <1>1, <1>2
    <2> QED  BY <2>2, <2>3 DEF At
  <1> QED  BY <1>3, <1>4

LEMMA AtSelf == ASSUME NEW B, NEW d \in Seq(B) PROVE At(d, 1, d)
  <1>1. Len(d) \in Nat /\ \A k \in 1..Len(d) : 1 + (k - 1) = k
    OBVIOUS
  <1> QED  BY <1>1 DEF At

(* A varint that was written is read: readVarint undoes writeVarint.       *)
LEMMA VarintAt ==
  ASSUME NEW d \in Seq(Byte), NEW v \in Nat, NEW i \in Nat \ {0}, At(d, i, WriteVarint(v))
  PROVE  LET e == (i + Len(WriteVarint(v))) - 1
         IN VarintEnd(d, i) = e /\ e \in i..Len(d) /\ ReadVarint(d, i, e) = v
  <1> DEFINE B == Byte
             w(u) == WriteVarint(u)
             E(u, j) == (j + Len(w(u))) - 1
             P(u, j) == At(d, j, w(u)) => /\ VarintEnd(d, j) = E(u, j) /\ E(u, j) \in j..Len(d)
                                          /\ ReadVarint(d, j, E(u, j)) = u
             T == {n \in Nat : \A u \in 0..n : \A j \in Nat \ {0} : P(u, j)}
  <1>0. d \in Seq(B) /\ Len(d) \in Nat /\ \A j \in 1..Len(d) : d[j] \in 0..255 /\ d[j] \in Int
    <2>1. d \in Seq(B) /\ \A b \in B : b \in 0..255 /\ b \in Int
      BY DEF Byte
    <2> HIDE DEF B
    <2>2. Len(d) \in Nat /\ \A j \in 1..Len(d) : d[j] \in B
      BY <2>1
    <2> QED  BY <2>1, <2>2
  <1>1. ASSUME NEW u \in Nat, u < 128, NEW j \in Nat \ {0} PROVE P(u, j)
    <2> SUFFICES ASSUME At(d, j, w(u))
                 PROVE  /\ VarintEnd(d, j) = E(u, j) /\ E(u, j) \in j..Len(d)
                        /\ ReadVarint(d, j, E(u, j)) = u
      OBVIOUS
    <2>1. w(u) = <<u>>
      BY <1>1, WriteVarintIs, Zenon
    <2>2. Len(w(u)) = 1 /\ w(u)[1] = u
      BY <2>1
    <2>3. E(u, j) = j /\ j \in 1..Len(d) /\ d[j] = u
      <3> HIDE DEF w
      <3>1. j + 1 <= Len(d) + 1 /\ d[j + (1 - 1)] = u
        BY <2>2 DEF At
      <3> QED  BY <1>0, <2>2, <3>1
    <2>4. VarintEnd(d, j) = j
      <3> DEFINE e == VarintEnd(d, j)
      <3>1. \/ e = 0 /\ \A k \in j..Len(d) : d[k] >= 128
            \/ e \in j..Len(d) /\ d[e] < 128 /\ \A k \in j..(e - 1) : d[k] >= 128
        BY VarintEndIs
      <3> HIDE DEF e, w, E
      <3>2. j \in j..Len(d) /\ ~(d[j] >= 128)
        BY <1>1, <2>3
      <3>3. e \in j..Len(d) /\ ~(j \in j..(e - 1))
        BY <3>1, <3>2
      <3>4. e = j
        BY <3>3
      <3> QED  BY <3>4 DEF e
    <2>5. ReadVarint(d, j, j) = d[j] % 128
      <3>1. j \in Nat /\ j \in 1..j
        OBVIOUS
      <3>2. ReadVarint(d, j, j) = (d[j] % 128)
                 + (IF j = j THEN 0 ELSE 128 * ReadVarint(d, j + 1, j))
        BY <3>1, ReadVarintIs
      <3>3. d[j] % 128 \in Int
        BY <1>1, <2>3
      <3> QED  BY <3>2, <3>3
    <2>6. u % 128 = u
      BY <1>1
    <2> HIDE DEF E, w
    <2> QED  BY <1>0, <2>3, <2>4, <2>5, <2>6
  <1>2. 0 \in T
    <2>1. \A j \in Nat \ {0} : P(0, j)
      <3> HIDE DEF P
      <3> QED  BY <1>1
    <2> HIDE DEF P
    <2>2. \A u \in 0..0 : u = 0
      OBVIOUS
    <2> QED  BY <2>1, <2>2
  <1>3. ASSUME NEW n \in Nat, n \in T PROVE n + 1 \in T
    <2> SUFFICES ASSUME NEW u \in 0..(n + 1), NEW j \in Nat \ {0} PROVE P(u, j)
      OBVIOUS
    <2>1. CASE u < 128
      <3> HIDE DEF P
      <3> QED  BY <1>1, <2>1
    <2>2. CASE u >= 128
      <3> SUFFICES ASSUME At(d, j, w(u))
                   PROVE  /\ VarintEnd(d, j) = E(u, j) /\ E(u, j) \in j..Len(d)
                          /\ ReadVarint(d, j, E(u, j)) = u
        OBVIOUS
      <3> DEFINE q == u \div 128
                 c == 128 + (u % 128)
      <3>1. q \in Nat /\ q \in 0..n /\ u % 128 \in 0..127 /\ u = 128 * q + (u % 128)
            /\ c \in 0..255 /\ c >= 128 /\ c % 128 = u % 128
        BY <2>2, SevenBitsLess
      <3>2. w(u) = <<c>> \o w(q)
        <4>1. u \in Nat
          OBVIOUS
        <4> QED  BY <2>2, <4>1, WriteVarintIs, Zenon
      <3>3. w(q) \in Seq(B) /\ Len(w(q)) \in Nat /\ Len(w(q)) >= 1
        <4> HIDE DEF q
        <4>1. w(q) \in Seq(B) /\ Len(w(q)) >= 1
          BY <3>1, WriteIsBytes
        <4> HIDE DEF w, B
        <4> QED  BY <4>1
      <3>4. <<c>> \in Seq(B) /\ Len(<<c>>) = 1 /\ <<c>>[1] = c
        <4>1. c \in B
          BY <3>1 DEF Byte
        <4> HIDE DEF B, c
        <4> QED  BY <4>1
      <3>5. At(d, j, <<c>>) /\ At(d, j + 1, w(q)) /\ Len(w(u)) = 1 + Len(w(q))
        <4> DEFINE x == <<c>>
                   y == w(q)
        <4>1. /\ IsList(x, B) /\ IsList(y, B) /\ IsList(d, B)
              /\ At(d, j, x \o y) /\ w(u) = x \o y /\ Len(x) = 1
          BY <1>0, <3>2, <3>3, <3>4 DEF IsList
        <4> HIDE DEF w, q, c, B, x, y
        <4>2. At(d, j, x) /\ At(d, j + Len(x), y)
          BY <4>1, AtConcat
        <4>3. Len(x \o y) = Len(x) + Len(y)
          <5>1. x \in Seq(B) /\ y \in Seq(B)
            BY <4>1 DEF IsList
          <5> QED  BY ONLY <5>1
        <4> QED  BY <4>1, <4>2, <4>3 DEF x, y
      <3>6. d[j] = c /\ j \in 1..Len(d)
        <4> HIDE DEF w, q, c
        <4>1. j + 1 <= Len(d) + 1 /\ d[j + (1 - 1)] = c
          BY <3>4, <3>5 DEF At
        <4> QED  BY <1>0, <4>1
      <3>7. E(q, j + 1) = E(u, j) /\ j + 1 \in Nat \ {0}
        <4> HIDE DEF w, q, c
        <4> QED  BY <3>3, <3>5
      <3> DEFINE e == E(u, j)
      <3>8. VarintEnd(d, j + 1) = e /\ e \in (j + 1)..Len(d) /\ ReadVarint(d, j + 1, e) = q
        <4>1. P(q, j + 1)
          BY <1>3, <3>1, <3>7
        <4> HIDE DEF q, w, c
        <4> QED  BY <3>5, <3>7, <4>1
      <3> HIDE DEF q, w, c, E, e, P, T
      <3>9. VarintEnd(d, j) = e
        <4> DEFINE m == VarintEnd(d, j)
        <4>1. \/ e = 0 /\ \A k \in (j + 1)..Len(d) : d[k] >= 128
              \/ e \in (j + 1)..Len(d) /\ d[e] < 128 /\ \A k \in (j + 1)..(e - 1) : d[k] >= 128
          BY <3>7, <3>8, VarintEndIs
        <4>2. \/ m = 0 /\ \A k \in j..Len(d) : d[k] >= 128
              \/ m \in j..Len(d) /\ d[m] < 128 /\ \A k \in j..(m - 1) : d[k] >= 128
          BY VarintEndIs
        <4> HIDE DEF m
        <4>3. e \in j..Len(d) /\ d[e] < 128 /\ d[e] \in Int /\ e \in Nat
              /\ \A k \in (j + 1)..(e - 1) : d[k] >= 128
          <5>1. e # 0 /\ e \in 1..Len(d) /\ e \in j..Len(d)
            BY <1>0, <3>8
          <5>2. d[e] \in Int
            BY <1>0, <5>1
          <5> QED  BY <4>1, <5>1, <5>2
        <4>4. m \in j..Len(d) /\ d[m] < 128 /\ \A k \in j..(m - 1) : d[k] >= 128
          BY <4>2, <4>3
        <4>5. m # j /\ d[m] \in Int
          <5>1. m \in 1..Len(d)
            BY <1>0, <4>4
          <5>2. d[m] \in Int
            BY <1>0, <5>1
          <5> QED  BY <3>1, <3>6, <4>4, <5>2
        <4>6. ~(e \in j..(m - 1)) /\ ~(m \in (j + 1)..(e - 1))
          BY <4>3, <4>4, <4>5
        <4>7. m = e
          BY <3>8, <4>3, <4>4, <4>5, <4>6
        <4> QED  BY <4>7 DEF m
      <3>10. ReadVarint(d, j, e) = u
        <4>1. j \in 1..e /\ e \in Nat /\ j # e
          BY <3>8
        <4>2. ReadVarint(d, j, e) = (d[j] % 128)
                   + (IF j = e THEN 0 ELSE 128 * ReadVarint(d, j + 1, e))
          BY <4>1, ReadVarintIs
        <4>3. ReadVarint(d, j, e) = (c % 128) + 128 * q
          BY <3>6, <3>8, <4>1, <4>2
        <4> QED  BY <3>1, <4>3
      <3> QED  BY <3>8, <3>9, <3>10 DEF e
    <2> QED  BY <2>1, <2>2
  <1> HIDE DEF T, P
  <1>4. v \in T
    BY <1>2, <1>3, SetInduction
  <1>5. P(v, i)
    BY <1>4 DEF T
  <1> QED  BY <1>5 DEF P

-----------------------------------------------------------------------------
(* One field.  What is read of a written one: build writes no varint of a  *)
(* field with bytes and no bytes of one with a varint.                     *)
Plain(f) == IF f.wire = 0 THEN Varint(f.num, f.varint) ELSE Bytes(f.num, f.bytes)

LEMMA FieldIs ==
  ASSUME NEW f \in Field
  PROVE  /\ f.num \in Nat /\ f.wire \in {0, 2} /\ f.varint \in Nat
         /\ f.bytes \in Seq(Byte) /\ Len(f.bytes) \in Nat
  <1> DEFINE S == Seq(Byte)
  <1>1. f.num \in Nat /\ f.wire \in {0, 2} /\ f.varint \in Nat /\ f.bytes \in S
    <2> HIDE DEF S
    <2>1. f \in [num : Nat, wire : {0, 2}, varint : Nat, bytes : S]
      BY DEF Field, S
    <2> QED  BY <2>1
  <1> QED  BY <1>1

LEMMA PlainIs ==
  ASSUME NEW f \in Field
  PROVE  /\ Plain(f) \in Field /\ Plain(f).num = f.num /\ Plain(f).wire = f.wire
         /\ Plain(Plain(f)) = Plain(f)
         /\ f.wire = 0 => Plain(f).varint = f.varint /\ Plain(f).bytes = <<>>
         /\ f.wire = 2 => Plain(f).varint = 0 /\ Plain(f).bytes = f.bytes
  <1> DEFINE S == Seq(Byte)
  <1>1. f.num \in Nat /\ f.wire \in {0, 2} /\ f.varint \in Nat /\ f.bytes \in S /\ <<>> \in S
    BY FieldIs
  <1>2. Field = [num : Nat, wire : {0, 2}, varint : Nat, bytes : S]
    BY DEF Field
  <1> HIDE DEF S
  <1>3. CASE f.wire = 0
    BY <1>1, <1>2, <1>3 DEF Plain, Varint
  <1>4. CASE f.wire = 2
    BY <1>1, <1>2, <1>4 DEF Plain, Bytes
  <1> QED  BY <1>1, <1>3, <1>4

LEMMA WrittenIsBytes ==
  ASSUME NEW f \in Field
  PROVE  Written(f) \in Seq(Byte) /\ Len(Written(f)) >= 1
  <1> DEFINE S == Byte
             a == WriteVarint(f.num * 8 + f.wire)
             b == WriteVarint(f.varint)
             c == WriteVarint(Len(f.bytes))
             e == f.bytes
  <1>1. f.num * 8 + f.wire \in Nat /\ f.varint \in Nat /\ Len(f.bytes) \in Nat /\ e \in Seq(S)
    BY FieldIs
  <1>2. a \in Seq(S) /\ Len(a) >= 1 /\ b \in Seq(S) /\ c \in Seq(S)
    BY <1>1, WriteIsBytes
  <1>3. Written(f) = a \o (IF f.wire = 0 THEN b ELSE c \o e)
    BY DEF Written
  <1> HIDE DEF S, a, b, c, e
  <1>4. a \o b \in Seq(S) /\ Len(a \o b) >= 1
    BY <1>2
  <1>5. a \o (c \o e) \in Seq(S) /\ Len(a \o (c \o e)) >= 1
    BY <1>1, <1>2
  <1> QED  BY <1>3, <1>4, <1>5 DEF S

(* What was written of a field is read as that field, and the reading goes *)
(* on after it.                                                            *)
LEMMA FieldIsRead ==
  ASSUME NEW d \in Seq(Byte), NEW f \in Field, NEW i \in Nat \ {0}, At(d, i, Written(f))
  PROVE  FieldAt(d, i) = [field |-> Plain(f), next |-> i + Len(Written(f))]
  <1> DEFINE S == Byte
             k == f.num * 8 + f.wire
             a == WriteVarint(k)
             t == (i + Len(a)) - 1
  <1>1. /\ k \in Nat /\ k \div 8 = f.num /\ k % 8 = f.wire
        /\ f.num \in Nat /\ f.wire \in {0, 2} /\ f.varint \in Nat
        /\ f.bytes \in Seq(S) /\ Len(f.bytes) \in Nat
    <2>1. f.num \in Nat /\ f.wire \in {0, 2}
      BY FieldIs
    <2>2. \A n \in Nat : \A w \in {0, 2} :
             n * 8 + w \in Nat /\ (n * 8 + w) \div 8 = n /\ (n * 8 + w) % 8 = w
      <3> HIDE DEF S, k, a, t
      <3> QED  BY SMTT(30)
    <2>3. k \in Nat /\ k \div 8 = f.num /\ k % 8 = f.wire
      BY <2>1, <2>2
    <2> QED  BY <2>1, <2>3, FieldIs
  <1> HIDE DEF k
  <1>2. IsList(a, S) /\ Len(a) \in Nat /\ Len(a) >= 1 /\ IsList(d, S) /\ IsList(f.bytes, S)
    <2>1. a \in Seq(S) /\ Len(a) >= 1
      BY <1>1, WriteIsBytes
    <2> HIDE DEF S, a
    <2> QED  BY <1>1, <2>1 DEF IsList, S
  <1> DEFINE m == IF f.wire = 0 THEN f.varint ELSE Len(f.bytes)
             w == WriteVarint(m)
             b == IF f.wire = 0 THEN <<>> ELSE f.bytes
             v == ((t + 1) + Len(w)) - 1
  <1>3. m \in Nat
    BY <1>1
  <1> HIDE DEF m
  <1>4. IsList(w, S) /\ Len(w) \in Nat /\ Len(w) >= 1
    <2>1. w \in Seq(S) /\ Len(w) >= 1
      BY <1>3, WriteIsBytes
    <2> HIDE DEF S, w
    <2> QED  BY <2>1 DEF IsList
  <1>5. IsList(b, S) /\ Len(b) \in Nat
    BY <1>1, <1>2 DEF IsList
  <1>6. Written(f) = a \o (w \o b)
    <2>1. f.wire = 0 => w \o b = w
      <3> HIDE DEF w, S
      <3> QED  BY <1>4 DEF IsList
    <2> QED  BY <1>1, <2>1 DEF Written, k, m
  <1> HIDE DEF a, w, b, S
  <1>7. /\ At(d, i, a) /\ At(d, i + Len(a), w) /\ At(d, (i + Len(a)) + Len(w), b)
        /\ Len(Written(f)) = Len(a) + (Len(w) + Len(b))
    <2>1. IsList(w \o b, S) /\ Len(w \o b) = Len(w) + Len(b)
      BY <1>4, <1>5 DEF IsList
    <2>2. At(d, i, a) /\ At(d, i + Len(a), w \o b)
      BY <1>2, <1>6, <2>1, AtConcat
    <2>3. i + Len(a) \in Nat \ {0}
      BY <1>2
    <2>4. At(d, i + Len(a), w) /\ At(d, (i + Len(a)) + Len(w), b)
      BY <1>2, <1>4, <1>5, <2>2, <2>3, AtConcat
    <2>5. Len(Written(f)) = Len(a) + Len(w \o b)
      BY <1>2, <1>6, <2>1 DEF IsList
    <2> QED  BY <2>1, <2>2, <2>4, <2>5
  <1>8. VarintEnd(d, i) = t /\ t \in i..Len(d) /\ ReadVarint(d, i, t) = k /\ t + 1 = i + Len(a)
    <2>1. At(d, i, WriteVarint(k)) /\ i \in Nat /\ d \in Seq(S)
      BY <1>2, <1>7 DEF a, IsList
    <2>2. LET e == (i + Len(WriteVarint(k))) - 1
          IN VarintEnd(d, i) = e /\ e \in i..Len(d) /\ ReadVarint(d, i, e) = k
      BY <1>1, <2>1, VarintAt
    <2>3. VarintEnd(d, i) = t /\ t \in i..Len(d) /\ ReadVarint(d, i, t) = k
      BY <2>2 DEF a
    <2>4. t + 1 = i + Len(a)
      BY <1>2, <2>1
    <2> QED  BY <2>3, <2>4
  <1>9. VarintEnd(d, t + 1) = v /\ v \in (t + 1)..Len(d) /\ ReadVarint(d, t + 1, v) = m
        /\ v + 1 = (i + Len(a)) + Len(w) /\ v \in Nat /\ t \in Nat /\ Len(d) \in Nat
    <2>1. t + 1 \in Nat \ {0} /\ At(d, t + 1, w)
      BY <1>7, <1>8
    <2> HIDE DEF t
    <2>2. VarintEnd(d, t + 1) = v /\ v \in (t + 1)..Len(d) /\ ReadVarint(d, t + 1, v) = m
      BY <1>3, <2>1, VarintAt DEF w
    <2>3. v + 1 = (t + 1) + Len(w)
      BY <1>4, <2>1
    <2>4. Len(d) \in Nat
      BY <1>2 DEF IsList
    <2>5. t \in Nat
      BY <1>8
    <2> HIDE DEF v
    <2> QED  BY <1>8, <2>2, <2>3, <2>4, <2>5
  <1> HIDE DEF t, v
  <1>10. t # 0 /\ v # 0
    BY <1>8, <1>9
  <1>11. CASE f.wire = 0
    <2>1. FieldAt(d, i) = [field |-> Varint(f.num, m), next |-> v + 1]
      BY <1>1, <1>8, <1>9, <1>10, <1>11 DEF FieldAt
    <2>2. Plain(f) = Varint(f.num, m) /\ Len(b) = 0
      BY <1>11 DEF Plain, m, b
    <2>3. v + 1 = i + Len(Written(f))
      BY <1>2, <1>4, <1>7, <1>9, <2>2
    <2> QED  BY <2>1, <2>2, <2>3
  <1>12. CASE f.wire = 2
    <2>1. b = f.bytes /\ m = Len(b)
      BY <1>12 DEF m, b
    <2>2. v + m <= Len(d) /\ v + m + 1 = i + Len(Written(f))
      <3>1. (v + 1) + Len(b) <= Len(d) + 1
        BY <1>7, <1>9 DEF At
      <3>2. (v + 1) + Len(b) = i + Len(Written(f))
        BY <1>2, <1>4, <1>5, <1>7, <1>9
      <3>3. m \in Nat /\ v \in Nat /\ Len(d) \in Nat
        BY <1>3, <1>9
      <3>4. (v + 1) + m <= Len(d) + 1 /\ (v + 1) + m = i + Len(Written(f))
        BY <2>1, <3>1, <3>2
      <3> QED  BY <3>3, <3>4
    <2>3. SubSeq(d, v + 1, v + m) = b
      <3>1. v \in Nat /\ v + m <= Len(d) /\ m = Len(b) /\ m \in Nat
        BY <1>3, <1>9, <2>1, <2>2
      <3>2. \A j \in 1..Len(b) : d[(v + 1) + (j - 1)] = b[j]
        BY <1>7, <1>9 DEF At
      <3>3. d \in Seq(S) /\ b \in Seq(S)
        BY <1>2, <1>5 DEF IsList
      <3> HIDE DEF m
      <3>4. /\ SubSeq(d, v + 1, v + m) \in Seq(S) /\ Len(SubSeq(d, v + 1, v + m)) = m
            /\ \A j \in 1..m : SubSeq(d, v + 1, v + m)[j] = d[(v + 1) + (j - 1)]
        BY <3>1, <3>3
      <3> DEFINE s == SubSeq(d, v + 1, v + m)
      <3>5. s \in Seq(S) /\ Len(s) = Len(b) /\ \A j \in 1..Len(b) : s[j] = b[j]
        BY <3>1, <3>2, <3>4
      <3> HIDE DEF s
      <3>6. IsList(s, S) /\ IsList(b, S) /\ Len(s) = Len(b) /\ \A j \in 1..Len(s) : s[j] = b[j]
        BY <3>3, <3>5 DEF IsList
      <3>7. s = b
        BY <3>6, SameSeq
      <3> QED  BY <3>7 DEF s
    <2>4. FieldAt(d, i) = [field |-> Bytes(f.num, SubSeq(d, v + 1, v + m)), next |-> v + m + 1]
      <3>1. ~(v + m > Len(d))
        BY <1>3, <1>9, <2>2
      <3>2. ReadVarint(d, i, t) \div 8 = f.num /\ ReadVarint(d, i, t) % 8 = 2
        BY <1>1, <1>8, <1>12
      <3> QED  BY <1>8, <1>9, <1>10, <3>1, <3>2 DEF FieldAt
    <2>5. Plain(f) = Bytes(f.num, b)
      BY <1>12, <2>1 DEF Plain
    <2> QED  BY <2>2, <2>3, <2>4, <2>5
  <1> QED  BY <1>1, <1>11, <1>12

-----------------------------------------------------------------------------
(* The walk of parse over any bytes.                                       *)
PlainField == {f \in Field : Plain(f) = f}

LEMMA ReadIsNat ==
  ASSUME NEW d \in Seq(Byte), NEW e \in Nat, e <= Len(d), NEW i \in 1..e
  PROVE  ReadVarint(d, i, e) \in Nat
  <1> DEFINE B == Byte
             T == {n \in Nat : \A j \in 1..e : j >= e - n => ReadVarint(d, j, e) \in Nat}
  <1>1. \A j \in 1..e : d[j] % 128 \in Nat
    <2>1. d \in Seq(B) /\ \A b \in B : b % 128 \in Nat
      BY DEF Byte
    <2> HIDE DEF B
    <2>2. Len(d) \in Nat /\ \A j \in 1..Len(d) : d[j] \in B
      BY <2>1
    <2>3. \A j \in 1..e : j \in 1..Len(d)
      BY <2>2
    <2> QED  BY <2>1, <2>2, <2>3
  <1>2. ASSUME NEW j \in 1..e, j = e \/ ReadVarint(d, j + 1, e) \in Nat
        PROVE  ReadVarint(d, j, e) \in Nat
    <2>1. ReadVarint(d, j, e) = (d[j] % 128)
                + (IF j = e THEN 0 ELSE 128 * ReadVarint(d, j + 1, e))
      BY ReadVarintIs
    <2>2. d[j] % 128 \in Nat
      BY <1>1
    <2> QED  BY <1>2, <2>1, <2>2
  <1>3. 0 \in T
    <2>1. \A j \in 1..e : j >= e - 0 => j = e
      OBVIOUS
    <2> QED  BY <1>2, <2>1
  <1>4. ASSUME NEW n \in Nat, n \in T PROVE n + 1 \in T
    <2> SUFFICES ASSUME NEW j \in 1..e, j >= e - (n + 1) PROVE ReadVarint(d, j, e) \in Nat
      OBVIOUS
    <2>1. j = e \/ (j + 1 \in 1..e /\ j + 1 >= e - n)
      OBVIOUS
    <2> QED  BY <1>2, <1>4, <2>1
  <1> HIDE DEF T
  <1>5. e \in T
    BY <1>3, <1>4, SetInduction
  <1>6. i >= e - e
    OBVIOUS
  <1> QED  BY <1>5, <1>6 DEF T

LEMMA FieldAtIs ==
  ASSUME NEW d \in Seq(Byte), NEW i \in 1..Len(d)
  PROVE  \/ FieldAt(d, i) = Garbled
         \/ /\ \E x \in PlainField, n \in (i + 1)..(Len(d) + 1) :
                   FieldAt(d, i) = [field |-> x, next |-> n]
            /\ FieldAt(d, i) # Garbled
  <1> DEFINE t    == VarintEnd(d, i)
             v    == VarintEnd(d, t + 1)
             num  == ReadVarint(d, i, t) \div 8
             wire == ReadVarint(d, i, t) % 8
             val  == ReadVarint(d, t + 1, v)
  <1>0. Len(d) \in Nat
    OBVIOUS
  <1>1. FieldAt(d, i) =
          IF t = 0 \/ wire \notin {0, 2} \/ v = 0 THEN Garbled
          ELSE IF wire = 0 THEN [field |-> Varint(num, val), next |-> v + 1]
          ELSE IF v + val > Len(d) THEN Garbled
          ELSE [field |-> Bytes(num, SubSeq(d, v + 1, v + val)), next |-> v + val + 1]
    BY DEF FieldAt
  <1>2. t = 0 \/ t \in i..Len(d)
    BY VarintEndIs
  <1> HIDE DEF t
  <1>3. t # 0 => v = 0 \/ v \in (t + 1)..Len(d)
    <2> SUFFICES ASSUME t # 0 PROVE v = 0 \/ v \in (t + 1)..Len(d)
      OBVIOUS
    <2>1. t + 1 \in Nat \ {0}
      BY <1>2
    <2> QED  BY <2>1, VarintEndIs
  <1> HIDE DEF v
  <1>4. CASE t = 0 \/ wire \notin {0, 2} \/ v = 0
    BY <1>1, <1>4
  <1>5. CASE ~(t = 0 \/ wire \notin {0, 2} \/ v = 0)
    <2>1. t \in Nat /\ t \in i..Len(d) /\ v \in Nat /\ v \in (t + 1)..Len(d)
          /\ i \in 1..t /\ t + 1 \in 1..v
      BY <1>0, <1>2, <1>3, <1>5
    <2>2. ReadVarint(d, i, t) \in Nat /\ val \in Nat
      BY <2>1, ReadIsNat
    <2>3. num \in Nat
      <3> DEFINE k == ReadVarint(d, i, t)
      <3>1. k \in Nat
        BY <2>2
      <3> HIDE DEF k
      <3>2. k \div 8 \in Nat
        BY <3>1
      <3> QED  BY <3>2 DEF k
    <2> HIDE DEF num, val
    <2> DEFINE S == Seq(Byte)
    <2>4. Field = [num : Nat, wire : {0, 2}, varint : Nat, bytes : S] /\ <<>> \in S
      BY DEF Field
    <2>5. CASE wire = 0
      <3> DEFINE x == Varint(num, val)
      <3>1. FieldAt(d, i) = [field |-> x, next |-> v + 1]
        BY <1>1, <1>5, <2>5
      <3>2. x \in Field /\ Plain(x) = x
        <4> HIDE DEF S
        <4> QED  BY <2>2, <2>3, <2>4 DEF Varint, Plain
      <3>3. v + 1 \in (i + 1)..(Len(d) + 1)
        BY <1>0, <2>1
      <3> HIDE DEF x
      <3>4. FieldAt(d, i) # Garbled
        BY <2>1, <3>1, <3>2, GarbledIsNothingRead
      <3> QED  BY <3>1, <3>2, <3>3, <3>4 DEF PlainField
    <2>6. CASE wire # 0 /\ v + val > Len(d)
      BY <1>1, <1>5, <2>6
    <2>7. CASE wire # 0 /\ ~(v + val > Len(d))
      <3> DEFINE b == SubSeq(d, v + 1, v + val)
                 x == Bytes(num, b)
      <3>1. FieldAt(d, i) = [field |-> x, next |-> v + val + 1]
        BY <1>1, <1>5, <2>7
      <3>2. b \in S
        <4> DEFINE B == Byte
        <4>1. d \in Seq(B) /\ v + 1 \in 1..(Len(d) + 1) /\ v + val \in 0..Len(d)
          BY <1>0, <2>1, <2>2, <2>7
        <4> HIDE DEF B
        <4>2. \A j \in (v + 1)..(v + val) : j \in 1..Len(d)
          BY <1>0, <2>1, <2>2, <4>1
        <4>3. b \in Seq(B)
          BY <2>1, <2>2, <4>1, <4>2
        <4> QED  BY <4>3 DEF B
      <3> HIDE DEF b
      <3>3. x \in Field /\ Plain(x) = x
        <4> HIDE DEF S
        <4> QED  BY <2>3, <2>4, <3>2 DEF Bytes, Plain
      <3>4. v + val + 1 \in (i + 1)..(Len(d) + 1)
        BY <1>0, <2>1, <2>2, <2>7
      <3> HIDE DEF x
      <3>5. FieldAt(d, i) # Garbled
        BY <2>1, <3>1, <3>3, <3>4, GarbledIsNothingRead
      <3> QED  BY <3>1, <3>3, <3>4, <3>5 DEF PlainField
    <2> QED  BY <2>5, <2>6, <2>7
  <1> QED  BY <1>4, <1>5

IsWalk(w, d) ==
    w = [i \in 1..(Len(d) + 1) |->
            IF i > Len(d) THEN <<>>
            ELSE LET f == FieldAt(d, i)
                 IN IF f = Garbled THEN <<Garbled>> ELSE <<f.field>> \o w[f.next]]

LEMMA WalkExists == ASSUME NEW d \in Seq(Byte) PROVE \E w : IsWalk(w, d)
  <1> DEFINE L == Len(d)
             W(h, i) == IF i > L THEN <<>>
                        ELSE LET f == FieldAt(d, i)
                             IN IF f = Garbled THEN <<Garbled>> ELSE <<f.field>> \o h[f.next]
             From(n) == {i \in 1..(L + 1) : i > L + 1 - n}
             T == {n \in Nat : \E g : g = [i \in From(n) |-> W(g, i)]}
  <1>0. L \in Nat
    OBVIOUS
  <1>1. 0 \in T
    <2> DEFINE g == [i \in {} |-> 0]
    <2>1. From(0) = {}
      BY <1>0
    <2>2. g = [i \in {} |-> W(g, i)]
      OBVIOUS
    <2> HIDE DEF W, From
    <2> QED  BY <2>1, <2>2
  <1>2. ASSUME NEW n \in Nat, n \in T PROVE n + 1 \in T
    <2>1. PICK g : g = [i \in From(n) |-> W(g, i)]
      BY <1>2
    <2> DEFINE f == [i \in From(n + 1) |-> IF i \in From(n) THEN g[i] ELSE W(g, i)]
    <2>2. \A i \in From(n) : i \in From(n + 1)
      BY <1>0
    <2>3. ASSUME NEW i \in From(n + 1), i <= L, FieldAt(d, i) # Garbled
          PROVE  FieldAt(d, i).next \in From(n)
      <3>1. i \in 1..L /\ i > L + 1 - (n + 1)
        BY <1>0, <2>3
      <3>2. PICK x \in PlainField, m \in (i + 1)..(L + 1) : FieldAt(d, i) = [field |-> x, next |-> m]
        BY <2>3, <3>1, FieldAtIs
      <3>3. FieldAt(d, i).next = m
        BY <3>2
      <3> QED  BY <1>0, <3>1, <3>3
    <2> HIDE DEF From
    <2>4. \A i \in From(n) : f[i] = g[i] /\ g[i] = W(g, i)
      <3> HIDE DEF W
      <3>1. \A i \in From(n) : g[i] = W(g, i)
        BY <2>1
      <3> QED  BY <2>2, <3>1
    <2>5. (\A i \in From(n + 1) \ From(n) : f[i] = W(g, i)) /\ f = [i \in From(n + 1) |-> f[i]]
      <3> HIDE DEF W
      <3> QED  OBVIOUS
    <2> HIDE DEF f
    <2>6. ASSUME NEW i \in From(n + 1) PROVE f[i] = W(f, i)
      <3>1. W(f, i) = W(g, i)
        <4>1. CASE i > L
          BY <4>1
        <4>2. CASE FieldAt(d, i) = Garbled
          BY <4>2
        <4>3. CASE ~(i > L) /\ FieldAt(d, i) # Garbled
          <5>1. i \in Nat
            BY <1>0 DEF From
          <5>2. f[FieldAt(d, i).next] = g[FieldAt(d, i).next]
            <6>1. i <= L
              BY <1>0, <4>3, <5>1
            <6>2. FieldAt(d, i).next \in From(n)
              BY <2>3, <4>3, <6>1
            <6> HIDE DEF W
            <6> QED  BY <2>4, <6>2
          <5> QED  BY <5>2
        <4> QED  BY <4>1, <4>2, <4>3
      <3> HIDE DEF W
      <3> QED  BY <2>4, <2>5, <3>1
    <2>7. f = [i \in From(n + 1) |-> W(f, i)]
      <3> HIDE DEF W
      <3> QED  BY <2>5, <2>6
    <2> HIDE DEF W
    <2> QED  BY <2>7
  <1>3. From(L + 1) = 1..(L + 1)
    BY <1>0
  <1>4. L + 1 \in Nat
    BY <1>0
  <1> HIDE DEF T, From, W
  <1>5. L + 1 \in T
    BY <1>1, <1>2, <1>4, SetInduction
  <1>6. PICK g : g = [i \in 1..(L + 1) |-> W(g, i)]
    BY <1>3, <1>5 DEF T
  <1> QED  BY <1>6 DEF W, IsWalk

Walk(d) == CHOOSE w : IsWalk(w, d)

LEMMA WalkIs ==
  ASSUME NEW d \in Seq(Byte), NEW i \in 1..(Len(d) + 1)
  PROVE  Walk(d)[i] =
           IF i > Len(d) THEN <<>>
           ELSE IF FieldAt(d, i) = Garbled THEN <<Garbled>>
           ELSE <<FieldAt(d, i).field>> \o Walk(d)[FieldAt(d, i).next]
  <1> DEFINE w == Walk(d)
  <1>1. IsWalk(w, d)
    BY WalkExists DEF Walk
  <1> HIDE DEF w
  <1>2. w[i] = IF i > Len(d) THEN <<>>
               ELSE IF FieldAt(d, i) = Garbled THEN <<Garbled>>
               ELSE <<FieldAt(d, i).field>> \o w[FieldAt(d, i).next]
    BY <1>1 DEF IsWalk
  <1> QED  BY <1>2 DEF w

LEMMA ParseWalks ==
  ASSUME NEW d
  PROVE  parse(d) = IF Walk(d)[1] # <<>> /\ Last(Walk(d)[1]) = Garbled THEN Garbled
                    ELSE Walk(d)[1]
  BY DEF parse, Walk, IsWalk

LEMMA WalkIsTyped ==
  ASSUME NEW d \in Seq(Byte), NEW i \in 1..(Len(d) + 1)
  PROVE  /\ Walk(d)[i] \in Seq(PlainField \cup {Garbled})
         /\ \/ Walk(d)[i] \in Seq(PlainField)
            \/ Walk(d)[i] # <<>> /\ Last(Walk(d)[i]) = Garbled
  <1> DEFINE L == Len(d)
             w == Walk(d)
             D == PlainField
             E == D \cup {Garbled}
             P(j) == \/ w[j] \in Seq(D)
                     \/ w[j] \in Seq(E) /\ w[j] # <<>> /\ Last(w[j]) = Garbled
             T == {n \in Nat : \A j \in 1..(L + 1) : j >= L + 1 - n => P(j)}
  <1>0. L \in Nat
    OBVIOUS
  <1>1. ASSUME NEW j \in 1..(L + 1), \A k \in (j + 1)..(L + 1) : P(k) PROVE P(j)
    <2>1. CASE j > L
      <3>1. w[j] = <<>>
        BY <2>1, WalkIs
      <3> HIDE DEF D, E, w
      <3> QED  BY <3>1
    <2>2. CASE ~(j > L) /\ FieldAt(d, j) = Garbled
      <3>1. w[j] = <<Garbled>>
        BY <2>2, WalkIs
      <3>2. Garbled \in E
        OBVIOUS
      <3>3. <<Garbled>> \in Seq(E) /\ <<Garbled>> # <<>> /\ Last(<<Garbled>>) = Garbled
        <4> HIDE DEF E
        <4> QED  BY <3>2 DEF Last
      <3> HIDE DEF E, D, w
      <3> QED  BY <3>1, <3>3
    <2>3. CASE ~(j > L) /\ FieldAt(d, j) # Garbled
      <3>1. j \in 1..L
        BY <1>0, <2>3
      <3>2. PICK x \in D, n \in (j + 1)..(L + 1) : FieldAt(d, j) = [field |-> x, next |-> n]
        BY <2>3, <3>1, FieldAtIs
      <3> DEFINE u == w[n]
      <3>3. w[j] = <<x>> \o u
        <4>1. FieldAt(d, j).field = x /\ FieldAt(d, j).next = n
          BY <3>2
        <4>2. w[j] = <<FieldAt(d, j).field>> \o w[FieldAt(d, j).next]
          BY <2>3, WalkIs
        <4> HIDE DEF w
        <4> QED  BY <4>1, <4>2
      <3>4. P(n)
        BY <1>1, <3>2
      <3> HIDE DEF w
      <3>5. x \in E /\ x \in D /\ \A s \in Seq(D) : s \in Seq(E)
        <4>1. x \in E /\ x \in D /\ D \subseteq E
          OBVIOUS
        <4> HIDE DEF D, E
        <4> QED  BY <4>1
      <3>6. \/ u \in Seq(D)
            \/ u \in Seq(E) /\ u # <<>> /\ Last(u) = Garbled
        BY <3>4
      <3> HIDE DEF u, D, E
      <3>7. CASE u \in Seq(D)
        <4>1. <<x>> \o u \in Seq(D)
          BY <3>5, <3>7
        <4> QED  BY <3>3, <4>1
      <3>8. CASE u \in Seq(E) /\ u # <<>> /\ Last(u) = Garbled
        <4>1. Len(u) \in Nat /\ Len(u) # 0
          BY <3>8
        <4>2. /\ <<x>> \o u \in Seq(E) /\ Len(<<x>> \o u) = Len(u) + 1
              /\ (<<x>> \o u)[Len(u) + 1] = u[Len(u)]
          BY <3>5, <3>8, <4>1
        <4>3. <<x>> \o u # <<>> /\ Last(<<x>> \o u) = Garbled
          BY <3>8, <4>1, <4>2 DEF Last
        <4> QED  BY <3>3, <4>2, <4>3
      <3> QED  BY <3>6, <3>7, <3>8
    <2> QED  BY <2>1, <2>2, <2>3
  <1> HIDE DEF P
  <1>2. 0 \in T
    <2>1. \A j \in 1..(L + 1) : j >= L + 1 - 0 => (j + 1)..(L + 1) = {}
      BY <1>0
    <2> QED  BY <1>1, <2>1
  <1>3. ASSUME NEW n \in Nat, n \in T PROVE n + 1 \in T
    <2> SUFFICES ASSUME NEW j \in 1..(L + 1), j >= L + 1 - (n + 1) PROVE P(j)
      OBVIOUS
    <2>1. \A k \in (j + 1)..(L + 1) : k \in 1..(L + 1) /\ k >= L + 1 - n
      BY <1>0
    <2> QED  BY <1>1, <1>3, <2>1
  <1> HIDE DEF T
  <1>4. L + 1 \in Nat
    BY <1>0
  <1>5. L + 1 \in T
    BY <1>2, <1>3, <1>4, SetInduction
  <1>6. i >= L + 1 - (L + 1)
    BY <1>0
  <1>7. P(i)
    BY <1>5, <1>6 DEF T
  <1>8. \A s \in Seq(D) : s \in Seq(E)
    <2>1. D \subseteq E
      OBVIOUS
    <2> HIDE DEF D, E
    <2> QED  BY <2>1
  <1> QED  BY <1>7, <1>8 DEF P

LEMMA ParseIsTyped ==
  ASSUME NEW d \in Seq(Byte)
  PROVE  \/ parse(d) = Garbled
         \/ parse(d) \in Seq(PlainField) /\ parse(d) = Walk(d)[1]
  <1>1. 1 \in 1..(Len(d) + 1)
    OBVIOUS
  <1> QED  BY <1>1, WalkIsTyped, ParseWalks

(* The walk over what was written gives the fields, plain.                 *)
WriteOf == [x \in Field |-> Written(x)]
PlainOf == [x \in Field |-> Plain(x)]
Plains(fs) == Image(PlainOf, fs)

Rest(s) == [i \in 1..(Len(s) - 1) |-> s[i + 1]]

LEMMA FirstAndRest ==
  ASSUME NEW S, NEW s, IsList(s, S), s # <<>>
  PROVE  s = <<s[1]>> \o Rest(s) /\ s[1] \in S /\ IsList(Rest(s), S) /\ Len(s) = Len(Rest(s)) + 1
  <1>0. s \in Seq(S) /\ Len(s) \in Nat /\ Len(s) # 0
    BY DEF IsList
  <1> DEFINE n == Len(s) - 1
             r == [i \in 1..n |-> s[i + 1]]
  <1>1. r \in Seq(S) /\ Len(r) = n
    BY <1>0
  <1>2. s[1] \in S
    BY <1>0
  <1>3. s = <<s[1]>> \o r
    BY <1>0
  <1>4. IsList(r, S) /\ Len(s) = Len(r) + 1
    <2> HIDE DEF r
    <2> QED  BY <1>0, <1>1 DEF IsList
  <1> QED  BY <1>2, <1>3, <1>4 DEF Rest

LEMMA BuildIs ==
  ASSUME NEW s \in Seq(Field)
  PROVE  build(s) = FlattenSeq(Image(WriteOf, s))
  <1> DEFINE D == Field
  <1>1. DOMAIN s = 1..Len(s) /\ \A i \in 1..Len(s) : s[i] \in D
    <2> HIDE DEF D
    <2>1. s \in Seq(D)
      BY DEF D
    <2> QED  BY <2>1
  <1>2. \A i \in DOMAIN s : WriteOf[s[i]] = Written(s[i])
    BY <1>1 DEF WriteOf
  <1>3. Image(WriteOf, s) = [i \in DOMAIN s |-> Written(s[i])]
    BY <1>2 DEF Image
  <1> QED  BY <1>3 DEF build

LEMMA WritesBytes == Maps(WriteOf, Field, Seq(Byte))
  BY WrittenIsBytes DEF Maps, WriteOf

LEMMA BuildConcat ==
  ASSUME NEW s \in Seq(Field), NEW t \in Seq(Field)
  PROVE  /\ build(s) \in Seq(Byte) /\ build(t) \in Seq(Byte)
         /\ s \o t \in Seq(Field) /\ build(s \o t) = build(s) \o build(t)
  <1> DEFINE D == Field
             B == Byte
             u == Image(WriteOf, s)
             v == Image(WriteOf, t)
  <1>1. IsList(s, D) /\ IsList(t, D) /\ Maps(WriteOf, D, Seq(B))
    BY WritesBytes DEF IsList
  <1> HIDE DEF D, B
  <1>2. IsList(u, Seq(B)) /\ IsList(v, Seq(B))
    BY <1>1, ImageIs DEF IsImage
  <1>3. Image(WriteOf, s \o t) = u \o v
    BY <1>1, ImageConcat
  <1>4. s \o t \in Seq(D)
    BY <1>1 DEF IsList
  <1>5. build(s) = FlattenSeq(u) /\ build(t) = FlattenSeq(v) /\ build(s \o t) = FlattenSeq(u \o v)
    BY <1>3, <1>4, BuildIs DEF D
  <1> HIDE DEF u, v
  <1>6. u \in Seq(Seq(B)) /\ v \in Seq(Seq(B))
    BY <1>2 DEF IsList
  <1>7. FlattenSeq(u \o v) = FlattenSeq(u) \o FlattenSeq(v)
    BY <1>6, FlatConcat
  <1>8. FlattenSeq(u) \in Seq(B) /\ FlattenSeq(v) \in Seq(B)
    BY <1>6, Flattened
  <1> QED  BY <1>4, <1>5, <1>7, <1>8 DEF D, B

LEMMA BuildOne ==
  ASSUME NEW f \in Field
  PROVE  build(<<f>>) = Written(f) /\ build(<<>>) = <<>> /\ <<f>> \in Seq(Field)
  <1> DEFINE D == Field
             B == Byte
             w == Written(f)
  <1>1. <<f>> \in Seq(D) /\ <<>> \in Seq(D)
    <2>1. f \in D
      OBVIOUS
    <2> HIDE DEF D
    <2> QED  BY <2>1
  <1>2. Image(WriteOf, <<f>>) = <<w>> /\ Image(WriteOf, <<>>) = <<>>
    <2>1. WriteOf[f] = w
      BY DEF WriteOf
    <2> QED  BY <2>1, ImageOne
  <1>3. w \in Seq(B)
    BY WrittenIsBytes
  <1>4. build(<<f>>) = FlattenSeq(<<w>>) /\ build(<<>>) = FlattenSeq(<<>>)
    BY <1>1, <1>2, BuildIs
  <1> HIDE DEF w, B
  <1>5. FlattenSeq(<<w>>) = w
    BY <1>3, FlatOne
  <1>6. FlattenSeq(<<>>) = <<>>
    BY DEF FlattenSeq
  <1> QED  BY <1>1, <1>4, <1>5, <1>6 DEF w

LEMMA WalkBuilt ==
  ASSUME NEW d \in Seq(Byte), NEW s \in Seq(Field), NEW i \in Nat \ {0}, At(d, i, build(s)),
         i + Len(build(s)) = Len(d) + 1
  PROVE  Walk(d)[i] = Plains(s)
  <1> DEFINE D == Field
             L == Len(d)
             P(fs, j) == At(d, j, build(fs)) /\ j + Len(build(fs)) = L + 1
                            => Walk(d)[j] = Plains(fs)
             T == {n \in Nat : \A fs \in Seq(D) : Len(fs) = n => \A j \in Nat \ {0} : P(fs, j)}
  <1>0. L \in Nat
    OBVIOUS
  <1>1. 0 \in T
    <2> SUFFICES ASSUME NEW fs \in Seq(D), Len(fs) = 0, NEW j \in Nat \ {0},
                        j + Len(build(fs)) = L + 1
                 PROVE  Walk(d)[j] = Plains(fs)
      OBVIOUS
    <2>1. fs = <<>>
      <3> HIDE DEF D
      <3> QED  OBVIOUS
    <2>2. build(<<>>) = <<>> /\ Plains(<<>>) = <<>>
      <3>1. DOMAIN <<>> = {}
        OBVIOUS
      <3>2. build(<<>>) = FlattenSeq(<<>>)
        BY <3>1 DEF build
      <3>3. FlattenSeq(<<>>) = <<>>
        BY DEF FlattenSeq
      <3> QED  BY <3>2, <3>3, ImageOne DEF Plains
    <2>3. j = L + 1 /\ j \in 1..(L + 1) /\ j > L
      <3>1. Len(build(fs)) = 0
        BY <2>1, <2>2
      <3> HIDE DEF L
      <3> QED  BY <1>0, <3>1
    <2>4. Walk(d)[j] = <<>>
      BY <2>3, WalkIs
    <2> QED  BY <2>1, <2>2, <2>4
  <1>2. ASSUME NEW n \in Nat, n \in T PROVE n + 1 \in T
    <2> SUFFICES ASSUME NEW fs \in Seq(D), Len(fs) = n + 1, NEW j \in Nat \ {0},
                        At(d, j, build(fs)), j + Len(build(fs)) = L + 1
                 PROVE  Walk(d)[j] = Plains(fs)
      OBVIOUS
    <2>1. PICK x \in D, r \in Seq(D) : fs = <<x>> \o r /\ Len(r) = n
      <3> HIDE DEF D, P, T
      <3>1. IsList(fs, D) /\ fs # <<>> /\ n \in Nat /\ Len(fs) = n + 1
        BY DEF IsList
      <3>2. /\ fs = <<fs[1]>> \o Rest(fs) /\ fs[1] \in D /\ IsList(Rest(fs), D)
            /\ Len(fs) = Len(Rest(fs)) + 1
        BY <3>1, FirstAndRest
      <3>3. Rest(fs) \in Seq(D) /\ Len(Rest(fs)) = n
        BY <3>1, <3>2 DEF IsList
      <3> QED  BY <3>2, <3>3
    <2> DEFINE a == Written(x)
               b == build(r)
               B == Byte
    <2>2. /\ build(fs) = a \o b /\ a \in Seq(B) /\ b \in Seq(B) /\ Len(a) >= 1
          /\ <<x>> \in Seq(D)
      <3>1. build(<<x>>) = a /\ <<x>> \in Seq(D)
        BY BuildOne
      <3>2. build(<<x>> \o r) = build(<<x>>) \o b /\ b \in Seq(B)
        BY <3>1, BuildConcat
      <3>3. a \in Seq(B) /\ Len(a) >= 1
        BY WrittenIsBytes
      <3> QED  BY <2>1, <3>1, <3>2, <3>3
    <2>3. /\ IsList(d, B) /\ IsList(a, B) /\ IsList(b, B)
          /\ Len(build(fs)) = Len(a) + Len(b) /\ Len(a) \in Nat /\ Len(b) \in Nat
      <3>1. d \in Seq(B)
        OBVIOUS
      <3> HIDE DEF a, b, B
      <3> QED  BY <2>2, <3>1 DEF IsList
    <2>4. At(d, j, a) /\ At(d, j + Len(a), b)
      <3>1. At(d, j, a \o b) /\ j \in Nat \ {0}
        BY <2>2
      <3> HIDE DEF a, b, B
      <3> QED  BY <2>3, <3>1, AtConcat
    <2>5. FieldAt(d, j) = [field |-> Plain(x), next |-> j + Len(a)]
      BY <2>4, FieldIsRead
    <2> DEFINE m == j + Len(a)
    <2>6. m \in Nat \ {0} /\ m + Len(b) = L + 1 /\ j \in 1..(L + 1) /\ ~(j > L)
      <3> HIDE DEF a, b, L
      <3> QED  BY <1>0, <2>2, <2>3
    <2>7. Walk(d)[m] = Plains(r)
      <3>1. P(r, m)
        BY <1>2, <2>1, <2>6
      <3> QED  BY <2>4, <2>6, <3>1
    <2>8. FieldAt(d, j) # Garbled
      <3>1. Plain(x) \in Field
        BY PlainIs
      <3>2. [field |-> Plain(x), next |-> m] \in [field : Field, next : Nat]
        <4> HIDE DEF m
        <4> QED  BY <2>6, <3>1
      <3> QED  BY <2>5, <3>2, GarbledIsNothingRead
    <2>9. Walk(d)[j] = <<Plain(x)>> \o Walk(d)[m]
      <3>1. FieldAt(d, j).field = Plain(x) /\ FieldAt(d, j).next = m
        BY <2>5
      <3>2. Walk(d)[j] = <<FieldAt(d, j).field>> \o Walk(d)[FieldAt(d, j).next]
        BY <2>6, <2>8, WalkIs
      <3> HIDE DEF m
      <3> QED  BY <3>1, <3>2
    <2>10. Plains(fs) = <<Plain(x)>> \o Plains(r)
      <3> DEFINE F == PlainOf
                 p == <<x>>
      <3>1. Maps(F, D, D) /\ F[x] = Plain(x)
        BY PlainIs DEF Maps, PlainOf
      <3>2. IsList(p, D) /\ IsList(r, D)
        BY <2>2 DEF IsList
      <3>3. Image(F, <<x>>) = <<F[x]>>
        BY ImageOne
      <3> HIDE DEF F, D, p
      <3>4. Image(F, p \o r) = Image(F, p) \o Image(F, r)
        BY <3>1, <3>2, ImageConcat, SMTT(30)
      <3> QED  BY <2>1, <3>1, <3>3, <3>4 DEF Plains, F, p
    <2> QED  BY <2>7, <2>9, <2>10
  <1> HIDE DEF T, P
  <1>3. Len(s) \in Nat
    OBVIOUS
  <1>4. Len(s) \in T
    BY <1>1, <1>2, <1>3, SetInduction
  <1>5. P(s, i)
    BY <1>4 DEF T
  <1> QED  BY <1>5 DEF P

LEMMA PlainsAre ==
  ASSUME NEW s \in Seq(Field)
  PROVE  /\ Plains(s) \in Seq(PlainField) /\ Len(Plains(s)) = Len(s)
         /\ \A i \in 1..Len(s) : s[i] \in Field /\ Plains(s)[i] = Plain(s[i])
  <1> DEFINE D == Field
             E == PlainField
             F == PlainOf
  <1>1. Maps(F, D, E) /\ \A x \in D : F[x] = Plain(x)
    BY PlainIs DEF Maps, PlainOf, PlainField
  <1>2. IsList(s, D)
    BY DEF IsList
  <1> HIDE DEF D, E, F
  <1>3. IsImage(Image(F, s), F, s, D, E)
    BY <1>1, <1>2, ImageIs
  <1>4. /\ Image(F, s) \in Seq(E) /\ Len(Image(F, s)) = Len(s)
        /\ \A i \in 1..Len(s) : s[i] \in D /\ Image(F, s)[i] = F[s[i]]
    BY <1>3 DEF IsImage, IsList
  <1> QED  BY <1>1, <1>4 DEF Plains, D, E, F

(* parse undoes build (SettingsProtoCodec.kt): every list of fields that   *)
(* is written is read back, as far as build writes it.                     *)
THEOREM CodecRoundTrips ==
  ASSUME NEW s \in Seq(Field)
  PROVE  /\ parse(build(s)) = Plains(s) /\ parse(build(s)) # Garbled
         /\ parse(build(s)) \in Seq(PlainField)
  <1> DEFINE d == build(s)
             B == Byte
  <1>1. d \in Seq(B)
    BY BuildConcat
  <1> HIDE DEF d
  <1>2. At(d, 1, d) /\ 1 + Len(d) = Len(d) + 1
    <2> HIDE DEF B
    <2> QED  BY <1>1, AtSelf
  <1>3. Walk(d)[1] = Plains(s)
    BY <1>1, <1>2, WalkBuilt DEF d
  <1>4. Plains(s) \in Seq(PlainField)
    BY PlainsAre
  <1>5. Plains(s) # <<>> => Last(Plains(s)) \in PlainField
    <2> DEFINE E == PlainField
               p == Plains(s)
    <2>1. p \in Seq(E)
      BY <1>4
    <2> HIDE DEF E, p
    <2>2. p # <<>> => Last(p) \in E
      BY <2>1 DEF Last
    <2> QED  BY <2>2 DEF E, p
  <1>6. Garbled \notin PlainField /\ Garbled \notin Seq(PlainField)
    <2>1. Garbled \notin Field /\ Garbled \notin Seq(Field)
      BY GarbledIsNothingRead
    <2>2. \A q \in Seq(PlainField) : q \in Seq(Field)
      <3> DEFINE E == PlainField
                 D == Field
      <3>1. E \subseteq D
        BY DEF PlainField
      <3> HIDE DEF E, D
      <3>2. \A q \in Seq(E) : q \in Seq(D)
        BY <3>1
      <3> QED  BY <3>2 DEF E, D
    <2> QED  BY <2>1, <2>2 DEF PlainField
  <1>7. parse(d) = Plains(s)
    BY <1>3, <1>5, <1>6, ParseWalks
  <1> QED  BY <1>4, <1>6, <1>7 DEF d

-----------------------------------------------------------------------------
(* The operators on lists of fields, by Image and Kept.                    *)
Others == {x \in Field : x.num # Numbers}
Listed == {x \in Field : x.num = Numbers /\ x.wire = 2}
BytesOf == [x \in Field |-> x.bytes]
Toggled(x) == IF x.num \in {NonContact, SetOnce} THEN [x EXCEPT !.varint = 1] ELSE x
ToggledOf == [x \in Field |-> Toggled(x)]
SettledOf == [x \in Field |-> Plain(Toggled(x))]

LEMMA FieldsOf ==
  ASSUME NEW s \in Seq(Field)
  PROVE  /\ Len(s) \in Nat /\ DOMAIN s = 1..Len(s) /\ \A i \in 1..Len(s) : s[i] \in Field
         /\ IsList(s, Field)
  <1> DEFINE D == Field
  <1>1. s \in Seq(D)
    OBVIOUS
  <1> HIDE DEF D
  <1>2. Len(s) \in Nat /\ DOMAIN s = 1..Len(s) /\ \A i \in 1..Len(s) : s[i] \in D
    BY <1>1
  <1> QED  BY <1>1, <1>2 DEF D, IsList

LEMMA PlainFields == ASSUME NEW s \in Seq(PlainField) PROVE s \in Seq(Field)
  <1> DEFINE E == PlainField
             D == Field
  <1>1. E \subseteq D /\ s \in Seq(E)
    BY DEF PlainField
  <1> HIDE DEF E, D
  <1>2. s \in Seq(D)
    BY <1>1
  <1> QED  BY <1>2 DEF D

LEMMA ClearedIs ==
  ASSUME NEW s \in Seq(Field)
  PROVE  withClearedNumbers(s) = Kept(s, Others)
  <1>1. DOMAIN s = 1..Len(s) /\ \A i \in 1..Len(s) : s[i] \in Field
    BY FieldsOf
  <1>2. \A i \in DOMAIN s : KeepIf(Others)[s[i]] = IF s[i].num # Numbers THEN <<s[i]>> ELSE <<>>
    BY <1>1 DEF KeepIf, Others
  <1>3. Image(KeepIf(Others), s) = [i \in DOMAIN s |-> IF s[i].num # Numbers THEN <<s[i]>> ELSE <<>>]
    BY <1>2 DEF Image
  <1> QED  BY <1>3 DEF withClearedNumbers, filter, Kept

LEMMA SelectedIs ==
  ASSUME NEW s \in Seq(Field)
  PROVE  selectedNumbers(s) = Image(BytesOf, Kept(s, Listed))
  <1> DEFINE k == Kept(s, Listed)
             c == FlattenSeq([i \in DOMAIN s |->
                     IF s[i].num = Numbers /\ s[i].wire = 2 THEN <<s[i]>> ELSE <<>>])
  <1>1. DOMAIN s = 1..Len(s) /\ \A i \in 1..Len(s) : s[i] \in Field
    BY FieldsOf
  <1>2. \A i \in DOMAIN s : KeepIf(Listed)[s[i]]
                 = IF s[i].num = Numbers /\ s[i].wire = 2 THEN <<s[i]>> ELSE <<>>
    BY <1>1 DEF KeepIf, Listed
  <1>3. Image(KeepIf(Listed), s) = [i \in DOMAIN s |->
                 IF s[i].num = Numbers /\ s[i].wire = 2 THEN <<s[i]>> ELSE <<>>]
    BY <1>2 DEF Image
  <1>4. k = c
    BY <1>3 DEF Kept
  <1>5. selectedNumbers(s) = [i \in DOMAIN c |-> c[i].bytes]
    BY DEF selectedNumbers, filter
  <1>6. k \in Seq(Field)
    BY KeptConcat
  <1> HIDE DEF k, c
  <1>7. \A i \in DOMAIN k : BytesOf[k[i]] = k[i].bytes
    <2>1. DOMAIN k = 1..Len(k) /\ \A i \in 1..Len(k) : k[i] \in Field
      BY <1>6, FieldsOf
    <2> QED  BY <2>1 DEF BytesOf
  <1> QED  BY <1>4, <1>5, <1>7 DEF Image, k

LEMMA ToggledIs ==
  ASSUME NEW x \in Field
  PROVE  /\ Toggled(x) \in Field /\ Toggled(x).num = x.num /\ Toggled(x).wire = x.wire
         /\ Toggled(x).bytes = x.bytes
         /\ Toggled(x).varint = IF x.num \in {NonContact, SetOnce} THEN 1 ELSE x.varint
  <1> DEFINE S == Seq(Byte)
  <1>1. Field = [num : Nat, wire : {0, 2}, varint : Nat, bytes : S]
    BY DEF Field
  <1> HIDE DEF S
  <1> QED  BY <1>1 DEF Toggled

LEMMA SettledIs ==
  /\ Maps(SettledOf, Field, Field) /\ Maps(ToggledOf, Field, Field)
  /\ \A x \in Field :
       /\ SettledOf[x] = Plain(Toggled(x)) /\ ToggledOf[x] = Toggled(x)
       /\ SettledOf[x].num = x.num /\ SettledOf[x].wire = x.wire
       /\ SettledOf[x] \in PlainField /\ Written(Toggled(SettledOf[x])) = Written(Toggled(x))
  <1>1. ASSUME NEW x \in Field
        PROVE  /\ Plain(Toggled(x)) \in PlainField /\ Toggled(x) \in Field
               /\ Plain(Toggled(x)).num = x.num /\ Plain(Toggled(x)).wire = x.wire
               /\ Written(Toggled(Plain(Toggled(x)))) = Written(Toggled(x))
    <2> DEFINE y == Toggled(x)
               z == Plain(y)
               w == Toggled(z)
    <2>1. /\ y \in Field /\ y.num = x.num /\ y.wire = x.wire /\ y.bytes = x.bytes
          /\ y.varint = IF x.num \in {NonContact, SetOnce} THEN 1 ELSE x.varint
      BY ToggledIs
    <2> HIDE DEF y
    <2>2. /\ z \in Field /\ z.num = y.num /\ z.wire = y.wire /\ Plain(z) = z
          /\ y.wire = 0 => z.varint = y.varint
          /\ y.wire = 2 => z.bytes = y.bytes
      BY <2>1, PlainIs
    <2> HIDE DEF z
    <2>3. /\ w.num = z.num /\ w.wire = z.wire /\ w.bytes = z.bytes
          /\ w.varint = IF z.num \in {NonContact, SetOnce} THEN 1 ELSE z.varint
      BY <2>2, ToggledIs
    <2> HIDE DEF w
    <2>4. y.wire = 0 \/ y.wire = 2
      BY <2>1, FieldIs
    <2>5. CASE y.wire = 0
      <3>1. w.num = y.num /\ w.wire = y.wire /\ w.varint = y.varint
        BY <2>1, <2>2, <2>3, <2>5
      <3>2. Written(w) = WriteVarint(y.num * 8 + y.wire) \o WriteVarint(y.varint)
        BY <2>5, <3>1 DEF Written
      <3>3. Written(y) = WriteVarint(y.num * 8 + y.wire) \o WriteVarint(y.varint)
        BY <2>5 DEF Written
      <3>4. Written(w) = Written(y)
        BY <3>2, <3>3
      <3> QED  BY <2>1, <2>2, <3>4 DEF y, z, w, PlainField
    <2>6. CASE y.wire = 2
      <3>1. w.num = y.num /\ w.wire = y.wire /\ w.bytes = y.bytes
        BY <2>1, <2>2, <2>3, <2>6
      <3>2. Written(w) = WriteVarint(y.num * 8 + y.wire) \o (WriteVarint(Len(y.bytes)) \o y.bytes)
        BY <2>6, <3>1 DEF Written
      <3>3. Written(y) = WriteVarint(y.num * 8 + y.wire) \o (WriteVarint(Len(y.bytes)) \o y.bytes)
        BY <2>6 DEF Written
      <3>4. Written(w) = Written(y)
        BY <3>2, <3>3
      <3> QED  BY <2>1, <2>2, <3>4 DEF y, z, w, PlainField
    <2> QED  BY <2>4, <2>5, <2>6
  <1> QED  BY <1>1 DEF Maps, SettledOf, ToggledOf, PlainField

LEMMA ImageImage ==
  ASSUME NEW D, NEW E, NEW F, NEW G, NEW H, NEW s, Maps(F, D, E), IsList(s, D),
         \A x \in D : G[F[x]] = H[x]
  PROVE  Image(G, Image(F, s)) = Image(H, s)
  <1>1. s \in Seq(D)
    BY DEF IsList
  <1>2. \A i \in DOMAIN s : s[i] \in D
    BY <1>1
  <1>3. DOMAIN Image(F, s) = DOMAIN s /\ \A i \in DOMAIN s : Image(F, s)[i] = F[s[i]]
    BY DEF Image
  <1> DEFINE u == Image(F, s)
  <1>4. \A i \in DOMAIN u : G[u[i]] = H[s[i]]
    BY <1>2, <1>3
  <1>5. [i \in DOMAIN u |-> G[u[i]]] = [i \in DOMAIN s |-> H[s[i]]]
    BY <1>3, <1>4
  <1> QED  BY <1>5 DEF Image

(* A change of fields that moves none in or out of K can be made before or *)
(* after the choice.                                                       *)
LEMMA KeptImage ==
  ASSUME NEW K, NEW F, NEW s \in Seq(Field), Maps(F, Field, Field),
         \A x \in Field : F[x] \in K <=> x \in K
  PROVE  Kept(Image(F, s), K) = Image(F, Kept(s, K))
  <1> DEFINE D == Field
             P(r) == Kept(Image(F, r), K) = Image(F, Kept(r, K))
             T == {n \in Nat : \A r \in Seq(D) : Len(r) = n => P(r)}
  <1>1. 0 \in T
    <2>1. \A r \in Seq(D) : Len(r) = 0 => r = <<>>
      <3> HIDE DEF D
      <3> QED  OBVIOUS
    <2>2. Image(F, <<>>) = <<>> /\ Image(KeepIf(K), <<>>) = <<>>
      BY ImageOne
    <2>3. Kept(<<>>, K) = <<>>
      BY <2>2 DEF Kept, FlattenSeq
    <2> QED  BY <2>1, <2>2, <2>3
  <1>2. ASSUME NEW n \in Nat, n \in T PROVE n + 1 \in T
    <2> SUFFICES ASSUME NEW r \in Seq(D), Len(r) = n + 1 PROVE P(r)
      OBVIOUS
    <2>1. PICK x \in D, q \in Seq(D) : r = <<x>> \o q /\ Len(q) = n
      <3>1. IsList(r, D)
        BY DEF IsList
      <3> HIDE DEF D, P, T
      <3>2. r # <<>>
        BY DEF IsList
      <3>3. /\ r = <<r[1]>> \o Rest(r) /\ r[1] \in D /\ IsList(Rest(r), D)
            /\ Len(r) = Len(Rest(r)) + 1
        BY <3>1, <3>2, FirstAndRest
      <3>4. Rest(r) \in Seq(D) /\ Len(Rest(r)) = n
        BY <3>3 DEF IsList
      <3> QED  BY <3>3, <3>4
    <2> DEFINE p == <<x>>
               y == F[x]
    <2>2. p \in Seq(D) /\ y \in D /\ <<y>> \in Seq(D) /\ Image(F, q) \in Seq(D)
      <3>1. IsList(q, D) /\ Maps(F, D, D)
        BY DEF IsList
      <3>2. \A z \in D : <<z>> \in Seq(D)
        <4> HIDE DEF D
        <4> QED  OBVIOUS
      <3> HIDE DEF D, P
      <3>3. IsImage(Image(F, q), F, q, D, D)
        BY <3>1, ImageIs
      <3>4. Image(F, q) \in Seq(D)
        BY <3>3 DEF IsImage, IsList
      <3> QED  BY <3>1, <3>2, <3>4 DEF Maps
    <2>3. Image(F, r) = <<y>> \o Image(F, q)
      <3>1. IsList(p, D) /\ IsList(q, D) /\ Maps(F, D, D)
        BY <2>2 DEF IsList
      <3>2. Image(F, p) = <<y>>
        BY ImageOne
      <3> HIDE DEF D, P, p, y
      <3>3. Image(F, p \o q) = Image(F, p) \o Image(F, q)
        BY <3>1, ImageConcat
      <3> QED  BY <2>1, <3>2, <3>3 DEF p
    <2>4. /\ Kept(Image(F, r), K) = Kept(<<y>>, K) \o Kept(Image(F, q), K)
          /\ Kept(r, K) = Kept(p, K) \o Kept(q, K)
          /\ Kept(p, K) \in Seq(D) /\ Kept(q, K) \in Seq(D)
      <3> DEFINE z == <<y>>
                 u == Image(F, q)
      <3>1. z \in Seq(Field) /\ u \in Seq(Field) /\ p \in Seq(Field) /\ q \in Seq(Field)
        BY <2>2
      <3> HIDE DEF z, u, p, y, P
      <3>2. Kept(z \o u, K) = Kept(z, K) \o Kept(u, K)
        BY <3>1, KeptConcat
      <3>3. Kept(p \o q, K) = Kept(p, K) \o Kept(q, K) /\ Kept(p, K) \in Seq(D) /\ Kept(q, K) \in Seq(D)
        BY <3>1, KeptConcat
      <3> QED  BY <2>1, <2>3, <3>2, <3>3 DEF z, u, p
    <2>5. Image(F, Kept(r, K)) = Image(F, Kept(p, K)) \o Image(F, Kept(q, K))
      <3> DEFINE a == Kept(p, K)
                 b == Kept(q, K)
      <3>1. IsList(a, D) /\ IsList(b, D) /\ Maps(F, D, D)
        BY <2>4 DEF IsList
      <3> HIDE DEF D, P, a, b, p
      <3>2. Image(F, a \o b) = Image(F, a) \o Image(F, b)
        BY <3>1, ImageConcat
      <3> QED  BY <2>4, <3>2 DEF a, b
    <2>6. Kept(<<y>>, K) = Image(F, Kept(p, K))
      <3>1. Kept(<<y>>, K) = IF y \in K THEN <<y>> ELSE <<>>
        BY <2>2, KeptOne
      <3>2. Kept(p, K) = IF x \in K THEN <<x>> ELSE <<>>
        BY KeptOne
      <3>3. Image(F, <<x>>) = <<y>> /\ Image(F, <<>>) = <<>>
        BY ImageOne
      <3>4. y \in K <=> x \in K
        OBVIOUS
      <3> HIDE DEF P, p, y
      <3> QED  BY <3>1, <3>2, <3>3, <3>4
    <2>7. P(q)
      BY <1>2, <2>1
    <2> HIDE DEF p, y
    <2> QED  BY <2>4, <2>5, <2>6, <2>7
  <1> HIDE DEF T, P
  <1>3. Len(s) \in Nat
    OBVIOUS
  <1>4. Len(s) \in T
    BY <1>1, <1>2, <1>3, SetInduction
  <1> QED  BY <1>4 DEF T, P

-----------------------------------------------------------------------------
(* Where withSelectedNumbers puts the numbers.                             *)
Place(fields) ==
    LET olds == {i \in DOMAIN fields : fields[i].num = Numbers}
    IN IF olds # {} THEN Min(olds) - 1
       ELSE Cardinality({i \in DOMAIN fields : fields[i].num <= Numbers})
Before(fields) == SubSeq(Kept(fields, Others), 1, Place(fields))
After(fields)  == SubSeq(Kept(fields, Others), Place(fields) + 1, Len(Kept(fields, Others)))
NumberFields(nums) == [i \in DOMAIN nums |-> Bytes(Numbers, nums[i])]

LEMMA SplitAt ==
  ASSUME NEW S, NEW s, IsList(s, S), NEW k \in 0..Len(s)
  PROVE  /\ IsList(SubSeq(s, 1, k), S) /\ IsList(SubSeq(s, k + 1, Len(s)), S)
         /\ s = SubSeq(s, 1, k) \o SubSeq(s, k + 1, Len(s)) /\ Len(SubSeq(s, 1, k)) = k
  <1>1. s \in Seq(S) /\ Len(s) \in Nat /\ k \in Nat /\ k <= Len(s)
    BY DEF IsList
  <1> DEFINE a == SubSeq(s, 1, k)
             b == SubSeq(s, k + 1, Len(s))
  <1>2. /\ a \in Seq(S) /\ Len(a) = k /\ \A i \in 1..k : a[i] = s[i]
    BY <1>1
  <1>3. /\ b \in Seq(S) /\ Len(b) = Len(s) - k /\ \A i \in 1..(Len(s) - k) : b[i] = s[k + i]
    BY <1>1
  <1> HIDE DEF a, b
  <1>4. IsList(a \o b, S) /\ Len(a \o b) = Len(s)
    BY <1>1, <1>2, <1>3 DEF IsList
  <1>5. ASSUME NEW i \in 1..Len(s) PROVE s[i] = (a \o b)[i]
    <2>1. CASE i \in 1..k
      BY <1>2, <1>3, <2>1
    <2>2. CASE i \notin 1..k
      <3>1. i - k \in 1..(Len(s) - k) /\ k + (i - k) = i
        BY <1>1, <2>2
      <3>2. (a \o b)[i] = b[i - k]
        BY <1>1, <1>2, <1>3, <2>2
      <3>3. b[i - k] = s[k + (i - k)]
        BY <1>3, <3>1
      <3> QED  BY <3>1, <3>2, <3>3
    <2> QED  BY <2>1, <2>2
  <1>6. s = a \o b
    BY <1>4, <1>5, SameSeq
  <1> QED  BY <1>2, <1>3, <1>6 DEF IsList, a, b

LEMMA PlaceIs ==
  ASSUME NEW s \in Seq(Field)
  PROVE  Place(s) \in 0..Len(Kept(s, Others))
  <1> DEFINE D == Field
             L == Len(s)
             olds == {i \in DOMAIN s : s[i].num = Numbers}
  <1>1. L \in Nat /\ DOMAIN s = 1..L /\ (\A i \in 1..L : s[i] \in Field) /\ IsList(s, D)
    BY FieldsOf
  <1>2. \A i \in 1..L : s[i].num \in Nat
    BY <1>1, FieldIs
  <1>3. CASE olds = {}
    <2> DEFINE J == {i \in DOMAIN s : s[i].num <= Numbers}
    <2>1. Place(s) = Cardinality(J)
      BY <1>3 DEF Place
    <2>2. \A i \in 1..L : s[i] \in Others
      BY <1>1, <1>3 DEF Others
    <2>3. Kept(s, Others) = s
      BY <2>2, KeptAllOrNone
    <2>4. IsFiniteSet(1..L) /\ Cardinality(1..L) = L
      <3>1. \A k \in Nat : IsFiniteSet(1..k) /\ Cardinality(1..k) = k
        BY FS_Interval
      <3> HIDE DEF L
      <3> QED  BY <1>1, <3>1
    <2>5. IsFiniteSet(J) /\ Cardinality(J) <= L /\ Cardinality(J) \in Nat
      <3>1. J \subseteq 1..L
        BY <1>1
      <3> HIDE DEF J
      <3> QED  BY <2>4, <3>1, FS_Subset, FS_CardinalityType
    <2> HIDE DEF J
    <2> QED  BY <1>1, <2>1, <2>3, <2>5
  <1>4. CASE olds # {}
    <2> DEFINE m == Min(olds)
               k == m - 1
               a == SubSeq(s, 1, k)
               b == SubSeq(s, k + 1, L)
    <2>1. m \in olds /\ \A i \in olds : m <= i
      <3>1. olds \subseteq Nat
        BY <1>1
      <3> HIDE DEF olds
      <3> QED  BY <1>4, <3>1, LeastOf
    <2> HIDE DEF m
    <2>2. k \in 0..L /\ k \in Nat /\ \A i \in 1..k : i \in 1..L /\ s[i].num # Numbers
      <3>1. m \in 1..L
        BY <1>1, <2>1
      <3>2. \A i \in 1..k : i \in 1..L /\ ~(m <= i)
        BY <1>1, <3>1
      <3> QED  BY <1>1, <2>1, <3>1, <3>2
    <2>3. Place(s) = k
      BY <1>4 DEF Place, m
    <2> HIDE DEF k
    <2>4. a \in Seq(D) /\ b \in Seq(D) /\ s = a \o b /\ Len(a) = k
      <3> HIDE DEF D
      <3>1. IsList(a, D) /\ IsList(b, D) /\ s = a \o b /\ Len(a) = k
        BY <1>1, <2>2, SplitAt
      <3> QED  BY <3>1 DEF IsList
    <2>5. \A i \in 1..k : a[i] \in Others
      <3>1. \A i \in 1..k : a[i] = s[i]
        <4> HIDE DEF a, b, D
        <4> QED  BY <2>2, <2>4
      <3> QED  BY <1>1, <2>2, <3>1 DEF Others
    <2> HIDE DEF a, b
    <2>6. Kept(a, Others) = a
      BY <2>4, <2>5, KeptAllOrNone
    <2>7. Kept(s, Others) = a \o Kept(b, Others) /\ Kept(b, Others) \in Seq(D)
      <3>1. a \in Seq(Field) /\ b \in Seq(Field)
        BY <2>4
      <3>2. /\ Kept(b, Others) \in Seq(Field)
            /\ Kept(a \o b, Others) = Kept(a, Others) \o Kept(b, Others)
        BY <3>1, KeptConcat
      <3> QED  BY <2>4, <2>6, <3>2
    <2>8. Len(Kept(s, Others)) \in Nat /\ Len(Kept(s, Others)) >= k
      <3> DEFINE c == Kept(b, Others)
      <3>1. c \in Seq(D) /\ a \in Seq(D)
        BY <2>4, <2>7
      <3> HIDE DEF c, D
      <3>2. Len(a \o c) \in Nat /\ Len(a \o c) >= Len(a)
        BY <3>1
      <3> QED  BY <2>4, <2>7, <3>2 DEF c
    <2> QED  BY <2>2, <2>3, <2>8
  <1> QED  BY <1>3, <1>4

(* Fields with other numbers, and nothing else.                            *)
AllOther(s) == s \in Seq(Field) /\ \A i \in 1..Len(s) : s[i] \in Others

LEMMA KeptOther ==
  ASSUME NEW s \in Seq(Field)
  PROVE  AllOther(Kept(s, Others))
  <1> DEFINE k == Kept(s, Others)
  <1>1. k \in Seq(Field)
    BY KeptConcat
  <1>2. Range(k) = Range(s) \cap Others
    BY KeptAreKept
  <1>3. DOMAIN k = 1..Len(k)
    BY <1>1, FieldsOf
  <1> HIDE DEF k
  <1>4. \A i \in 1..Len(k) : k[i] \in Range(k)
    BY <1>3 DEF Range
  <1> QED  BY <1>1, <1>2, <1>4 DEF AllOther, k

LEMMA OtherIs ==
  ASSUME NEW s, AllOther(s)
  PROVE  s \in Seq(Field) /\ Kept(s, Others) = s /\ Kept(s, Listed) = <<>>
  <1>1. \A i \in 1..Len(s) : s[i] \in Others /\ s[i] \notin Listed
    BY DEF AllOther, Others, Listed
  <1> QED  BY <1>1, KeptAllOrNone DEF AllOther

LEMMA NumberFieldsAre ==
  ASSUME NEW nums \in Seq(Seq(Byte))
  PROVE  LET N == NumberFields(nums)
         IN /\ N \in Seq(Field) /\ Len(N) = Len(nums) /\ Len(nums) \in Nat
            /\ \A i \in 1..Len(nums) : /\ N[i] = Bytes(Numbers, nums[i]) /\ N[i] \in Listed
                                       /\ N[i].num = Numbers /\ N[i] \in PlainField
            /\ Kept(N, Others) = <<>> /\ Kept(N, Listed) = N
  <1> DEFINE B == Seq(Byte)
             D == Field
             N == NumberFields(nums)
             L == Len(nums)
  <1>1. L \in Nat /\ DOMAIN nums = 1..L /\ \A i \in 1..L : nums[i] \in B
    <2>1. nums \in Seq(B)
      OBVIOUS
    <2> HIDE DEF B
    <2> QED  BY <2>1
  <1>2. \A b \in B : /\ Bytes(Numbers, b) \in D /\ Bytes(Numbers, b) \in Listed
                     /\ Bytes(Numbers, b).num = Numbers /\ Bytes(Numbers, b) \in PlainField
    <2>1. D = [num : Nat, wire : {0, 2}, varint : Nat, bytes : B]
      BY DEF Field
    <2> HIDE DEF B, D
    <2>2. \A b \in B : /\ Bytes(Numbers, b) \in D /\ Bytes(Numbers, b).num = Numbers
                       /\ Bytes(Numbers, b).wire = 2
                       /\ Plain(Bytes(Numbers, b)) = Bytes(Numbers, b)
      BY <2>1 DEF Bytes, Numbers, Plain
    <2> QED  BY <2>2 DEF Listed, PlainField, D
  <1>3. N = [i \in 1..L |-> Bytes(Numbers, nums[i])]
    BY <1>1 DEF NumberFields
  <1>4. \A i \in 1..L : /\ N[i] = Bytes(Numbers, nums[i]) /\ N[i] \in Listed
                        /\ N[i].num = Numbers /\ N[i] \in PlainField /\ N[i] \in D
    BY <1>1, <1>2, <1>3
  <1>5. N \in Seq(D) /\ Len(N) = L
    <2>1. \A i \in 1..L : Bytes(Numbers, nums[i]) \in D
      BY <1>1, <1>2
    <2> HIDE DEF D, N, L
    <2> QED  BY <1>1, <1>3, <2>1
  <1> HIDE DEF N
  <1>6. \A i \in 1..Len(N) : N[i] \in Listed /\ N[i] \notin Others
    BY <1>4, <1>5 DEF Others
  <1>7. Kept(N, Others) = <<>> /\ Kept(N, Listed) = N
    BY <1>5, <1>6, KeptAllOrNone
  <1> QED  BY <1>1, <1>4, <1>5, <1>7 DEF N

LEMMA InsertIs ==
  ASSUME NEW s \in Seq(Field), NEW nums
  PROVE  /\ withSelectedNumbers(s, nums) = (Before(s) \o NumberFields(nums)) \o After(s)
         /\ Kept(s, Others) = Before(s) \o After(s)
         /\ AllOther(Before(s)) /\ AllOther(After(s))
  <1> DEFINE D == Others
             k == Kept(s, Others)
             p == Place(s)
  <1>1. withSelectedNumbers(s, nums) = (Before(s) \o NumberFields(nums)) \o After(s)
    <2>1. withClearedNumbers(s) = k
      BY ClearedIs
    <2> QED  BY <2>1 DEF withSelectedNumbers, Before, After, NumberFields, Place
  <1>2. IsList(k, D)
    <2>1. k \in Seq(Field) /\ \A i \in 1..Len(k) : k[i] \in D
      BY KeptOther DEF AllOther
    <2>2. Len(k) \in Nat /\ k = [i \in 1..Len(k) |-> k[i]]
      <3> DEFINE F == Field
      <3>1. k \in Seq(F)
        BY <2>1
      <3> HIDE DEF F, k
      <3> QED  BY <3>1
    <2> HIDE DEF D, k
    <2> QED  BY <2>1, <2>2 DEF IsList
  <1>3. p \in 0..Len(k)
    BY PlaceIs
  <1>4. /\ IsList(Before(s), D) /\ IsList(After(s), D) /\ k = Before(s) \o After(s)
    <2> HIDE DEF D, k, p
    <2>1. /\ IsList(SubSeq(k, 1, p), D) /\ IsList(SubSeq(k, p + 1, Len(k)), D)
          /\ k = SubSeq(k, 1, p) \o SubSeq(k, p + 1, Len(k))
      BY <1>2, <1>3, SplitAt
    <2> QED  BY <2>1 DEF Before, After, k, p
  <1>5. ASSUME NEW t, IsList(t, D) PROVE AllOther(t)
    <2> DEFINE F == Field
    <2>1. D \subseteq F
      BY DEF Others
    <2> HIDE DEF D, F
    <2>2. t \in Seq(F) /\ \A i \in 1..Len(t) : t[i] \in D
      BY <1>5, <2>1 DEF IsList
    <2> QED  BY <2>2 DEF AllOther, F, D
  <1> QED  BY <1>1, <1>4, <1>5

LEMMA KeptThree ==
  ASSUME NEW K, NEW a \in Seq(Field), NEW b \in Seq(Field), NEW c \in Seq(Field)
  PROVE  /\ (a \o b) \o c \in Seq(Field)
         /\ Kept((a \o b) \o c, K) = (Kept(a, K) \o Kept(b, K)) \o Kept(c, K)
  <1> DEFINE s == a \o b
  <1>1. s \in Seq(Field) /\ Kept(s, K) = Kept(a, K) \o Kept(b, K)
    BY KeptConcat, BuildConcat
  <1> HIDE DEF s
  <1>2. s \o c \in Seq(Field) /\ Kept(s \o c, K) = Kept(s, K) \o Kept(c, K)
    BY <1>1, KeptConcat, BuildConcat
  <1> QED  BY <1>1, <1>2 DEF s

(* Numbers that are where withSelectedNumbers puts them stay there.        *)
LEMMA InsertAgain ==
  ASSUME NEW a, NEW c, AllOther(a), AllOther(c), NEW nums \in Seq(Seq(Byte))
  PROVE  LET h == (a \o NumberFields(nums)) \o c
         IN withSelectedNumbers(h, nums) = h
  <1> DEFINE D == Field
             N == NumberFields(nums)
             h == (a \o N) \o c
             k == Kept(h, Others)
             p == Place(h)
  <1>1. a \in Seq(D) /\ c \in Seq(D) /\ N \in Seq(D) /\ h \in Seq(D)
        /\ Kept(a, Others) = a /\ Kept(c, Others) = c /\ Kept(N, Others) = <<>>
    <2>1. a \in Seq(D) /\ c \in Seq(D) /\ Kept(a, Others) = a /\ Kept(c, Others) = c
      BY OtherIs
    <2>2. N \in Seq(D) /\ Kept(N, Others) = <<>>
      BY NumberFieldsAre
    <2>3. h \in Seq(D)
      BY <2>1, <2>2, KeptThree
    <2> QED  BY <2>1, <2>2, <2>3
  <1>2. k = a \o c
    <2>1. k = (a \o <<>>) \o c
      <3>1. a \in Seq(Field) /\ N \in Seq(Field) /\ c \in Seq(Field)
        BY <1>1
      <3> HIDE DEF N
      <3>2. Kept((a \o N) \o c, Others) = (Kept(a, Others) \o Kept(N, Others)) \o Kept(c, Others)
        BY <3>1, KeptThree, SMTT(30)
      <3> QED  BY <1>1, <3>2
    <2>2. a \o <<>> = a
      <3> HIDE DEF D, N, h, k
      <3> QED  BY <1>1
    <2> QED  BY <2>1, <2>2
  <1>3. withSelectedNumbers(h, nums) = (SubSeq(k, 1, p) \o N) \o SubSeq(k, p + 1, Len(k))
    BY <1>1, InsertIs DEF Before, After
  <1>4. p \in 0..Len(k)
    BY <1>1, PlaceIs
  <1>5. p = IF {i \in DOMAIN h : h[i].num = Numbers} # {}
            THEN Min({i \in DOMAIN h : h[i].num = Numbers}) - 1
            ELSE Cardinality({i \in DOMAIN h : h[i].num <= Numbers})
    BY DEF Place
  <1> DEFINE I == {i \in DOMAIN h : h[i].num = Numbers}
  <1>6. CASE Len(N) = 0
    <2> HIDE DEF D, N, k, p
    <2>1. N = <<>> /\ h = a \o c
      BY <1>1, <1>6
    <2>2. SubSeq(k, 1, p) \in Seq(D) /\ k = SubSeq(k, 1, p) \o SubSeq(k, p + 1, Len(k))
      <3>1. IsList(k, D)
        BY <1>1, <1>2 DEF IsList
      <3> QED  BY <1>4, <3>1, SplitAt DEF IsList
    <2> DEFINE u == SubSeq(k, 1, p)
    <2>3. u \o <<>> = u
      <3> HIDE DEF u
      <3>1. u \in Seq(D)
        BY <2>2 DEF u
      <3> QED  BY <3>1
    <2> QED  BY <1>2, <1>3, <2>1, <2>2, <2>3 DEF N
  <1>7. CASE Len(N) # 0
    <2>1. /\ Len(a) \in Nat /\ Len(N) \in Nat /\ DOMAIN h = 1..Len(h)
          /\ Len(h) = Len(a) + Len(N) + Len(c) /\ Len(c) \in Nat
          /\ \A i \in 1..Len(a) : h[i] = a[i]
          /\ h[Len(a) + 1] = N[1]
      <3> HIDE DEF D, N
      <3> QED  BY <1>1, <1>7
    <2>2. N[1].num = Numbers
      <3>1. Len(N) = Len(nums) /\ 1 \in 1..Len(nums)
        <4>1. Len(N) = Len(nums) /\ Len(nums) \in Nat
          BY NumberFieldsAre
        <4> HIDE DEF N
        <4> QED  BY <1>7, <4>1
      <3> QED  BY <3>1, NumberFieldsAre
    <2>3. \A i \in 1..Len(a) : a[i].num # Numbers
      BY DEF AllOther, Others
    <2> HIDE DEF N, h, k, p, D
    <2>4. /\ Len(a) + 1 \in I /\ I \subseteq Nat
          /\ \A i \in I : ~(i <= Len(a))
      <3>1. Len(a) + 1 \in 1..Len(h) /\ \A i \in 1..Len(h) : i <= Len(a) => i \in 1..Len(a)
        BY <1>7, <2>1
      <3> QED  BY <2>1, <2>2, <2>3, <3>1
    <2>5. p = Len(a)
      <3> HIDE DEF I
      <3>1. Min(I) \in I /\ \A i \in I : Min(I) <= i
        BY <2>4, LeastOf
      <3>2. I # {} /\ Min(I) \in Nat
        BY <2>4, <3>1
      <3>3. Min(I) = Len(a) + 1
        BY <2>1, <2>4, <3>1, <3>2
      <3> QED  BY <1>5, <2>1, <3>2, <3>3 DEF I
    <2>6. SubSeq(k, 1, p) = a /\ SubSeq(k, p + 1, Len(k)) = c
      <3>1. k \in Seq(D) /\ Len(k) = Len(a) + Len(c) /\ p \in Nat /\ p <= Len(k)
        BY <1>1, <1>2, <2>1, <2>5
      <3>2. (\A i \in 1..Len(a) : k[i] = a[i]) /\ (\A i \in 1..Len(c) : k[Len(a) + i] = c[i])
        BY <1>1, <1>2
      <3> DEFINE u == SubSeq(k, 1, p)
                 v == SubSeq(k, p + 1, Len(k))
      <3>3. u \in Seq(D) /\ Len(u) = Len(a) /\ \A i \in 1..Len(u) : u[i] = a[i]
        BY <2>1, <2>5, <3>1, <3>2
      <3>4. v \in Seq(D) /\ Len(v) = Len(c) /\ \A i \in 1..Len(v) : v[i] = c[i]
        BY <2>1, <2>5, <3>1, <3>2
      <3> HIDE DEF u, v
      <3>5. IsList(u, D) /\ IsList(v, D) /\ IsList(a, D) /\ IsList(c, D)
        BY <1>1, <3>3, <3>4 DEF IsList
      <3>6. u = a /\ v = c
        BY <3>3, <3>4, <3>5, SameSeq
      <3> QED  BY <3>6 DEF u, v
    <2>7. withSelectedNumbers(h, nums) = (a \o N) \o c
      BY <1>3, <2>6
    <2> QED  BY <2>7 DEF h, N
  <1> QED  BY <1>6, <1>7

LEMMA SettledPlain ==
  ASSUME NEW x \in PlainField
  PROVE  /\ x.wire = 2 => SettledOf[x] = x
         /\ \/ SettledOf[x] = x
            \/ /\ x.num \in {NonContact, SetOnce}
               /\ SettledOf[x] = [x EXCEPT !.varint = 1]
  <1> DEFINE S == Seq(Byte)
  <1>1. Field = [num : Nat, wire : {0, 2}, varint : Nat, bytes : S] /\ x \in Field /\ Plain(x) = x
    BY DEF Field, PlainField
  <1>2. SettledOf[x] = Plain(Toggled(x))
    BY <1>1, SettledIs
  <1> HIDE DEF S
  <1>3. CASE x.num \notin {NonContact, SetOnce}
    BY <1>1, <1>2, <1>3 DEF Toggled
  <1>4. CASE x.num \in {NonContact, SetOnce}
    <2> DEFINE y == [x EXCEPT !.varint = 1]
    <2>1. /\ SettledOf[x] = Plain(y)
          /\ y.num = x.num /\ y.wire = x.wire /\ y.varint = 1 /\ y.bytes = x.bytes
      BY <1>1, <1>2, <1>4 DEF Toggled
    <2>2. CASE x.wire = 2
      <3>1. Plain(y) = Bytes(x.num, x.bytes) /\ Plain(x) = Bytes(x.num, x.bytes)
        BY <2>1, <2>2 DEF Plain
      <3> QED  BY <1>1, <2>1, <3>1
    <2>3. CASE x.wire = 0
      <3>1. Plain(y) = Varint(x.num, 1) /\ x = Varint(x.num, x.varint)
        BY <1>1, <2>1, <2>3 DEF Plain
      <3>2. y = Varint(x.num, 1)
        BY <1>1, <3>1 DEF Varint
      <3> QED  BY <1>4, <2>1, <2>3, <3>1, <3>2
    <2> QED  BY <1>1, <2>2, <2>3
  <1> QED  BY <1>3, <1>4

LEMMA SettledOther ==
  ASSUME NEW s, AllOther(s)
  PROVE  AllOther(Image(SettledOf, s))
  <1> DEFINE D == Field
             F == SettledOf
             u == Image(F, s)
  <1>1. IsList(s, D) /\ Maps(F, D, D)
    BY SettledIs DEF AllOther, IsList
  <1>2. \A i \in 1..Len(s) : s[i] \in D /\ s[i].num # Numbers
    BY DEF AllOther, Others
  <1>3. \A x \in D : F[x] \in D /\ F[x].num = x.num
    BY SettledIs DEF PlainField
  <1> HIDE DEF F, D
  <1>4. IsImage(u, F, s, D, D)
    BY <1>1, ImageIs
  <1> HIDE DEF u
  <1>5. u \in Seq(D) /\ Len(u) = Len(s) /\ \A i \in 1..Len(s) : u[i] = F[s[i]]
    BY <1>4 DEF IsImage, IsList
  <1>6. \A i \in 1..Len(u) : u[i] \in D /\ u[i].num # Numbers
    BY <1>2, <1>3, <1>5
  <1> QED  BY <1>5, <1>6 DEF AllOther, Others, D, u, F

LEMMA SettledNumbers ==
  ASSUME NEW nums \in Seq(Seq(Byte))
  PROVE  Image(SettledOf, NumberFields(nums)) = NumberFields(nums)
  <1> DEFINE N == NumberFields(nums)
             F == SettledOf
  <1>1. N \in Seq(Field) /\ Len(N) = Len(nums) /\ Len(nums) \in Nat
        /\ \A i \in 1..Len(nums) : N[i] \in Listed /\ N[i] \in PlainField
    BY NumberFieldsAre
  <1> HIDE DEF N
  <1>2. \A i \in 1..Len(N) : F[N[i]] = N[i]
    BY <1>1, SettledPlain DEF Listed
  <1>3. DOMAIN N = 1..Len(N)
    BY <1>1, FieldsOf
  <1>4. N = [i \in DOMAIN N |-> N[i]]
    <2> DEFINE D == Field
    <2>1. N \in Seq(D)
      BY <1>1
    <2> HIDE DEF D
    <2> QED  BY <2>1
  <1> QED  BY <1>2, <1>3, <1>4 DEF Image, N

(* The bytes of a sync, and what is read of them.                          *)
Merged(fs, nums) == (Before(fs) \o NumberFields(nums)) \o After(fs)

LEMMA TogglesOnIs == ASSUME NEW s \in Seq(Field) PROVE withTogglesOn(s) = Image(ToggledOf, s)
  <1>1. DOMAIN s = 1..Len(s) /\ \A i \in 1..Len(s) : s[i] \in Field
    BY FieldsOf
  <1>2. \A i \in DOMAIN s : ToggledOf[s[i]] = Toggled(s[i])
    BY <1>1 DEF ToggledOf
  <1>3. Image(ToggledOf, s) = [i \in DOMAIN s |-> Toggled(s[i])]
    BY <1>2 DEF Image
  <1> QED  BY <1>3 DEF withTogglesOn, Toggled

LEMMA MergedIs ==
  ASSUME NEW fs \in Seq(Field), NEW nums \in Seq(Seq(Byte))
  PROVE  /\ Merged(fs, nums) \in Seq(Field) /\ withSelectedNumbers(fs, nums) = Merged(fs, nums)
         /\ Kept(Merged(fs, nums), Others) = Kept(fs, Others)
         /\ Kept(Merged(fs, nums), Listed) = NumberFields(nums)
  <1> DEFINE D == Field
             a == Before(fs)
             c == After(fs)
             N == NumberFields(nums)
  <1>1. AllOther(a) /\ AllOther(c) /\ Kept(fs, Others) = a \o c
        /\ withSelectedNumbers(fs, nums) = (a \o N) \o c
    BY InsertIs
  <1> HIDE DEF a, c
  <1>2. a \in Seq(D) /\ Kept(a, Others) = a /\ Kept(a, Listed) = <<>>
    BY <1>1, OtherIs
  <1>3. c \in Seq(D) /\ Kept(c, Others) = c /\ Kept(c, Listed) = <<>>
    BY <1>1, OtherIs
  <1>4. N \in Seq(D) /\ Kept(N, Others) = <<>> /\ Kept(N, Listed) = N
    BY NumberFieldsAre
  <1> HIDE DEF N
  <1>5. /\ (a \o N) \o c \in Seq(Field)
        /\ Kept((a \o N) \o c, Others) = (a \o <<>>) \o c
        /\ Kept((a \o N) \o c, Listed) = (<<>> \o N) \o <<>>
    <2>1. a \in Seq(Field) /\ N \in Seq(Field) /\ c \in Seq(Field)
      BY <1>2, <1>3, <1>4
    <2>2. /\ (a \o N) \o c \in Seq(Field)
          /\ Kept((a \o N) \o c, Others) = (Kept(a, Others) \o Kept(N, Others)) \o Kept(c, Others)
      BY <2>1, KeptThree, ZenonT(30)
    <2>3. Kept((a \o N) \o c, Listed) = (Kept(a, Listed) \o Kept(N, Listed)) \o Kept(c, Listed)
      BY <2>1, KeptThree, ZenonT(30)
    <2> QED  BY <1>2, <1>3, <1>4, <2>2, <2>3
  <1> HIDE DEF D
  <1>6. a \o <<>> = a /\ (<<>> \o N) \o <<>> = N
    BY <1>2, <1>4
  <1> QED  BY <1>1, <1>5, <1>6 DEF Merged, a, c, N

LEMMA MergedSettled ==
  ASSUME NEW fs \in Seq(Field), NEW nums \in Seq(Seq(Byte))
  PROVE  Image(SettledOf, Merged(fs, nums))
           = (Image(SettledOf, Before(fs)) \o NumberFields(nums)) \o Image(SettledOf, After(fs))
  <1> DEFINE D == Field
             F == SettledOf
             a == Before(fs)
             c == After(fs)
             N == NumberFields(nums)
  <1>1. AllOther(a) /\ AllOther(c)
    BY InsertIs
  <1>2. IsList(a, D) /\ IsList(c, D)
    BY <1>1 DEF AllOther, IsList
  <1>3. IsList(N, D) /\ Image(F, N) = N
    BY NumberFieldsAre, SettledNumbers DEF IsList
  <1>4. Maps(F, D, D)
    BY SettledIs
  <1> HIDE DEF D, F, a, c, N
  <1>5. Image(F, a \o N) = Image(F, a) \o Image(F, N) /\ IsList(a \o N, D)
    <2>1. Image(F, a \o N) = Image(F, a) \o Image(F, N)
      BY <1>2, <1>3, <1>4, ImageConcat
    <2> QED  BY <1>2, <1>3, <2>1 DEF IsList
  <1> DEFINE s == a \o N
  <1>6. Image(F, s \o c) = Image(F, s) \o Image(F, c)
    <2>1. IsList(s, D)
      BY <1>5
    <2> HIDE DEF s
    <2> QED  BY <1>2, <1>4, <2>1, ImageConcat
  <1> QED  BY <1>3, <1>5, <1>6 DEF Merged, F, a, c, N

LEMMA SyncReads ==
  ASSUME NEW f \in Seq(Byte), parse(f) # Garbled, NEW nums \in Seq(Seq(Byte))
  PROVE  LET m == Merged(parse(f), nums)
         IN /\ parse(f) \in Seq(PlainField) /\ parse(f) \in Seq(Field)
            /\ computeTarget(f, nums) = build(Image(ToggledOf, m))
            /\ computeTarget(f, nums) \in Seq(Byte)
            /\ parse(computeTarget(f, nums)) = Image(SettledOf, m)
            /\ parse(computeTarget(f, nums)) # Garbled
            /\ m \in Seq(Field) /\ Image(SettledOf, m) \in Seq(Field)
  <1> DEFINE D == Field
             m == Merged(parse(f), nums)
             u == Image(ToggledOf, m)
  <1>1. parse(f) \in Seq(PlainField) /\ parse(f) \in Seq(D)
    <2>1. parse(f) \in Seq(PlainField)
      BY ParseIsTyped
    <2> QED  BY <2>1, PlainFields
  <1>2. m \in Seq(D) /\ withSelectedNumbers(parse(f), nums) = m
    BY <1>1, MergedIs
  <1>3. computeTarget(f, nums) = build(u)
    BY <1>2, TogglesOnIs DEF computeTarget
  <1> HIDE DEF m
  <1>4. u \in Seq(D)
    <2>1. IsList(m, D) /\ Maps(ToggledOf, D, D)
      BY <1>2, SettledIs DEF IsList
    <2> HIDE DEF D
    <2>2. IsImage(u, ToggledOf, m, D, D)
      BY <2>1, ImageIs
    <2> QED  BY <2>2 DEF IsImage, IsList
  <1>5. Plains(u) = Image(SettledOf, m)
    <2> DEFINE F == ToggledOf
               G == PlainOf
               H == SettledOf
    <2>1. IsList(m, D) /\ Maps(F, D, D)
      BY <1>2, SettledIs DEF IsList
    <2>2. \A x \in D : G[F[x]] = H[x]
      <3>1. \A x \in D : F[x] = Toggled(x) /\ Toggled(x) \in D /\ H[x] = Plain(Toggled(x))
        BY SettledIs, ToggledIs
      <3> QED  BY <3>1 DEF PlainOf
    <2> HIDE DEF D, F, G, H
    <2>3. Image(G, Image(F, m)) = Image(H, m)
      BY <2>1, <2>2, ImageImage
    <2> QED  BY <2>3 DEF Plains, F, G, H
  <1> HIDE DEF u
  <1>6. parse(build(u)) = Plains(u) /\ parse(build(u)) # Garbled /\ Plains(u) \in Seq(PlainField)
    BY <1>4, CodecRoundTrips
  <1>7. build(u) \in Seq(Byte)
    BY <1>4, BuildConcat
  <1>8. Plains(u) \in Seq(Field)
    BY <1>6, PlainFields
  <1> QED  BY <1>1, <1>2, <1>3, <1>5, <1>6, <1>7, <1>8 DEF m, u

LEMMA SelectedOfNumbers ==
  ASSUME NEW nums \in Seq(Seq(Byte))
  PROVE  Image(BytesOf, NumberFields(nums)) = nums
  <1> DEFINE N == NumberFields(nums)
             B == Seq(Byte)
  <1>1. N \in Seq(Field) /\ Len(N) = Len(nums) /\ Len(nums) \in Nat
        /\ \A i \in 1..Len(nums) : N[i] = Bytes(Numbers, nums[i]) /\ N[i] \in Listed
    BY NumberFieldsAre
  <1>2. DOMAIN N = 1..Len(nums) /\ \A i \in 1..Len(nums) : N[i] \in Field
    BY <1>1, FieldsOf
  <1> HIDE DEF N
  <1>3. \A i \in DOMAIN N : BytesOf[N[i]] = nums[i]
    BY <1>1, <1>2 DEF BytesOf, Bytes
  <1>4. nums = [i \in 1..Len(nums) |-> nums[i]]
    <2>1. nums \in Seq(B)
      OBVIOUS
    <2> HIDE DEF B
    <2> QED  BY <2>1
  <1>5. Image(BytesOf, N) = [i \in DOMAIN N |-> BytesOf[N[i]]]
    BY DEF Image
  <1> QED  BY <1>2, <1>3, <1>4, <1>5 DEF N

LEMMA ChoiceIsSettled ==
  /\ \A x \in Field : SettledOf[x] \in Others <=> x \in Others
  /\ \A x \in Field : SettledOf[x] \in Listed <=> x \in Listed
  BY SettledIs DEF Others, Listed, PlainField

LEMMA SyncLists ==
  ASSUME NEW f \in Seq(Byte), parse(f) # Garbled, NEW nums \in Seq(Seq(Byte))
  PROVE  LET g == computeTarget(f, nums)
         IN /\ selectedNumbers(parse(g)) = nums
            /\ withClearedNumbers(parse(g)) = Image(SettledOf, withClearedNumbers(parse(f)))
  <1> DEFINE D == Field
             p == parse(f)
             h == parse(computeTarget(f, nums))
             m == Merged(p, nums)
             F == SettledOf
  <1>1. p \in Seq(D) /\ h = Image(F, m) /\ m \in Seq(D) /\ h \in Seq(D)
    BY SyncReads
  <1>2. Kept(m, Others) = Kept(p, Others) /\ Kept(m, Listed) = NumberFields(nums)
    BY <1>1, MergedIs
  <1> HIDE DEF p, m, h
  <1>3. Kept(h, Others) = Image(F, Kept(p, Others))
    <2>1. Kept(Image(F, m), Others) = Image(F, Kept(m, Others))
      BY <1>1, KeptImage, SettledIs, ChoiceIsSettled
    <2> QED  BY <1>1, <1>2, <2>1
  <1>4. Kept(h, Listed) = NumberFields(nums)
    <2>1. Kept(Image(F, m), Listed) = Image(F, Kept(m, Listed))
      BY <1>1, KeptImage, SettledIs, ChoiceIsSettled
    <2>2. Image(F, NumberFields(nums)) = NumberFields(nums)
      BY SettledNumbers
    <2> QED  BY <1>1, <1>2, <2>1, <2>2
  <1>5. selectedNumbers(h) = nums
    BY <1>1, <1>4, SelectedIs, SelectedOfNumbers
  <1>6. withClearedNumbers(h) = Image(F, withClearedNumbers(p))
    BY <1>1, <1>3, ClearedIs
  <1> QED  BY <1>5, <1>6 DEF p, h

(* A second sync finds nothing to do.                                      *)
LEMMA SyncTwice ==
  ASSUME NEW f \in Seq(Byte), parse(f) # Garbled, NEW nums \in Seq(Seq(Byte))
  PROVE  computeTarget(computeTarget(f, nums), nums) = computeTarget(f, nums)
  <1> DEFINE D == Field
             g == computeTarget(f, nums)
             p == parse(f)
             h == parse(g)
             m == Merged(p, nums)
             a == Image(SettledOf, Before(p))
             c == Image(SettledOf, After(p))
             F == SettledOf
             G == ToggledOf
  <1>1. /\ p \in Seq(D) /\ g = build(Image(G, m)) /\ h = Image(F, m) /\ m \in Seq(D)
        /\ h \in Seq(D)
    BY SyncReads
  <1> HIDE DEF g
  <1>2. Image(F, m) = (a \o NumberFields(nums)) \o c
    BY <1>1, MergedSettled
  <1>3. AllOther(a) /\ AllOther(c)
    BY <1>1, InsertIs, SettledOther
  <1> HIDE DEF a, c, m, h, p
  <1>4. withSelectedNumbers(h, nums) = h
    <2>1. withSelectedNumbers((a \o NumberFields(nums)) \o c, nums) = (a \o NumberFields(nums)) \o c
      BY <1>3, InsertAgain
    <2> QED  BY <1>1, <1>2, <2>1
  <1>5. computeTarget(g, nums) = build(Image(G, h))
    BY <1>1, <1>4, TogglesOnIs DEF computeTarget, h
  <1> DEFINE W == WriteOf
             H == [x \in Field |-> Written(Toggled(x))]
  <1>6. Maps(F, D, D) /\ Maps(G, D, D) /\ IsList(m, D)
    BY <1>1, SettledIs DEF IsList
  <1>7. \A x \in D : W[G[x]] = H[x] /\ H[F[x]] = H[x]
    <2>1. \A x \in D : /\ G[x] = Toggled(x) /\ Toggled(x) \in D
                       /\ F[x] \in D /\ Written(Toggled(F[x])) = Written(Toggled(x))
      BY SettledIs, ToggledIs DEF PlainField
    <2> HIDE DEF F, G
    <2> QED  BY <2>1 DEF WriteOf
  <1> HIDE DEF D, F, G, H, W
  <1>8. Image(W, Image(G, h)) = Image(W, Image(G, m))
    <2>1. IsList(h, D)
      BY <1>1 DEF IsList
    <2>2. Image(W, Image(G, h)) = Image(H, h) /\ Image(W, Image(G, m)) = Image(H, m)
      BY <1>6, <1>7, <2>1, ImageImage
    <2>3. Image(H, Image(F, m)) = Image(H, m)
      BY <1>6, <1>7, ImageImage
    <2> QED  BY <1>1, <2>2, <2>3
  <1>9. ASSUME NEW s \in Seq(D) PROVE build(Image(G, s)) = FlattenSeq(Image(W, Image(G, s)))
    <2>1. IsList(s, D)
      BY DEF IsList
    <2>2. IsImage(Image(G, s), G, s, D, D)
      BY <1>6, <2>1, ImageIs
    <2>3. Image(G, s) \in Seq(Field)
      BY <2>2 DEF IsImage, IsList, D
    <2> QED  BY <2>3, BuildIs DEF W
  <1>10. build(Image(G, h)) = build(Image(G, m))
    BY <1>1, <1>8, <1>9
  <1> QED  BY <1>1, <1>5, <1>10 DEF g

(* A clear leaves no number and every other field as it was.               *)
LEMMA ClearLists ==
  ASSUME NEW f \in Seq(Byte), parse(f) # Garbled
  PROVE  LET g == clearedTarget(f)
         IN /\ g \in Seq(Byte) /\ parse(g) = withClearedNumbers(parse(f)) /\ parse(g) # Garbled
            /\ parse(g) \in Seq(Field) /\ selectedNumbers(parse(g)) = <<>>
            /\ withClearedNumbers(parse(g)) = withClearedNumbers(parse(f))
  <1> DEFINE D == Field
             E == PlainField
             p == parse(f)
             k == Kept(p, Others)
  <1>1. p \in Seq(E) /\ p \in Seq(D)
    BY ParseIsTyped, PlainFields
  <1> HIDE DEF p
  <1>2. withClearedNumbers(p) = k /\ AllOther(k) /\ k \in Seq(D)
    BY <1>1, ClearedIs, KeptOther DEF AllOther
  <1>3. \A i \in 1..Len(k) : k[i] \in E
    <2>1. Range(k) = Range(p) \cap Others
      BY <1>1, KeptAreKept
    <2>2. Range(p) \subseteq E
      <3> HIDE DEF E, p
      <3> QED  BY <1>1 DEF Range
    <2>3. \A i \in 1..Len(k) : k[i] \in Range(k)
      <3>1. DOMAIN k = 1..Len(k)
        BY <1>2, FieldsOf
      <3> HIDE DEF k
      <3> QED  BY <3>1 DEF Range
    <2> QED  BY <2>1, <2>2, <2>3
  <1> HIDE DEF k
  <1>4. Plains(k) = k
    <2>1. DOMAIN k = 1..Len(k) /\ k = [i \in 1..Len(k) |-> k[i]]
      <3> HIDE DEF D
      <3> QED  BY <1>2
    <2>2. \A i \in 1..Len(k) : PlainOf[k[i]] = k[i]
      BY <1>3 DEF PlainField, PlainOf
    <2> QED  BY <2>1, <2>2 DEF Plains, Image
  <1>5. clearedTarget(f) = build(k)
    BY <1>2 DEF clearedTarget, p
  <1>6. parse(build(k)) = k /\ parse(build(k)) # Garbled /\ build(k) \in Seq(Byte)
    BY <1>2, <1>4, CodecRoundTrips, BuildConcat
  <1>7. selectedNumbers(k) = <<>> /\ withClearedNumbers(k) = k
    <2>1. Kept(k, Others) = k /\ Kept(k, Listed) = <<>>
      BY <1>2, OtherIs
    <2>2. Image(BytesOf, <<>>) = <<>>
      BY ImageOne
    <2> QED  BY <1>2, <2>1, <2>2, SelectedIs, ClearedIs
  <1> QED  BY <1>2, <1>5, <1>6, <1>7 DEF p

-----------------------------------------------------------------------------
(* A beginning of some bytes, as a write that was cut off leaves it, reads *)
(* as a beginning of their fields, or not at all.                          *)
Begins(p, d) ==
    /\ p \in Seq(Byte) /\ d \in Seq(Byte) /\ Len(p) <= Len(d)
    /\ \A i \in 1..Len(p) : p[i] = d[i]

LEMMA VarintBegins ==
  ASSUME NEW p, NEW d, Begins(p, d), NEW i \in Nat \ {0}, VarintEnd(p, i) # 0
  PROVE  /\ VarintEnd(d, i) = VarintEnd(p, i) /\ VarintEnd(p, i) \in i..Len(p)
         /\ ReadVarint(d, i, VarintEnd(p, i)) = ReadVarint(p, i, VarintEnd(p, i))
  <1> DEFINE e == VarintEnd(p, i)
             m == VarintEnd(d, i)
             T == {n \in Nat : \A j \in 1..e : j >= e - n => ReadVarint(d, j, e) = ReadVarint(p, j, e)}
  <1>1. p \in Seq(Byte) /\ d \in Seq(Byte) /\ Len(p) <= Len(d) /\ \A j \in 1..Len(p) : p[j] = d[j]
    BY DEF Begins
  <1>2. Len(p) \in Nat /\ Len(d) \in Nat /\ \A j \in 1..Len(d) : d[j] \in Int
    <2> DEFINE B == Byte
    <2>1. p \in Seq(B) /\ d \in Seq(B) /\ \A b \in B : b \in Int
      BY <1>1 DEF Byte
    <2> HIDE DEF B
    <2> QED  BY <2>1
  <1>3. e \in i..Len(p) /\ p[e] < 128 /\ \A j \in i..(e - 1) : p[j] >= 128
    BY <1>1, VarintEndIs
  <1>4. \/ m = 0 /\ \A j \in i..Len(d) : d[j] >= 128
        \/ m \in i..Len(d) /\ d[m] < 128 /\ \A j \in i..(m - 1) : d[j] >= 128
    BY <1>1, VarintEndIs
  <1> HIDE DEF e, m
  <1>5. e \in Nat /\ e \in 1..Len(p) /\ e \in i..Len(d) /\ d[e] < 128 /\ d[e] \in Int
        /\ \A j \in i..(e - 1) : d[j] >= 128
    <2>1. /\ e \in Nat /\ e \in 1..Len(p) /\ e \in i..Len(d) /\ e \in 1..Len(d)
          /\ \A j \in i..(e - 1) : j \in 1..Len(p)
      <3>1. Len(p) <= Len(d)
        BY <1>1
      <3> QED  BY <1>2, <1>3, <3>1
    <2>2. p[e] = d[e] /\ \A j \in i..(e - 1) : p[j] = d[j]
      BY <1>1, <2>1
    <2> QED  BY <1>2, <1>3, <2>1, <2>2
  <1>6. m \in i..Len(d) /\ d[m] < 128 /\ d[m] \in Int /\ \A j \in i..(m - 1) : d[j] >= 128
    BY <1>2, <1>4, <1>5
  <1>7. ~(e \in i..(m - 1)) /\ ~(m \in i..(e - 1))
    BY <1>5, <1>6
  <1>8. m = e
    BY <1>5, <1>6, <1>7
  <1>9. ASSUME NEW j \in 1..e, j = e \/ ReadVarint(d, j + 1, e) = ReadVarint(p, j + 1, e)
        PROVE  ReadVarint(d, j, e) = ReadVarint(p, j, e)
    <2>1. ReadVarint(d, j, e) = (d[j] % 128)
                + (IF j = e THEN 0 ELSE 128 * ReadVarint(d, j + 1, e))
      BY <1>5, ReadVarintIs
    <2>2. ReadVarint(p, j, e) = (p[j] % 128)
                + (IF j = e THEN 0 ELSE 128 * ReadVarint(p, j + 1, e))
      BY <1>5, ReadVarintIs
    <2>3. p[j] = d[j]
      BY <1>1, <1>2, <1>5
    <2> QED  BY <1>9, <2>1, <2>2, <2>3
  <1>10. 0 \in T
    <2>1. \A j \in 1..e : j >= e - 0 => j = e
      BY <1>5
    <2> QED  BY <1>9, <2>1
  <1>11. ASSUME NEW n \in Nat, n \in T PROVE n + 1 \in T
    <2> SUFFICES ASSUME NEW j \in 1..e, j >= e - (n + 1)
                 PROVE  ReadVarint(d, j, e) = ReadVarint(p, j, e)
      OBVIOUS
    <2>1. j = e \/ (j + 1 \in 1..e /\ j + 1 >= e - n)
      BY <1>5
    <2> QED  BY <1>9, <1>11, <2>1
  <1> HIDE DEF T
  <1>12. e \in T
    BY <1>5, <1>10, <1>11, SetInduction
  <1>13. i \in 1..e /\ i >= e - e
    BY <1>2, <1>3, <1>5
  <1>14. ReadVarint(d, i, e) = ReadVarint(p, i, e)
    BY <1>12, <1>13 DEF T
  <1> QED  BY <1>3, <1>8, <1>14 DEF e, m

LEMMA FieldBegins ==
  ASSUME NEW p, NEW d, Begins(p, d), NEW i \in 1..Len(p), FieldAt(p, i) # Garbled
  PROVE  FieldAt(d, i) = FieldAt(p, i)
  <1> DEFINE t    == VarintEnd(p, i)
             v    == VarintEnd(p, t + 1)
             num  == ReadVarint(p, i, t) \div 8
             wire == ReadVarint(p, i, t) % 8
             val  == ReadVarint(p, t + 1, v)
  <1>1. p \in Seq(Byte) /\ d \in Seq(Byte) /\ Len(p) <= Len(d)
        /\ Len(p) \in Nat /\ Len(d) \in Nat /\ \A j \in 1..Len(p) : p[j] = d[j]
    <2> DEFINE B == Byte
    <2>1. p \in Seq(B) /\ d \in Seq(B) /\ Len(p) <= Len(d) /\ \A j \in 1..Len(p) : p[j] = d[j]
      BY DEF Begins
    <2> HIDE DEF B
    <2>2. Len(p) \in Nat /\ Len(d) \in Nat
      BY <2>1
    <2> QED  BY <2>1, <2>2 DEF B
  <1>2. FieldAt(p, i) =
          IF t = 0 \/ wire \notin {0, 2} \/ v = 0 THEN Garbled
          ELSE IF wire = 0 THEN [field |-> Varint(num, val), next |-> v + 1]
          ELSE IF v + val > Len(p) THEN Garbled
          ELSE [field |-> Bytes(num, SubSeq(p, v + 1, v + val)), next |-> v + val + 1]
    BY DEF FieldAt
  <1> HIDE DEF v
  <1>3. t # 0 /\ wire \in {0, 2} /\ v # 0 /\ (wire # 0 => ~(v + val > Len(p)))
    BY <1>2
  <1> USE DEF v
  <1> HIDE DEF t
  <1>4. VarintEnd(d, i) = t /\ t \in i..Len(p) /\ ReadVarint(d, i, t) = ReadVarint(p, i, t)
    BY <1>1, <1>3, VarintBegins DEF t
  <1>5. t + 1 \in Nat \ {0} /\ t \in Nat /\ i \in 1..t
    BY <1>1, <1>4
  <1>6. VarintEnd(d, t + 1) = v /\ v \in (t + 1)..Len(p) /\ ReadVarint(d, t + 1, v) = val
    BY <1>3, <1>5, VarintBegins
  <1> HIDE DEF v
  <1>7. v \in Nat /\ t + 1 \in 1..v /\ v <= Len(p)
    BY <1>1, <1>5, <1>6
  <1>8. val \in Nat
    BY <1>1, <1>7, ReadIsNat
  <1>9. FieldAt(d, i) =
          IF t = 0 \/ wire \notin {0, 2} \/ v = 0 THEN Garbled
          ELSE IF wire = 0 THEN [field |-> Varint(num, val), next |-> v + 1]
          ELSE IF v + val > Len(d) THEN Garbled
          ELSE [field |-> Bytes(num, SubSeq(d, v + 1, v + val)), next |-> v + val + 1]
    BY <1>4, <1>6 DEF FieldAt
  <1> HIDE DEF num, val
  <1>10. CASE wire = 0
    BY <1>2, <1>3, <1>9, <1>10
  <1>11. CASE wire # 0
    <2>1. ~(v + val > Len(p)) /\ ~(v + val > Len(d))
      BY <1>1, <1>3, <1>7, <1>8, <1>11
    <2>2. SubSeq(d, v + 1, v + val) = SubSeq(p, v + 1, v + val)
      <3>1. \A j \in (v + 1)..(v + val) : j \in 1..Len(p)
        BY <1>1, <1>7, <1>8, <2>1
      <3>2. \A j \in 1..((v + val) - (v + 1) + 1) : (v + 1) + (j - 1) \in 1..Len(p)
        BY <1>1, <1>7, <1>8, <2>1
      <3> QED  BY <1>1, <1>7, <1>8, <3>1, <3>2
    <2> QED  BY <1>2, <1>3, <1>9, <1>11, <2>1, <2>2
  <1> QED  BY <1>10, <1>11

LEMMA RangeGrows ==
  ASSUME NEW E, NEW x \in E, NEW u \in Seq(E), NEW w \in Seq(E), NEW z,
         Range(u) \subseteq Range(w) \cup {z}
  PROVE  Range(<<x>> \o u) \subseteq Range(<<x>> \o w) \cup {z}
  <1> DEFINE v == <<x>>
  <1>1. v \in Seq(E)
    OBVIOUS
  <1> HIDE DEF v
  <1>2. Range(v \o u) = Range(v) \cup Range(u)
    BY <1>1, RangeOfConcat
  <1>3. Range(v \o w) = Range(v) \cup Range(w)
    BY <1>1, RangeOfConcat
  <1>4. Range(v \o u) \subseteq Range(v \o w) \cup {z}
    BY <1>2, <1>3
  <1> QED  BY <1>4 DEF v

LEMMA WalkBegins ==
  ASSUME NEW p, NEW d, Begins(p, d), NEW i \in 1..(Len(p) + 1)
  PROVE  Range(Walk(p)[i]) \subseteq Range(Walk(d)[i]) \cup {Garbled}
  <1> DEFINE L == Len(p)
             E == PlainField \cup {Garbled}
             R(j) == Range(Walk(p)[j]) \subseteq Range(Walk(d)[j]) \cup {Garbled}
             T == {n \in Nat : \A j \in 1..(L + 1) : j >= L + 1 - n => R(j)}
  <1>0. p \in Seq(Byte) /\ d \in Seq(Byte) /\ L \in Nat /\ Len(d) \in Nat /\ L <= Len(d)
    <2> DEFINE B == Byte
    <2>1. p \in Seq(B) /\ d \in Seq(B) /\ Len(p) <= Len(d)
      BY DEF Begins
    <2> HIDE DEF B
    <2>2. Len(p) \in Nat /\ Len(d) \in Nat
      BY <2>1
    <2> QED  BY <2>1, <2>2 DEF B
  <1>1. ASSUME NEW j \in 1..(L + 1), \A k \in (j + 1)..(L + 1) : R(k) PROVE R(j)
    <2>1. CASE j > L
      <3>1. Walk(p)[j] = <<>>
        BY <1>0, <2>1, WalkIs
      <3>2. Range(<<>>) = {}
        BY DEF Range
      <3> QED  BY <3>1, <3>2
    <2>2. CASE ~(j > L) /\ FieldAt(p, j) = Garbled
      <3>1. Walk(p)[j] = <<Garbled>>
        BY <1>0, <2>2, WalkIs
      <3>2. Range(<<Garbled>>) = {Garbled}
        BY RangeOfOne
      <3> QED  BY <3>1, <3>2
    <2>3. CASE ~(j > L) /\ FieldAt(p, j) # Garbled
      <3>1. j \in 1..L /\ j \in 1..(Len(d) + 1) /\ ~(j > Len(d))
        BY <1>0, <2>3
      <3>2. PICK x \in PlainField, n \in (j + 1)..(L + 1) : FieldAt(p, j) = [field |-> x, next |-> n]
        BY <1>0, <2>3, <3>1, FieldAtIs
      <3>3. FieldAt(d, j) = [field |-> x, next |-> n] /\ FieldAt(d, j) # Garbled
        BY <2>3, <3>1, <3>2, FieldBegins
      <3>4. Walk(p)[j] = <<x>> \o Walk(p)[n]
        <4>1. FieldAt(p, j).field = x /\ FieldAt(p, j).next = n
          BY <3>2
        <4>2. Walk(p)[j] = <<FieldAt(p, j).field>> \o Walk(p)[FieldAt(p, j).next]
          BY <1>0, <2>3, WalkIs
        <4> QED  BY <4>1, <4>2
      <3>5. Walk(d)[j] = <<x>> \o Walk(d)[n]
        <4>1. FieldAt(d, j).field = x /\ FieldAt(d, j).next = n
          BY <3>3
        <4>2. Walk(d)[j] = <<FieldAt(d, j).field>> \o Walk(d)[FieldAt(d, j).next]
          BY <1>0, <3>1, <3>3, WalkIs
        <4> QED  BY <4>1, <4>2
      <3>6. n \in 1..(L + 1) /\ n \in 1..(Len(d) + 1)
        BY <1>0, <3>1, <3>2
      <3> DEFINE u == Walk(p)[n]
                 w == Walk(d)[n]
      <3>7. u \in Seq(E) /\ w \in Seq(E) /\ <<x>> \in Seq(E)
        <4>1. u \in Seq(E) /\ w \in Seq(E)
          BY <1>0, <3>6, WalkIsTyped
        <4>2. x \in E
          BY <3>2
        <4> HIDE DEF E, u, w
        <4> QED  BY <4>1, <4>2
      <3>8. R(n)
        BY <1>1, <3>2
      <3>9. x \in E /\ Range(u) \subseteq Range(w) \cup {Garbled}
        BY <3>2, <3>8
      <3> HIDE DEF E, u, w
      <3>10. Range(<<x>> \o u) \subseteq Range(<<x>> \o w) \cup {Garbled}
        BY <3>7, <3>9, RangeGrows
      <3> QED  BY <3>4, <3>5, <3>10 DEF u, w
    <2> QED  BY <2>1, <2>2, <2>3
  <1> HIDE DEF R
  <1>2. 0 \in T
    <2>1. \A j \in 1..(L + 1) : j >= L + 1 - 0 => (j + 1)..(L + 1) = {}
      BY <1>0
    <2> QED  BY <1>1, <2>1
  <1>3. ASSUME NEW n \in Nat, n \in T PROVE n + 1 \in T
    <2> SUFFICES ASSUME NEW j \in 1..(L + 1), j >= L + 1 - (n + 1) PROVE R(j)
      OBVIOUS
    <2>1. \A k \in (j + 1)..(L + 1) : k \in 1..(L + 1) /\ k >= L + 1 - n
      BY <1>0
    <2> QED  BY <1>1, <1>3, <2>1
  <1> HIDE DEF T
  <1>4. L + 1 \in Nat
    BY <1>0
  <1>5. L + 1 \in T
    BY <1>2, <1>3, <1>4, SetInduction
  <1>6. i >= L + 1 - (L + 1)
    BY <1>0
  <1>7. R(i)
    BY <1>5, <1>6 DEF T
  <1> QED  BY <1>7 DEF R

(* Bytes that parse throws at, or whose fields hold no number.             *)
NoNumbers(f) == parse(f) = Garbled \/ selectedNumbers(parse(f)) = <<>>

LEMMA NoNumbersIs ==
  ASSUME NEW s \in Seq(Field)
  PROVE  selectedNumbers(s) = <<>> <=> Range(s) \cap Listed = {}
  <1> DEFINE D == Field
             k == Kept(s, Listed)
  <1>1. k \in Seq(D)
    BY KeptConcat
  <1>2. Range(k) = Range(s) \cap Listed
    BY KeptAreKept
  <1>3. selectedNumbers(s) = Image(BytesOf, k)
    BY SelectedIs
  <1> HIDE DEF k, D
  <1>4. Image(BytesOf, k) = <<>> <=> k = <<>>
    <2>1. Image(BytesOf, k) = [i \in DOMAIN k |-> BytesOf[k[i]]]
      BY DEF Image
    <2>2. k = <<>> => Image(BytesOf, k) = <<>>
      BY ImageOne
    <2>3. DOMAIN Image(BytesOf, k) = DOMAIN k /\ DOMAIN k = 1..Len(k) /\ DOMAIN <<>> = 1..0
      BY <1>1, <2>1
    <2>4. DOMAIN k = 1..0 => k = <<>>
      BY <1>1, <2>3
    <2> QED  BY <2>2, <2>3, <2>4
  <1>5. k = <<>> <=> Range(k) = {}
    <2>1. k = <<>> => Range(k) = {}
      BY DEF Range
    <2>2. k # <<>> => 1 \in DOMAIN k
      BY <1>1
    <2> QED  BY <2>1, <2>2 DEF Range
  <1> QED  BY <1>2, <1>3, <1>4, <1>5

(* No number comes of cutting bytes off that hold none.                    *)
LEMMA NoNumbersBegins ==
  ASSUME NEW p, NEW d, Begins(p, d), parse(d) # Garbled, NoNumbers(d)
  PROVE  NoNumbers(p)
  <1> SUFFICES ASSUME parse(p) # Garbled PROVE selectedNumbers(parse(p)) = <<>>
    BY DEF NoNumbers
  <1>1. p \in Seq(Byte) /\ d \in Seq(Byte)
    BY DEF Begins
  <1>2. /\ parse(p) \in Seq(PlainField) /\ parse(p) = Walk(p)[1]
        /\ parse(d) \in Seq(PlainField) /\ parse(d) = Walk(d)[1]
    BY <1>1, ParseIsTyped
  <1>3. parse(p) \in Seq(Field) /\ parse(d) \in Seq(Field)
    BY <1>2, PlainFields
  <1>4. Range(Walk(p)[1]) \subseteq Range(Walk(d)[1]) \cup {Garbled}
    <2>1. 1 \in 1..(Len(p) + 1)
      <3> DEFINE B == Byte
      <3>1. p \in Seq(B)
        BY <1>1
      <3> HIDE DEF B
      <3> QED  BY <3>1
    <2> QED  BY <2>1, WalkBegins
  <1>5. Range(parse(d)) \cap Listed = {}
    BY <1>3, NoNumbersIs DEF NoNumbers
  <1>6. Garbled \notin Listed
    BY GarbledIsNothingRead DEF Listed
  <1>7. Range(parse(p)) \cap Listed = {}
    BY <1>2, <1>4, <1>5, <1>6
  <1> QED  BY <1>3, <1>7, NoNumbersIs

(* A file with nothing in it reads as no fields.                           *)
LEMMA EmptyFile ==
  /\ parse(<<>>) = <<>> /\ selectedNumbers(<<>>) = <<>> /\ withClearedNumbers(<<>>) = <<>>
  /\ <<>> \in Seq(Byte)
  <1> DEFINE e == <<>>
             B == Byte
             D == Field
  <1>1. e \in Seq(B) /\ e \in Seq(D) /\ Len(e) = 0
    <2> HIDE DEF B, D
    <2> QED  OBVIOUS
  <1> HIDE DEF B, D
  <1>2. e \in Seq(Byte) /\ e \in Seq(Field)
    BY <1>1 DEF B, D
  <1>3. 1 \in 1..(Len(e) + 1) /\ 1 > Len(e)
    BY <1>1
  <1>4. Walk(e)[1] = <<>>
    BY <1>2, <1>3, WalkIs
  <1>5. parse(e) = <<>>
    BY <1>4, ParseWalks
  <1>6. Kept(e, Others) = <<>> /\ Kept(e, Listed) = <<>> /\ Image(BytesOf, <<>>) = <<>>
    <2>1. Image(KeepIf(Others), <<>>) = <<>> /\ Image(KeepIf(Listed), <<>>) = <<>>
      BY ImageOne
    <2> QED  BY <2>1, ImageOne DEF Kept, FlattenSeq
  <1>7. selectedNumbers(e) = <<>> /\ withClearedNumbers(e) = <<>>
    BY <1>2, <1>6, SelectedIs, ClearedIs
  <1> QED  BY <1>2, <1>5, <1>7
=============================================================================
