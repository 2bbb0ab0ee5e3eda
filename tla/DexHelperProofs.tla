---------------------------- MODULE DexHelperProofs ----------------------------
(* What DexHelper keeps between questions and what it answers, for every    *)
(* image and every set of questions: the caches are the scanned code, an    *)
(* index is a name, and an answer is what the code holds, or is lost by its *)
(* prefix or its index.                                                    *)
EXTENDS DexHelper, Lemmas, FiniteSetTheorems

-----------------------------------------------------------------------------
(* The caches.                                                             *)

CachesTyped ==
    /\ DOMAIN scanned = Dex /\ DOMAIN cache = Dex
    /\ \A d \in Dex : scanned[d] \subseteq Methods(d)
    /\ \A d \in Dex : \A k \in Operand[d] : cache[d][k] \in Seq(Methods(d))
CacheInv == CachesTyped /\ CachesAreScans

(* An instruction is entered in the cache as often as the code holds it,   *)
(* so once at least if the code holds it at all.                           *)
LEMMA Entered ==
    ASSUME NEW d \in Dex, NEW m \in Methods(d), NEW k \in Operand[d]
    PROVE  /\ Times(d, m, k) \in Nat
           /\ Times(d, m, k) > 0 <=> Uses(d, m, k)
<1> DEFINE code == Method(d, m).code
           at == {i \in DOMAIN code : code[i] = k}
<1>1. code \in Seq(Operand[d])
  BY ImageIsWellFormed
<1>2. Len(code) \in Nat /\ DOMAIN code = 1..Len(code)
  BY <1>1
<1>3. IsFiniteSet(at)
  <2>0. 1 \in Int /\ Len(code) \in Int
    BY <1>2
  <2>1. IsFiniteSet(1..Len(code))
    BY <2>0, FS_Interval
  <2> QED BY <1>2, <2>1, FS_Subset
<1>4. Cardinality(at) \in Nat /\ (Cardinality(at) = 0 <=> at = {})
  BY <1>3, FS_CardinalityType, FS_EmptySet
<1>5. at # {} <=> Uses(d, m, k)
  BY DEF Uses, Range
<1> QED BY <1>4, <1>5 DEF Times

LEMMA ScanKeeps ==
    ASSUME CacheInv, NEW d \in Dex, NEW m \in Methods(d), ScanMethod(d, m)
    PROVE  CacheInv'
<1> USE DEF CacheInv, CachesTyped
<1>1. /\ DOMAIN scanned' = Dex /\ DOMAIN cache' = Dex
      /\ scanned'[d] = scanned[d] \cup {m}
      /\ \A e \in Dex \ {d} : scanned'[e] = scanned[e] /\ cache'[e] = cache[e]
  BY DEF ScanMethod
<1>2. ASSUME NEW k \in Operand[d]
      PROVE  /\ cache'[d][k] \in Seq(Methods(d))
             /\ Range(cache'[d][k]) = {l \in scanned'[d] : Uses(d, l, k)}
  <2> DEFINE new == [i \in 1..Times(d, m, k) |-> m]
  <2>1. cache'[d][k] = cache[d][k] \o new
    BY DEF ScanMethod
  <2>2. Times(d, m, k) \in Nat /\ (Times(d, m, k) > 0 <=> Uses(d, m, k))
    BY Entered
  <2>3. new \in Seq(Methods(d))
    BY <2>2
  <2>4. Range(new) = IF Uses(d, m, k) THEN {m} ELSE {}
    BY <2>2 DEF Range
  <2>5. /\ cache'[d][k] \in Seq(Methods(d))
        /\ Range(cache'[d][k]) = Range(cache[d][k]) \cup Range(new)
    <3>1. cache[d][k] \in Seq(Methods(d))
      OBVIOUS
    <3> HIDE DEF new
    <3> QED BY <2>1, <2>3, <3>1, RangeOfConcat
  <2>6. Range(cache[d][k]) = {l \in scanned[d] : Uses(d, l, k)}
    BY DEF CachesAreScans
  <2> QED BY <1>1, <2>4, <2>5, <2>6
<1>3. CachesTyped'
  BY <1>1, <1>2
<1>4. CachesAreScans'
  <2> SUFFICES ASSUME NEW e \in Dex, NEW k \in Operand[e]
               PROVE  Range(cache'[e][k]) = {l \in scanned'[e] : Uses(e, l, k)}
    BY DEF CachesAreScans
  <2> QED BY <1>1, <1>2 DEF CachesAreScans
<1> QED BY <1>3, <1>4

-----------------------------------------------------------------------------
(* The table of methods.                                                   *)

IsMethodRow(r) ==
    /\ \A d \in Dex : r[d] \in Methods(d) \cup {Absent}
    /\ \E d \in Dex : /\ r[d] \in Methods(d)
                      /\ r = Row(MethodNamed(KeyOf(d, r[d])), 1)
IndexInv ==
    /\ methodIdx \in Seq([Dex -> Nat \cup {Absent}])
    /\ \A i \in 1..Len(methodIdx) : IsMethodRow(methodIdx[i])
    /\ MethodIndexIsAName

LEMMA RowOfAName ==
    ASSUME NEW n, ~IsNowhere(MethodNamed(n), 1)
    PROVE  LET r == Row(MethodNamed(n), 1)
           IN /\ r \in [Dex -> Nat \cup {Absent}] /\ IsMethodRow(r)
              /\ \E d \in Dex : r[d] \in MethodNamed(n)[d]
<1> DEFINE c == MethodNamed(n)
           r == Row(c, 1)
<1>1. ASSUME NEW d \in Dex
      PROVE  /\ c[d] = {m \in Methods(d) : KeyOf(d, m) = n}
             /\ r[d] = IF c[d] = {} THEN Absent ELSE Max(c[d])
  BY DEF MethodNamed, Row, Dex
<1>2. ASSUME NEW d \in Dex, c[d] # {} PROVE r[d] \in c[d]
  <2>1. Len(Image[d].methods) \in Nat
    BY ImageIsWellFormed
  <2>2. Max(c[d]) \in c[d]
    BY <1>1, <1>2, <2>1, GreatestOf DEF Methods
  <2> QED BY <1>1, <1>2, <2>2
<1>3. \A d \in Dex : Methods(d) \subseteq Nat
  BY DEF Methods
<1>4. \A d \in Dex : r[d] \in Methods(d) \cup {Absent}
  BY <1>1, <1>2
<1>5. r \in [Dex -> Nat \cup {Absent}]
  BY <1>3, <1>4 DEF Row
<1>6. PICK d \in Dex : c[d] # {}
  BY DEF IsNowhere, Dex
<1>7. r[d] \in c[d] /\ r[d] \in Methods(d) /\ KeyOf(d, r[d]) = n
  BY <1>1, <1>2, <1>6
<1> QED BY <1>4, <1>5, <1>7 DEF IsMethodRow

LEMMA Appended ==
    ASSUME NEW S, NEW s \in Seq(S), NEW e \in S
    PROVE  /\ Append(s, e) \in Seq(S)
           /\ Len(Append(s, e)) = Len(s) + 1 /\ Len(s) \in Nat
           /\ Append(s, e)[Len(s) + 1] = e
           /\ \A i \in 1..Len(s) : Append(s, e)[i] = s[i]
OBVIOUS

LEMMA NamingKeeps ==
    ASSUME IndexInv, NEW n, methodIdx' = Grown(methodIdx, MethodNamed(n), 1)
    PROVE  IndexInv' /\ Len(methodIdx') \in Nat /\ Len(methodIdx') >= Len(methodIdx)
<1> DEFINE c == MethodNamed(n)
           r == Row(c, 1)
<1> USE DEF IndexInv
<1>1. CASE methodIdx' = methodIdx
  BY <1>1 DEF MethodIndexIsAName
<1>2. CASE ~IsKnown(methodIdx, c, 1) /\ ~IsNowhere(c, 1)
  <2>1. methodIdx' = Append(methodIdx, r)
    BY <1>2 DEF Grown
  <2>2. /\ r \in [Dex -> Nat \cup {Absent}] /\ IsMethodRow(r)
        /\ \E d \in Dex : r[d] \in c[d]
    BY <1>2, RowOfAName
  <2>3. PICK d \in Dex : r[d] \in c[d]
    BY <2>2
  <2>4. \A i \in 1..Len(methodIdx) : methodIdx[i][d] # r[d]
    <3>1. Marked(methodIdx, c, d) = {}
      BY <1>2 DEF IsKnown, Dex
    <3> QED BY <2>3, <3>1 DEF Marked
  <2>5. \A i \in 1..Len(methodIdx) : methodIdx[i] # r
    BY <2>4
  <2>6. /\ methodIdx' \in Seq([Dex -> Nat \cup {Absent}])
        /\ Len(methodIdx') = Len(methodIdx) + 1 /\ Len(methodIdx) \in Nat
        /\ methodIdx'[Len(methodIdx) + 1] = r
        /\ \A i \in 1..Len(methodIdx) : methodIdx'[i] = methodIdx[i]
    <3>1. methodIdx \in Seq([Dex -> Nat \cup {Absent}])
          /\ r \in [Dex -> Nat \cup {Absent}] /\ methodIdx' = Append(methodIdx, r)
      BY <2>1, <2>2
    <3> HIDE DEF r, IndexInv
    <3> DEFINE S == [Dex -> Nat \cup {Absent}]
    <3> HIDE DEF S
    <3>2. methodIdx \in Seq(S) /\ r \in S
      BY <3>1 DEF S
    <3>3. methodIdx' \in Seq(S)
      BY <3>1, <3>2, Appended
    <3>4. /\ Len(methodIdx') = Len(methodIdx) + 1 /\ Len(methodIdx) \in Nat
          /\ methodIdx'[Len(methodIdx) + 1] = r
          /\ \A i \in 1..Len(methodIdx) : methodIdx'[i] = methodIdx[i]
      BY <3>1, <3>2, Appended
    <3> QED BY <3>3, <3>4 DEF S
  <2>7. ASSUME NEW i \in 1..Len(methodIdx')
        PROVE  i \in 1..Len(methodIdx) \/ i = Len(methodIdx) + 1
    BY <2>6
  <2>8. \A i \in 1..Len(methodIdx') : IsMethodRow(methodIdx'[i])
    BY <2>2, <2>6, <2>7
  <2>9. MethodIndexIsAName'
    <3>1. ASSUME NEW i \in 1..Len(methodIdx')
          PROVE  \E e \in Dex :
                   /\ methodIdx'[i][e] \in Methods(e)
                   /\ methodIdx'[i] = Row(MethodNamed(KeyOf(e, methodIdx'[i][e])), 1)
      BY <2>8 DEF IsMethodRow
    <3>2. ASSUME NEW i \in 1..Len(methodIdx'), NEW j \in 1..Len(methodIdx'),
                 methodIdx'[i] = methodIdx'[j]
          PROVE  i = j
      BY <2>5, <2>6, <2>7, <3>2 DEF MethodIndexIsAName
    <3> QED BY <3>1, <3>2 DEF MethodIndexIsAName
  <2> QED BY <2>6, <2>8, <2>9 DEF IsMethodRow
<1> QED BY <1>1, <1>2 DEF Grown

-----------------------------------------------------------------------------
(* Every step keeps both; what a question needs of the table of methods    *)
(* stays there while it is answered.                                       *)

AskedInv ==
    pc \in {"visit", "scan", "collect", "emit"} /\ q.kind = "invoking"
        => q.of \in 1..Len(methodIdx)
Inv == CacheInv /\ IndexInv /\ AskedInv

(* The caches, respectively the table, of the next state are those of a    *)
(* step that leaves them alone.                                            *)
LEMMA CachesRest == ASSUME CacheInv, UNCHANGED caches PROVE CacheInv'
BY DEF CacheInv, CachesTyped, CachesAreScans, caches

LEMMA TableRests == ASSUME IndexInv, UNCHANGED methodIdx PROVE IndexInv'
BY DEF IndexInv, MethodIndexIsAName, IsMethodRow

LEMMA FreshHelper == ASSUME Blank PROVE CacheInv /\ IndexInv
<1>1. CachesTyped
  BY DEF Blank, CachesTyped
<1>2. CachesAreScans
  BY DEF Blank, CachesAreScans, Range
<1>3. methodIdx = <<>> /\ Len(methodIdx) = 0
  BY DEF Blank
<1>4. IndexInv
  BY <1>3 DEF IndexInv, MethodIndexIsAName
<1> QED BY <1>1, <1>2, <1>4 DEF CacheInv

LEMMA MethodsAreNumbers == ASSUME NEW d \in Dex PROVE Methods(d) \subseteq Nat
BY DEF Methods

LEMMA Initially == Init => Inv
BY FreshHelper DEF Init, Inv, AskedInv

LEMMA AskKeeps == ASSUME Inv, NEW x \in Question, Ask(x) PROVE Inv'
<1> USE DEF Inv
<1>1. /\ UNCHANGED <<caches, methodIdx>> /\ q' = x /\ pc' \in {"visit", "reply"}
      /\ pc' = "visit" /\ x.kind = "invoking" => x.of \in 1..Len(methodIdx)
  <2>1. CASE NoHandler(x)
    BY <2>1 DEF NoHandler, tables
  <2>2. ASSUME NEW n \in BOOLEAN, Begin(x, n),
               n /\ x.kind = "invoking" => x.of \in 1..Len(methodIdx)
        PROVE  /\ UNCHANGED <<caches, methodIdx>> /\ q' = x
               /\ pc' \in {"visit", "reply"}
               /\ pc' = "visit" /\ x.kind = "invoking" => x.of \in 1..Len(methodIdx)
    <3>1. CASE n
      BY <2>2, <3>1 DEF Begin, tables
    <3>2. CASE ~n
      BY <2>2, <3>2 DEF Begin, tables
    <3> QED BY <3>1, <3>2
  <2>3. IsClassIndex(x.of) \in BOOLEAN /\ ShapeNamed(x) \in BOOLEAN
    BY DEF IsClassIndex, ShapeNamed
  <2> QED BY <2>1, <2>2, <2>3
     DEF Ask, findMethodUsingString, findMethodInvoking, findMethodInvoked,
         findMethodGettingField, findMethodSettingField, findField,
         FindMethodUsingString, FindMethodInvoking, FindMethodInvoked,
         FindMethodGettingField, FindMethodSettingField, FindField
<1>2. AskedInv'
  BY <1>1 DEF AskedInv
<1> QED BY <1>1, <1>2, CachesRest, TableRests

LEMMA VisitKeeps == ASSUME Inv, NEW d \in Dex, Visit(d) PROVE Inv'
<1> USE DEF Inv
<1>1. CASE PassBy(d) \/ AnswerFromCache(d) \/ StartScan(d) \/ Collect(d)
           \/ CollectFields(d) \/ NextDex(d)
  <2>1. UNCHANGED <<caches, methodIdx, q>>
    BY <1>1 DEF PassBy, AnswerFromCache, StartScan, Collect, CollectFields,
       NextDex, tables
  <2>2. AskedInv'
    BY <1>1, <2>1 DEF AskedInv, PassBy, AnswerFromCache, StartScan, Collect,
       CollectFields, NextDex, Visiting
  <2> QED BY <2>1, <2>2, CachesRest, TableRests
<1>2. CASE ScanNext(d)
  <2> DEFINE m == Min(Unscanned(d))
  <2>1. /\ ScanMethod(d, m) /\ Unscanned(d) # {} /\ pc = "scan"
        /\ UNCHANGED <<methodIdx, q>>
    BY <1>2 DEF ScanNext, tables
  <2>2. Unscanned(d) \subseteq Methods(d)
    BY DEF Unscanned
  <2>3. m \in Methods(d)
    BY <2>1, <2>2, MethodsAreNumbers, LeastOf
  <2>4. CacheInv'
    BY <2>1, <2>3, ScanKeeps
  <2>5. AskedInv'
    BY <2>1 DEF AskedInv
  <2> QED BY <2>1, <2>4, <2>5, TableRests
<1>3. CASE CollectCallees(d)
  <2>1. /\ pc = "visit" /\ ~PassedBy(d, q) /\ q.kind = "invoking"
        /\ UNCHANGED <<methodIdx, q>>
    BY <1>3 DEF CollectCallees, Visiting, tables
  <2>2. q.of \in 1..Len(methodIdx) /\ methodIdx[q.of][d] \in Methods(d) \cup {Absent}
    BY <2>1 DEF AskedInv, IndexInv, IsMethodRow
  <2>3. Target(d, q) = methodIdx[q.of][d] /\ Target(d, q) # Absent
    BY <2>1 DEF Target, PassedBy
  <2>4. Target(d, q) \in Methods(d)
    BY <2>2, <2>3
  <2>5. CacheInv'
    <3>1. CASE UNCHANGED caches
      BY <3>1, CachesRest
    <3>2. CASE ScanMethod(d, Target(d, q))
      BY <2>4, <3>2, ScanKeeps
    <3> QED BY <1>3, <3>1, <3>2 DEF CollectCallees
  <2>6. AskedInv'
    BY <2>1, <2>2 DEF AskedInv
  <2> QED BY <2>1, <2>5, <2>6, TableRests
<1>4. CASE Emit(d)
  <2>1. /\ pc = "emit" /\ UNCHANGED <<caches, q>>
        /\ \/ UNCHANGED methodIdx
           \/ \E id : methodIdx' = Grown(methodIdx, MethodNamed(KeyOf(d, id)), 1)
    BY <1>4 DEF Emit
  <2>2. IndexInv' /\ Len(methodIdx) \in Nat /\ Len(methodIdx') \in Nat
        /\ Len(methodIdx') >= Len(methodIdx)
    <3>1. CASE UNCHANGED methodIdx
      BY <3>1, TableRests DEF IndexInv
    <3>2. ASSUME NEW id, methodIdx' = Grown(methodIdx, MethodNamed(KeyOf(d, id)), 1)
          PROVE  IndexInv' /\ Len(methodIdx') \in Nat
                 /\ Len(methodIdx') >= Len(methodIdx)
      BY <3>2, NamingKeeps
    <3>3. Len(methodIdx) \in Nat
      BY DEF IndexInv
    <3> QED BY <2>1, <3>1, <3>2, <3>3
  <2>3. AskedInv'
    BY <2>1, <2>2 DEF AskedInv
  <2> QED BY <2>1, <2>2, <2>3, CachesRest
<1> QED BY <1>1, <1>2, <1>3, <1>4 DEF Visit

LEMMA ScanAnyKeeps == ASSUME Inv, ScanAny PROVE Inv'
<1> USE DEF Inv
<1>1. pc = "full" /\ (pc' = "full" \/ pc' = "idle") /\ UNCHANGED <<methodIdx, q>>
  BY DEF ScanAny, tables
<1>2. CASE \A d \in Dex : scanned[d] = Methods(d)
  BY <1>1, <1>2, CachesRest, TableRests DEF ScanAny, AskedInv
<1>3. CASE ~ \A d \in Dex : scanned[d] = Methods(d)
  <2> DEFINE left == {e \in Dex : scanned[e] # Methods(e)}
             d == Min(left)
             m == Min(Methods(d) \ scanned[d])
  <2>1. ScanMethod(d, m)
    BY <1>3 DEF ScanAny
  <2>2. left \subseteq Nat /\ left # {}
    BY <1>3 DEF Dex
  <2>3. d \in left
    BY <2>2, LeastOf
  <2>4. Methods(d) \ scanned[d] # {} /\ Methods(d) \ scanned[d] \subseteq Nat
    BY <2>3, MethodsAreNumbers DEF CacheInv, CachesTyped
  <2>5. d \in Dex /\ m \in Methods(d)
    BY <2>3, <2>4, LeastOf
  <2>6. CacheInv'
    BY <2>1, <2>5, ScanKeeps
  <2> QED BY <1>1, <2>6, TableRests DEF AskedInv
<1> QED BY <1>2, <1>3

LEMMA EncodeKeeps ==
    ASSUME Inv, NEW n, encodeMethodIndex(n)
    PROVE  Inv'
<1>1. /\ \E k : methodIdx' = Grown(methodIdx, MethodNamed(k), 1)
      /\ pc = "idle" /\ UNCHANGED <<caches, pc>>
  BY DEF encodeMethodIndex, asking
<1> QED BY <1>1, NamingKeeps, CachesRest DEF Inv, AskedInv

LEMMA Step == Inv /\ [Next]_vars => Inv'
<1> SUFFICES ASSUME Inv, [Next]_vars PROVE Inv'
  OBVIOUS
<1>1. ASSUME NEW x \in Question, Ask(x) PROVE Inv'
  BY <1>1, AskKeeps
<1>2. ASSUME NEW d \in Dex, Visit(d) PROVE Inv'
  BY <1>2, VisitKeeps
<1>3. CASE Finish \/ Reply
  BY <1>3, CachesRest, TableRests DEF Finish, Reply, tables, Inv, AskedInv
<1>4. ASSUME NEW c \in NamedClass, encodeClassIndex(c) PROVE Inv'
  BY <1>4, CachesRest, TableRests DEF encodeClassIndex, asking, Inv, AskedInv
<1>5. ASSUME NEW n \in NamedField, encodeFieldIndex(n) PROVE Inv'
  BY <1>5, CachesRest, TableRests DEF encodeFieldIndex, asking, Inv, AskedInv
<1>6. ASSUME NEW n \in NamedMethod, encodeMethodIndex(n) PROVE Inv'
  BY <1>6, EncodeKeeps
<1>7. CASE createFullCache
  BY <1>7, CachesRest, TableRests DEF createFullCache, tables, Inv, AskedInv
<1>8. CASE ScanAny
  BY <1>8, ScanAnyKeeps
<1>9. CASE close
  <2>1. CachesTyped'
    BY <1>9 DEF close, CachesTyped
  <2>2. CachesAreScans'
    BY <1>9 DEF close, CachesAreScans, Range
  <2>3. methodIdx' = <<>> /\ Len(methodIdx') = 0 /\ pc' = "idle"
    BY <1>9 DEF close, asking
  <2>4. IndexInv' /\ AskedInv'
    BY <2>3 DEF IndexInv, MethodIndexIsAName, AskedInv
  <2> QED BY <2>1, <2>2, <2>4 DEF Inv, CacheInv
<1>10. CASE UNCHANGED vars
  BY <1>10, CachesRest, TableRests DEF vars, tables, asking, Inv, AskedInv
<1> QED
  BY <1>1, <1>2, <1>3, <1>4, <1>5, <1>6, <1>7, <1>8, <1>9, <1>10 DEF Next

LEMMA Always == Spec => []Inv
BY Initially, Step, PTL DEF Spec

(* For every image, every set of questions and every order of them: what   *)
(* the caches hold of a string, field or method is exactly the scanned     *)
(* methods whose code has it, so a scanned method never has to be scanned  *)
(* again and an unscanned one is never answered from the cache.            *)
THEOREM CachesTellTheCode == Spec => []CachesAreScans
<1>1. Inv => CachesAreScans
  BY DEF Inv, CacheInv
<1> QED BY <1>1, Always, PTL

(* For every image, an index handed out for a method stands for the same   *)
(* class, name and number of parameters in all dex files, and no other     *)
(* index does.                                                             *)
THEOREM IndicesAreNames == Spec => []MethodIndexIsAName
<1>1. Inv => MethodIndexIsAName
  BY DEF Inv, IndexInv
<1> QED BY <1>1, Always, PTL



-----------------------------------------------------------------------------
(* The elements of a sequence that are in a set.                           *)
Singles(s, S) == [i \in 1..Len(s) |-> IF s[i] \in S THEN <<s[i]>> ELSE <<>>]

LEMMA SinglesAre ==
  ASSUME NEW T, NEW s \in Seq(T), NEW S
  PROVE  /\ Those(s, S) = FlattenSeq(Singles(s, S))
         /\ Singles(s, S) \in Seq(Seq(T \cap S)) /\ Len(Singles(s, S)) = Len(s) /\ Len(s) \in Nat
         /\ \A i \in 1..Len(s) : /\ s[i] \in T
                                 /\ s[i] \in S => Singles(s, S)[i] = <<s[i]>>
                                 /\ s[i] \notin S => Singles(s, S)[i] = <<>>
  <1>1. Len(s) \in Nat /\ \A i \in 1..Len(s) : s[i] \in T
    OBVIOUS
  <1>2. \A i \in 1..Len(s) : Singles(s, S)[i] = IF s[i] \in S THEN <<s[i]>> ELSE <<>>
    BY DEF Singles
  <1> DEFINE U == T \cap S
  <1>3. ASSUME NEW i \in 1..Len(s) PROVE Singles(s, S)[i] \in Seq(U)
    <2>1. CASE s[i] \in S
      <3>1. s[i] \in U /\ Singles(s, S)[i] = <<s[i]>>
        BY <1>1, <1>2, <2>1
      <3> HIDE DEF U
      <3> QED  BY <3>1
    <2>2. CASE s[i] \notin S
      <3>1. Singles(s, S)[i] = <<>>
        BY <1>2, <2>2
      <3> HIDE DEF U
      <3> QED  BY <3>1
    <2> QED  BY <2>1, <2>2
  <1> HIDE DEF U
  <1>4. Singles(s, S) \in Seq(Seq(U)) /\ Len(Singles(s, S)) = Len(s)
    BY <1>1, <1>3 DEF Singles
  <1> QED  BY <1>1, <1>2, <1>4 DEF U, Those, Singles

LEMMA ThoseAre ==
  ASSUME NEW T, NEW s \in Seq(T), NEW S
  PROVE  Those(s, S) \in Seq(T \cap S) /\ Range(Those(s, S)) = Range(s) \cap S
  <1> DEFINE h == Singles(s, S)
             U == T \cap S
  <1>1. Those(s, S) = FlattenSeq(h) /\ h \in Seq(Seq(U)) /\ Len(h) = Len(s) /\ Len(s) \in Nat
    BY SinglesAre
  <1>2. \A i \in 1..Len(s) : /\ s[i] \in S => h[i] = <<s[i]>>
                             /\ s[i] \notin S => h[i] = <<>>
    BY DEF Singles
  <1> HIDE DEF h, U
  <1>3. Those(s, S) \in Seq(U) /\ Range(Those(s, S)) = UNION {Range(h[i]) : i \in 1..Len(h)}
    BY <1>1, Flattened
  <1>4. ASSUME NEW i \in 1..Len(s) PROVE Range(h[i]) = IF s[i] \in S THEN {s[i]} ELSE {}
    BY <1>2, RangeOfOne
  <1>5. Range(s) = {s[i] : i \in 1..Len(s)}
    BY DEF Range
  <1>6. \A x : x \in Range(Those(s, S)) <=> \E i \in 1..Len(s) : x \in Range(h[i])
    BY <1>1, <1>3
  <1>7. \A x : x \in Range(s) <=> \E i \in 1..Len(s) : x = s[i]
    BY <1>5
  <1>8. ASSUME NEW x PROVE x \in Range(Those(s, S)) <=> x \in Range(s) \cap S
    <2>1. x \in Range(Those(s, S)) <=> \E i \in 1..Len(s) : x = s[i] /\ s[i] \in S
      BY <1>4, <1>6, Zenon
    <2>2. x \in Range(s) \cap S <=> \E i \in 1..Len(s) : x = s[i] /\ s[i] \in S
      BY <1>7, Zenon
    <2> QED  BY <2>1, <2>2, Zenon
  <1> QED  BY <1>3, <1>8 DEF U

(* The first of them, and that it stays the first.                         *)
LEMMA FirstOfThose ==
  ASSUME NEW T, NEW s \in Seq(T), NEW S, Those(s, S) # <<>>
  PROVE  \E i \in 1..Len(s) : /\ s[i] \in S /\ Head(Those(s, S)) = s[i]
                              /\ \A j \in 1..(i - 1) : s[j] \notin S
  <1> DEFINE h == Singles(s, S)
             U == T \cap S
  <1>1. Those(s, S) = FlattenSeq(h) /\ h \in Seq(Seq(U)) /\ Len(h) = Len(s) /\ Len(s) \in Nat
    BY SinglesAre
  <1>2. \A i \in 1..Len(s) : /\ s[i] \in S => h[i] = <<s[i]>>
                             /\ s[i] \notin S => h[i] = <<>>
    BY DEF Singles
  <1> HIDE DEF h, U
  <1>3. PICK i \in 1..Len(h) : /\ h[i] # <<>> /\ Head(FlattenSeq(h)) = Head(h[i])
                               /\ \A j \in 1..(i - 1) : h[j] = <<>>
    BY <1>1, FlatHead
  <1>4. s[i] \in S /\ Head(h[i]) = s[i]
    BY <1>1, <1>2, <1>3
  <1>5. ASSUME NEW j \in 1..(i - 1) PROVE s[j] \notin S
    <2>1. j \in 1..Len(s) /\ h[j] = <<>>
      BY <1>1, <1>3
    <2>2. s[j] \in S => h[j] = <<s[j]>>
      BY <1>2, <2>1
    <2>3. <<s[j]>> # <<>>
      OBVIOUS
    <2> QED  BY <2>1, <2>2, <2>3
  <1> QED  BY <1>1, <1>3, <1>4, <1>5

LEMMA FirstStays ==
  ASSUME NEW T, NEW s \in Seq(T), NEW t \in Seq(T), NEW S, Those(s, S) # <<>>
  PROVE  Those(s \o t, S) # <<>> /\ Head(Those(s \o t, S)) = Head(Those(s, S))
  <1>1. PICK i \in 1..Len(s) : /\ s[i] \in S /\ Head(Those(s, S)) = s[i]
                               /\ \A j \in 1..(i - 1) : s[j] \notin S
    BY FirstOfThose
  <1>2. /\ s \o t \in Seq(T) /\ Len(s) \in Nat /\ Len(t) \in Nat /\ Len(s \o t) = Len(s) + Len(t)
        /\ \A j \in 1..Len(s) : (s \o t)[j] = s[j]
    OBVIOUS
  <1>3. s[i] \in Range(s \o t)
    BY <1>2 DEF Range
  <1>4. Those(s \o t, S) # <<>>
    <2>0. Range(Those(s \o t, S)) = Range(s \o t) \cap S
      BY <1>2, ThoseAre
    <2>1. s[i] \in Range(Those(s \o t, S))
      BY <1>1, <1>3, <2>0
    <2> QED  BY <2>1 DEF Range
  <1>5. PICK k \in 1..Len(s \o t) : /\ (s \o t)[k] \in S /\ Head(Those(s \o t, S)) = (s \o t)[k]
                                    /\ \A j \in 1..(k - 1) : (s \o t)[j] \notin S
    BY <1>2, <1>4, FirstOfThose
  <1>6. k = i
    BY <1>1, <1>2, <1>5
  <1> QED  BY <1>1, <1>2, <1>4, <1>5, <1>6

-----------------------------------------------------------------------------
(* The tables of classes and of fields.  The candidates of every name in   *)
(* the image, and the rows that stand for a name.                          *)
ClassFamily ==
    [n \in UNION {{Name(d, t) : t \in Types(d)} : d \in Dex} |-> ClassNamed(n)]
FieldFamily ==
    [n \in UNION {{[class |-> Name(d, Field(d, f).class), name |-> Field(d, f).name] :
                      f \in Fields(d)} : d \in Dex} |-> FieldNamed(n)]

IsFamily(fam) ==
    /\ \A n \in DOMAIN fam : \A d \in Dex : \E k \in Nat : fam[n][d] \subseteq 1..k
    /\ \A n, o \in DOMAIN fam : \A d \in Dex : fam[n][d] \cap fam[o][d] # {} => n = o

StandsFor(r, n, fam) ==
    \E from \in Dex : ~IsNowhere(fam[n], from) /\ r = Row(fam[n], from)

(* Every row stands for a name and no two of them for the same one.        *)
TableInv(idx, fam) ==
    /\ idx \in Seq([Dex -> Nat \cup {Absent}])
    /\ \A i \in 1..Len(idx) : \E n \in DOMAIN fam : StandsFor(idx[i], n, fam)
    /\ \A i, j \in 1..Len(idx) : \A n \in DOMAIN fam :
          StandsFor(idx[i], n, fam) /\ StandsFor(idx[j], n, fam) => i = j

LEMMA RowStands ==
    ASSUME NEW fam, IsFamily(fam), NEW n \in DOMAIN fam, NEW from \in Dex,
           ~IsNowhere(fam[n], from)
    PROVE  LET r == Row(fam[n], from)
           IN /\ r \in [Dex -> Nat \cup {Absent}]
              /\ \A d \in Dex : r[d] = Absent \/ (r[d] \in Nat /\ r[d] \in fam[n][d])
              /\ \A d \in Dex : d >= from /\ fam[n][d] # {} => r[d] \in fam[n][d]
              /\ \E d \in Dex : d >= from /\ r[d] \in fam[n][d]
<1> DEFINE c == fam[n]
           r == Row(c, from)
<1>1. ASSUME NEW d \in Dex
      PROVE r[d] = IF d < from \/ c[d] = {} THEN Absent ELSE Max(c[d])
  BY DEF Row
<1>2. ASSUME NEW d \in Dex, c[d] # {} PROVE Max(c[d]) \in c[d] /\ Max(c[d]) \in Nat
  <2>1. PICK k \in Nat : c[d] \subseteq 1..k
    BY DEF IsFamily
  <2>2. Max(c[d]) \in c[d]
    BY <1>2, <2>1, GreatestOf
  <2> QED BY <2>1, <2>2
<1>3. \A d \in Dex : r[d] = Absent \/ (r[d] \in Nat /\ r[d] \in c[d])
  BY <1>1, <1>2
<1>4. r \in [Dex -> Nat \cup {Absent}]
  BY <1>3 DEF Row
<1>5. \A d \in Dex : d >= from /\ c[d] # {} => r[d] \in c[d]
  <2>1. \A d \in Dex : d \in Nat /\ from \in Nat
    BY DEF Dex
  <2> QED BY <1>1, <1>2, <2>1
<1>6. \E d \in Dex : d >= from /\ c[d] # {}
  BY DEF IsNowhere
<1> QED BY <1>3, <1>4, <1>5, <1>6

LEMMA EntriesTell ==
    ASSUME NEW fam, IsFamily(fam), NEW r, NEW n \in DOMAIN fam, StandsFor(r, n, fam)
    PROVE  /\ \A d \in Dex : r[d] = Absent \/ (r[d] \in Nat /\ r[d] \in fam[n][d])
           /\ \A o \in DOMAIN fam : \A d \in Dex : r[d] \in fam[o][d] => n = o
           /\ \E d \in Dex : r[d] \in fam[n][d]
<1>1. PICK from \in Dex : ~IsNowhere(fam[n], from) /\ r = Row(fam[n], from)
  BY DEF StandsFor
<1>2. /\ \A d \in Dex : r[d] = Absent \/ (r[d] \in Nat /\ r[d] \in fam[n][d])
      /\ \E d \in Dex : r[d] \in fam[n][d]
  BY <1>1, RowStands
<1>3. ASSUME NEW o \in DOMAIN fam, NEW d \in Dex, r[d] \in fam[o][d] PROVE n = o
  <2>1. PICK k \in Nat : fam[o][d] \subseteq 1..k
    BY DEF IsFamily
  <2>2. r[d] # Absent
    BY <1>3, <2>1, MarksAreNoIds
  <2>3. r[d] \in fam[n][d] \cap fam[o][d]
    BY <1>2, <1>3, <2>2
  <2> QED BY <2>3 DEF IsFamily
<1> QED BY <1>2, <1>3

(* A row that stands for a name is found by looking for the name from      *)
(* where the name still has a candidate.                                   *)
LEMMA StandingIsKnown ==
    ASSUME NEW fam, IsFamily(fam), NEW idx, TableInv(idx, fam),
           NEW n \in DOMAIN fam, NEW i \in 1..Len(idx), StandsFor(idx[i], n, fam),
           NEW from \in Dex, ~IsNowhere(fam[n], from)
    PROVE  IsKnown(idx, fam[n], from)
<1>1. PICK f \in Dex : ~IsNowhere(fam[n], f) /\ idx[i] = Row(fam[n], f)
  BY DEF StandsFor
<1>2. PICK e \in Dex : e >= from /\ fam[n][e] # {}
  BY DEF IsNowhere
<1>3. /\ \A d \in Dex : d >= f /\ fam[n][d] # {} => idx[i][d] \in fam[n][d]
      /\ \E d \in Dex : d >= f /\ idx[i][d] \in fam[n][d]
  BY <1>1, RowStands
<1>4. PICK d \in Dex : d >= from /\ idx[i][d] \in fam[n][d]
  <2>1. from \in Nat /\ f \in Nat /\ \A d \in Dex : d \in Nat
    BY DEF Dex
  <2>2. CASE f <= from
    BY <1>2, <1>3, <2>1, <2>2
  <2>3. CASE f > from
    <3>1. PICK d \in Dex : d >= f /\ idx[i][d] \in fam[n][d]
      BY <1>3
    <3>2. d >= from
      BY <2>1, <2>3, <3>1
    <3> QED BY <3>1, <3>2
  <2> QED BY <2>1, <2>2, <2>3
<1>5. idx[i][d] \in Marked(idx, fam[n], d)
  BY <1>4 DEF Marked
<1> QED BY <1>4, <1>5 DEF IsKnown

(* A table only grows, whatever is looked for in it.                       *)
LEMMA Grows ==
    ASSUME NEW S, NEW idx \in Seq(S), NEW c, NEW from, Row(c, from) \in S
    PROVE  LET new == Grown(idx, c, from)
           IN /\ new \in Seq(S) /\ Len(new) \in Nat /\ Len(idx) \in Nat
              /\ Len(new) >= Len(idx)
              /\ \A i \in 1..Len(idx) : new[i] = idx[i]
              /\ \A i \in 1..Len(new) : i \in 1..Len(idx) \/ new[i] = Row(c, from)
<1> DEFINE r == Row(c, from)
<1>1. r \in S
  OBVIOUS
<1> HIDE DEF r
<1>2. /\ Append(idx, r) \in Seq(S) /\ Len(Append(idx, r)) = Len(idx) + 1 /\ Len(idx) \in Nat
      /\ Append(idx, r)[Len(idx) + 1] = r
      /\ \A i \in 1..Len(idx) : Append(idx, r)[i] = idx[i]
  BY <1>1, Appended
<1>3. Grown(idx, c, from) = idx \/ Grown(idx, c, from) = Append(idx, r)
  BY DEF Grown, r
<1>4. \A i \in 1..(Len(idx) + 1) : i \in 1..Len(idx) \/ i = Len(idx) + 1
  BY <1>2
<1>5. CASE Grown(idx, c, from) = idx
  BY <1>2, <1>5 DEF r
<1>6. CASE Grown(idx, c, from) = Append(idx, r)
  BY <1>2, <1>4, <1>6 DEF r
<1> QED BY <1>3, <1>5, <1>6

LEMMA GrownKeeps ==
    ASSUME NEW fam, IsFamily(fam), NEW idx, TableInv(idx, fam),
           NEW n \in DOMAIN fam, NEW from \in Nat \ {0}
    PROVE  LET new == Grown(idx, fam[n], from)
           IN /\ TableInv(new, fam) /\ Len(new) \in Nat /\ Len(idx) \in Nat
              /\ Len(new) >= Len(idx)
              /\ \A i \in 1..Len(idx) : new[i] = idx[i]
<1> DEFINE c == fam[n]
           new == Grown(idx, c, from)
           r == Row(c, from)
           S == [Dex -> Nat \cup {Absent}]
<1>1. CASE new = idx
  <2>1. Len(idx) \in Nat
    BY DEF TableInv
  <2> QED BY <1>1, <2>1
<1>2. CASE ~IsKnown(idx, c, from) /\ ~IsNowhere(c, from)
  <2>1. from \in Dex
    <3>1. PICK d \in Dex : d >= from
      BY <1>2 DEF IsNowhere
    <3> QED BY <3>1 DEF Dex
  <2>2. r \in S /\ StandsFor(r, n, fam)
    BY <1>2, <2>1, RowStands DEF StandsFor
  <2>3. \A i \in 1..Len(idx) : ~StandsFor(idx[i], n, fam)
    BY <1>2, <2>1, StandingIsKnown
  <2>4. new = Append(idx, r) /\ idx \in Seq(S)
    BY <1>2 DEF Grown, TableInv
  <2> HIDE DEF S, r, new, c
  <2>5. /\ new \in Seq(S) /\ Len(new) = Len(idx) + 1 /\ Len(idx) \in Nat
        /\ new[Len(idx) + 1] = r /\ \A i \in 1..Len(idx) : new[i] = idx[i]
    BY <2>2, <2>4, Appended
  <2>6. \A i \in 1..Len(new) : i \in 1..Len(idx) \/ i = Len(idx) + 1
    BY <2>5
  <2>7. \A i \in 1..Len(new) : \E o \in DOMAIN fam : StandsFor(new[i], o, fam)
    BY <2>2, <2>5, <2>6 DEF TableInv
  <2>8. ASSUME NEW i \in 1..Len(new), NEW j \in 1..Len(new), NEW o \in DOMAIN fam,
               StandsFor(new[i], o, fam), StandsFor(new[j], o, fam)
        PROVE  i = j
    <3>1. StandsFor(r, o, fam) => o = n
      BY <2>2, EntriesTell
    <3>2. CASE i \in 1..Len(idx) /\ j \in 1..Len(idx)
      BY <2>5, <2>8, <3>2 DEF TableInv
    <3>3. CASE i = Len(idx) + 1 \/ j = Len(idx) + 1
      BY <2>3, <2>5, <2>6, <2>8, <3>1, <3>3
    <3> QED BY <2>6, <3>2, <3>3
  <2>9. TableInv(new, fam)
    BY <2>5, <2>7, <2>8 DEF TableInv, S
  <2> QED BY <2>5, <2>9 DEF new, c
<1> QED BY <1>1, <1>2 DEF Grown

(* What a row stands for is found at the row again.                        *)
LEMMA FoundAgain ==
    ASSUME NEW fam, IsFamily(fam), NEW idx, TableInv(idx, fam),
           NEW n \in DOMAIN fam, NEW i \in 1..Len(idx), StandsFor(idx[i], n, fam)
    PROVE  Index(idx, fam[n], 1) = i
<1> DEFINE c == fam[n]
           at == {e \in Dex : e >= 1 /\ Marked(idx, c, e) # {}}
           d == Min(at)
           m == Min(Marked(idx, c, d))
<1>1. PICK e \in Dex : idx[i][e] \in c[e]
  BY EntriesTell
<1>2. idx[i][e] \in Marked(idx, c, e) /\ e >= 1
  BY <1>1 DEF Marked, Dex
<1>3. at # {} /\ at \subseteq Nat /\ IsKnown(idx, c, 1)
  BY <1>2 DEF IsKnown, Dex
<1>4. d \in at
  BY <1>3, LeastOf
<1>5. d \in Dex /\ Marked(idx, c, d) # {}
  BY <1>4
<1> HIDE DEF d
<1>6. PICK k \in Nat : c[d] \subseteq 1..k
  BY <1>5 DEF IsFamily
<1>7. Marked(idx, c, d) \subseteq Nat
  BY <1>6 DEF Marked
<1>8. m \in Marked(idx, c, d)
  BY <1>5, <1>7, LeastOf
<1> HIDE DEF m
<1>9. m \in c[d] /\ \E j \in 1..Len(idx) : idx[j][d] = m
  BY <1>8 DEF Marked
<1>10. ASSUME NEW j \in 1..Len(idx), idx[j][d] = m PROVE j = i
  <2>1. PICK o \in DOMAIN fam : StandsFor(idx[j], o, fam)
    BY DEF TableInv
  <2>2. o = n
    BY <1>5, <1>9, <1>10, <2>1, EntriesTell
  <2> QED BY <2>1, <2>2 DEF TableInv
<1>11. Index(idx, c, 1) = CHOOSE j \in 1..Len(idx) : idx[j][d] = m
  BY <1>3 DEF Index, KnownAs, d, m
<1> QED BY <1>9, <1>10, <1>11

LEMMA Families == IsFamily(ClassFamily) /\ IsFamily(FieldFamily)
<1>1. ASSUME NEW d \in Dex
      PROVE  /\ Len(Image[d].types) \in Nat /\ Types(d) = 1..Len(Image[d].types)
             /\ Len(Image[d].fields) \in Nat /\ Fields(d) = 1..Len(Image[d].fields)
  BY ImageIsWellFormed DEF Types, Fields
<1>2. /\ \A n \in DOMAIN ClassFamily : ClassFamily[n] = ClassNamed(n)
      /\ \A n \in DOMAIN FieldFamily : FieldFamily[n] = FieldNamed(n)
  BY DEF ClassFamily, FieldFamily
<1>3. \A d \in Dex : \A n : ClassNamed(n)[d] = {t \in Types(d) : Name(d, t) = n}
  BY DEF ClassNamed
<1>4. \A d \in Dex : \A n : FieldNamed(n)[d] = {f \in Fields(d) :
        n = [class |-> Name(d, Field(d, f).class), name |-> Field(d, f).name]}
  BY DEF FieldNamed
<1>5. IsFamily(ClassFamily)
  <2>1. ASSUME NEW n \in DOMAIN ClassFamily, NEW d \in Dex
        PROVE  \E k \in Nat : ClassFamily[n][d] \subseteq 1..k
    BY <1>1, <1>2, <1>3
  <2>2. ASSUME NEW n \in DOMAIN ClassFamily, NEW o \in DOMAIN ClassFamily, NEW d \in Dex,
               ClassFamily[n][d] \cap ClassFamily[o][d] # {}
        PROVE  n = o
    BY <1>2, <1>3, <2>2
  <2> QED BY <2>1, <2>2 DEF IsFamily
<1>6. IsFamily(FieldFamily)
  <2>1. ASSUME NEW n \in DOMAIN FieldFamily, NEW d \in Dex
        PROVE  \E k \in Nat : FieldFamily[n][d] \subseteq 1..k
    BY <1>1, <1>2, <1>4
  <2>2. ASSUME NEW n \in DOMAIN FieldFamily, NEW o \in DOMAIN FieldFamily, NEW d \in Dex,
               FieldFamily[n][d] \cap FieldFamily[o][d] # {}
        PROVE  n = o
    <3>1. PICK f : f \in FieldNamed(n)[d] /\ f \in FieldNamed(o)[d]
      BY <1>2, <2>2
    <3> DEFINE key == [class |-> Name(d, Field(d, f).class), name |-> Field(d, f).name]
    <3>2. n = key /\ o = key
      BY <1>4, <3>1
    <3> QED BY <3>2
  <2> QED BY <2>1, <2>2 DEF IsFamily
<1> QED BY <1>5, <1>6

LEMMA ClassTableGrows ==
    ASSUME TableInv(classIdx, ClassFamily), NEW n
    PROVE  LET new == Grown(classIdx, ClassNamed(n), 1)
           IN /\ TableInv(new, ClassFamily) /\ Len(new) \in Nat /\ Len(classIdx) \in Nat
              /\ Len(new) >= Len(classIdx)
              /\ \A i \in 1..Len(classIdx) : new[i] = classIdx[i]
<1>1. CASE n \in DOMAIN ClassFamily
  <2>1. ClassFamily[n] = ClassNamed(n)
    BY <1>1 DEF ClassFamily
  <2> QED BY <1>1, <2>1, Families, GrownKeeps
<1>2. CASE n \notin DOMAIN ClassFamily
  <2>1. DOMAIN ClassFamily = UNION {{Name(d, t) : t \in Types(d)} : d \in Dex}
    BY DEF ClassFamily
  <2>2. \A d \in Dex : \A t \in Types(d) : Name(d, t) # n
    BY <1>2, <2>1
  <2>3. IsNowhere(ClassNamed(n), 1)
    BY <2>2 DEF IsNowhere, ClassNamed
  <2>4. Grown(classIdx, ClassNamed(n), 1) = classIdx
    BY <2>3 DEF Grown
  <2>5. Len(classIdx) \in Nat
    BY DEF TableInv
  <2> QED BY <2>4, <2>5
<1> QED BY <1>1, <1>2

LEMMA FieldTableGrows ==
    ASSUME TableInv(fieldIdx, FieldFamily), NEW n, NEW from \in Nat \ {0}
    PROVE  LET new == Grown(fieldIdx, FieldNamed(n), from)
           IN /\ TableInv(new, FieldFamily) /\ Len(new) \in Nat /\ Len(fieldIdx) \in Nat
              /\ Len(new) >= Len(fieldIdx)
              /\ \A i \in 1..Len(fieldIdx) : new[i] = fieldIdx[i]
<1>1. CASE n \in DOMAIN FieldFamily
  <2>1. FieldFamily[n] = FieldNamed(n)
    BY <1>1 DEF FieldFamily
  <2> QED BY <1>1, <2>1, Families, GrownKeeps
<1>2. CASE n \notin DOMAIN FieldFamily
  <2> DEFINE key(d, f) == [class |-> Name(d, Field(d, f).class), name |-> Field(d, f).name]
  <2>1. DOMAIN FieldFamily = UNION {{key(d, f) : f \in Fields(d)} : d \in Dex}
    BY DEF FieldFamily
  <2>2. \A d \in Dex : \A f \in Fields(d) : key(d, f) # n
    <3> HIDE DEF key
    <3> QED BY <1>2, <2>1
  <2>3. \A d \in Dex : FieldNamed(n)[d] = {f \in Fields(d) : n = key(d, f)}
    BY DEF FieldNamed
  <2> HIDE DEF key
  <2>4. IsNowhere(FieldNamed(n), from)
    BY <2>2, <2>3 DEF IsNowhere
  <2>5. Grown(fieldIdx, FieldNamed(n), from) = fieldIdx
    BY <2>4 DEF Grown
  <2>6. Len(fieldIdx) \in Nat
    BY DEF TableInv
  <2> QED BY <2>5, <2>6
<1> QED BY <1>1, <1>2

NamesInv == TableInv(classIdx, ClassFamily) /\ TableInv(fieldIdx, FieldFamily)

LEMMA FirstWithIs ==
    ASSUME NEW fam, IsFamily(fam), NEW r, NEW n \in DOMAIN fam, StandsFor(r, n, fam)
    PROVE  FirstWith(r) \in Dex /\ r[FirstWith(r)] \in fam[n][FirstWith(r)]
<1> DEFINE has == {d \in Dex : r[d] # Absent}
<1>1. PICK e \in Dex : r[e] \in fam[n][e]
  BY EntriesTell
<1>2. PICK k \in Nat : fam[n][e] \subseteq 1..k
  BY DEF IsFamily
<1>3. has \subseteq Nat /\ has # {}
  BY <1>1, <1>2, MarksAreNoIds DEF Dex
<1>4. FirstWith(r) \in has
  BY <1>3, LeastOf DEF FirstWith
<1> QED BY <1>4, EntriesTell

LEMMA DecodesBack == ASSUME NamesInv PROVE IndicesDecodeBack
<1>1. ASSUME NEW i \in 1..Len(classIdx)
      PROVE  Index(classIdx, ClassNamed(DecodeClass(i)), 1) = i
  <2>1. PICK n \in DOMAIN ClassFamily : StandsFor(classIdx[i], n, ClassFamily)
    BY DEF NamesInv, TableInv
  <2> DEFINE d == FirstWith(classIdx[i])
  <2>2. ClassFamily[n] = ClassNamed(n)
    BY DEF ClassFamily
  <2>3. d \in Dex /\ classIdx[i][d] \in ClassNamed(n)[d]
    BY <2>1, <2>2, Families, FirstWithIs
  <2>4. DecodeClass(i) = n
    BY <2>3 DEF DecodeClass, ClassNamed
  <2> QED BY <2>1, <2>2, <2>4, Families, FoundAgain DEF NamesInv
<1>2. ASSUME NEW i \in 1..Len(fieldIdx)
      PROVE  /\ Index(fieldIdx, FieldNamed(DecodeField(i)), 1) = i
             /\ \E from \in Dex : fieldIdx[i] = Row(FieldNamed(DecodeField(i)), from)
  <2>1. PICK n \in DOMAIN FieldFamily : StandsFor(fieldIdx[i], n, FieldFamily)
    BY DEF NamesInv, TableInv
  <2> DEFINE d == FirstWith(fieldIdx[i])
  <2>2. FieldFamily[n] = FieldNamed(n)
    BY DEF FieldFamily
  <2>3. d \in Dex /\ fieldIdx[i][d] \in FieldNamed(n)[d]
    BY <2>1, <2>2, Families, FirstWithIs
  <2>4. DecodeField(i) = n
    BY <2>3 DEF DecodeField, FieldNamed
  <2> QED BY <2>1, <2>2, <2>4, Families, FoundAgain DEF NamesInv, StandsFor
<1> QED BY <1>1, <1>2 DEF IndicesDecodeBack

LEMMA NamesRest ==
    ASSUME NamesInv, UNCHANGED <<classIdx, fieldIdx>> PROVE NamesInv'
BY DEF NamesInv, TableInv, StandsFor

(* What a step does to the tables of classes and fields.                   *)
LEMMA TablesStep ==
    ASSUME [Next]_vars
    PROVE  \/ UNCHANGED <<classIdx, fieldIdx>>
           \/ UNCHANGED fieldIdx /\ \E n : classIdx' = Grown(classIdx, ClassNamed(n), 1)
           \/ UNCHANGED classIdx /\ \E n : \E d \in Nat \ {0} :
                    fieldIdx' = Grown(fieldIdx, FieldNamed(n), d)
           \/ close
<1> USE DEF tables
<1>1. ASSUME NEW x \in Question, Ask(x) PROVE UNCHANGED <<classIdx, fieldIdx>>
  BY <1>1 DEF Ask, findMethodUsingString, findMethodInvoking, findMethodInvoked,
         findMethodGettingField, findMethodSettingField, findField,
         FindMethodUsingString, FindMethodInvoking, FindMethodInvoked,
         FindMethodGettingField, FindMethodSettingField, FindField, NoHandler, Begin
<1>2. ASSUME NEW d \in Dex, Emit(d)
      PROVE  /\ UNCHANGED classIdx
             /\ \/ UNCHANGED fieldIdx
                \/ \E n : \E e \in Nat \ {0} : fieldIdx' = Grown(fieldIdx, FieldNamed(n), e)
  <2>1. d \in Nat \ {0}
    BY DEF Dex
  <2> QED BY <1>2, <2>1 DEF Emit
<1>3. ASSUME NEW d \in Dex, Visit(d), ~Emit(d) PROVE UNCHANGED <<classIdx, fieldIdx>>
  BY <1>3 DEF Visit, PassBy, AnswerFromCache, StartScan, ScanNext, Collect,
     CollectCallees, CollectFields, NextDex
<1>4. CASE Finish \/ Reply \/ createFullCache \/ ScanAny \/ UNCHANGED vars
  BY <1>4 DEF Finish, Reply, createFullCache, ScanAny, vars
<1>5. ASSUME NEW c \in NamedClass, encodeClassIndex(c)
      PROVE  UNCHANGED fieldIdx /\ \E n : classIdx' = Grown(classIdx, ClassNamed(n), 1)
  BY <1>5 DEF encodeClassIndex
<1>6. ASSUME NEW n \in NamedField, encodeFieldIndex(n)
      PROVE  UNCHANGED classIdx /\ \E k : \E d \in Nat \ {0} :
                fieldIdx' = Grown(fieldIdx, FieldNamed(k), d)
  <2>1. UNCHANGED classIdx /\ \E k : fieldIdx' = Grown(fieldIdx, FieldNamed(k), 1)
    BY <1>6 DEF encodeFieldIndex
  <2>2. 1 \in Nat \ {0}
    OBVIOUS
  <2> QED BY <2>1, <2>2
<1>7. ASSUME NEW n \in NamedMethod, encodeMethodIndex(n)
      PROVE  UNCHANGED <<classIdx, fieldIdx>>
  BY <1>7 DEF encodeMethodIndex
<1> QED BY <1>1, <1>2, <1>3, <1>4, <1>5, <1>6, <1>7 DEF Next

LEMMA NamesKept ==
    ASSUME NamesInv, [Next]_vars
    PROVE  NamesInv'
<1>1. CASE UNCHANGED <<classIdx, fieldIdx>>
  BY <1>1, NamesRest
<1>2. ASSUME UNCHANGED fieldIdx, NEW n, classIdx' = Grown(classIdx, ClassNamed(n), 1)
      PROVE  NamesInv'
  <2>1. TableInv(classIdx', ClassFamily)
    BY <1>2, ClassTableGrows DEF NamesInv
  <2> QED BY <1>2, <2>1, SMTT(30) DEF NamesInv, TableInv, StandsFor
<1>3. ASSUME UNCHANGED classIdx, NEW n, NEW d \in Nat \ {0},
             fieldIdx' = Grown(fieldIdx, FieldNamed(n), d)
      PROVE  NamesInv'
  <2>1. TableInv(fieldIdx', FieldFamily)
    BY <1>3, FieldTableGrows DEF NamesInv
  <2> QED BY <1>3, <2>1 DEF NamesInv, TableInv, StandsFor
<1>4. CASE close
  BY <1>4 DEF close, NamesInv, TableInv
<1> QED BY <1>1, <1>2, <1>3, <1>4, TablesStep

-----------------------------------------------------------------------------
(* What a question looks for.                                              *)
Kinds == {"string", "invoking", "invoked", "getting", "setting", "field"}
Named(x) ==
    /\ x.kind \in Kinds
    /\ x.kind \in {"invoking", "invoked"} => x.of \in 1..Len(methodIdx)
    /\ x.kind \in {"getting", "setting"} => x.of \in 1..Len(fieldIdx)
    /\ x.kind = "field" => x.of \in 1..Len(classIdx)

RowsTyped ==
    /\ \A i \in 1..Len(methodIdx) : \A d \in Dex : methodIdx[i][d] \in Methods(d) \cup {Absent}
    /\ \A i \in 1..Len(classIdx) : \A d \in Dex : classIdx[i][d] \in Types(d) \cup {Absent}
    /\ \A i \in 1..Len(fieldIdx) : \A d \in Dex : fieldIdx[i][d] \in Fields(d) \cup {Absent}

LEMMA RowsAreTyped == ASSUME IndexInv, NamesInv PROVE RowsTyped
<1>1. \A i \in 1..Len(methodIdx) : \A d \in Dex : methodIdx[i][d] \in Methods(d) \cup {Absent}
  BY DEF IndexInv, IsMethodRow
<1>2. ASSUME NEW i \in 1..Len(classIdx), NEW d \in Dex
      PROVE  classIdx[i][d] \in Types(d) \cup {Absent}
  <2>1. PICK n \in DOMAIN ClassFamily : StandsFor(classIdx[i], n, ClassFamily)
    BY DEF NamesInv, TableInv
  <2>2. ClassFamily[n][d] \subseteq Types(d)
    BY DEF ClassFamily, ClassNamed
  <2> QED BY <2>1, <2>2, Families, EntriesTell
<1>3. ASSUME NEW i \in 1..Len(fieldIdx), NEW d \in Dex
      PROVE  fieldIdx[i][d] \in Fields(d) \cup {Absent}
  <2>1. PICK n \in DOMAIN FieldFamily : StandsFor(fieldIdx[i], n, FieldFamily)
    BY DEF NamesInv, TableInv
  <2>2. FieldFamily[n][d] \subseteq Fields(d)
    BY DEF FieldFamily, FieldNamed
  <2> QED BY <2>1, <2>2, Families, EntriesTell
<1> QED BY <1>1, <1>2, <1>3 DEF RowsTyped

LEMMA PriorityIs == ASSUME NEW x \in Question PROVE GetPriority(x) \in Seq(Dex)
<1>1. CASE x.order = <<>>
  <2>1. Len(Image) \in Nat
    BY ImageIsWellFormed
  <2> QED BY <1>1, <2>1 DEF GetPriority, Dex
<1>2. CASE x.order # <<>>
  <2>1. x.order \in Seq(Nat)
    BY QuestionsAreTyped
  <2>2. Those(x.order, Dex) \in Seq(Nat \cap Dex) /\ Nat \cap Dex \subseteq Dex
    BY <2>1, ThoseAre
  <2>3. Those(x.order, Dex) \in Seq(Dex)
    BY <2>2, InLarger
  <2> QED BY <1>2, <2>3 DEF GetPriority
<1> QED BY <1>1, <1>2

LEMMA TargetIs ==
    ASSUME RowsTyped, NEW x, Named(x), NEW d \in Dex, x.kind # "string", ~PassedBy(d, x)
    PROVE  /\ x.kind \in {"invoking", "invoked"} => Target(d, x) \in Methods(d)
           /\ x.kind \in {"getting", "setting"} => Target(d, x) \in Fields(d)
BY DEF RowsTyped, Named, Kinds, Target, PassedBy

(* The strings looked for are strings of the file.                         *)
LEMMA StringsAre ==
    ASSUME NEW d \in Dex, NEW x
    PROVE  /\ Cardinality(StringsFound(d, x)) \in Nat
           /\ \A i \in 1..Cardinality(StringsFound(d, x)) :
                 Min(StringsFound(d, x)) + (i - 1) \in Strings(d)
<1> DEFINE S == StringsFound(d, x)
           n == Len(Image[d].strings)
           a == Min(S)
<1>1. n \in Nat /\ S \subseteq 1..n /\ Strings(d) = 1..n
  BY ImageIsWellFormed DEF StringsFound, Strings
<1>2. CASE S = {}
  BY <1>2, FS_EmptySet
<1>3. CASE S # {}
  <2>1. S \subseteq Nat
    BY <1>1
  <2>2. a \in S /\ \A y \in S : a <= y
    BY <1>3, <2>1, LeastOf
  <2> HIDE DEF a
  <2>3. a \in 1..n /\ S \subseteq a..n
    BY <1>1, <2>2
  <2>4. IsFiniteSet(a..n) /\ Cardinality(a..n) = (n - a) + 1
    <3>1. a \in Int /\ n \in Int /\ a <= n
      BY <1>1, <2>3
    <3> QED BY <3>1, FS_Interval
  <2>5. Cardinality(S) \in Nat /\ Cardinality(S) <= (n - a) + 1
    <3>1. IsFiniteSet(S) /\ Cardinality(S) <= Cardinality(a..n)
      BY <2>3, <2>4, FS_Subset
    <3> QED BY <2>4, <3>1, FS_CardinalityType
  <2>6. ASSUME NEW i \in 1..Cardinality(S) PROVE a + (i - 1) \in 1..n
    BY <1>1, <2>3, <2>5
  <2> QED BY <1>1, <2>5, <2>6 DEF a
<1> QED BY <1>2, <1>3

LEMMA SoughtIs ==
    ASSUME RowsTyped, NEW x, Named(x), NEW d \in Dex, ~PassedBy(d, x),
           x.kind \in {"string", "invoked", "getting", "setting"}
    PROVE  /\ Sought(d, x) \in Seq(Operand[d])
           /\ x.kind # "string" => /\ Sought(d, x) = <<Sought(d, x)[1]>>
                                   /\ Sought(d, x)[1] \in Operand[d]
<1>1. Operand[d] = ({"string"} \X Strings(d)) \cup ({"get", "put"} \X Fields(d))
                   \cup ({"invoke"} \X Methods(d))
  BY DEF Operand
<1>2. CASE x.kind = "string"
  <2> DEFINE n == Cardinality(StringsFound(d, x))
             at(i) == Min(StringsFound(d, x)) + (i - 1)
  <2>1. n \in Nat /\ \A i \in 1..n : at(i) \in Strings(d)
    BY StringsAre
  <2>2. Sought(d, x) = [i \in 1..n |-> <<"string", at(i)>>]
    BY <1>2 DEF Sought
  <2> HIDE DEF n, at
  <2>3. \A i \in 1..n : <<"string", at(i)>> \in Operand[d]
    BY <1>1, <2>1
  <2> DEFINE O == Operand[d]
  <2> HIDE DEF O
  <2>4. \A i \in 1..n : <<"string", at(i)>> \in O
    BY <2>3 DEF O
  <2>5. Sought(d, x) \in Seq(O)
    BY <2>1, <2>2, <2>4
  <2> QED BY <1>2, <2>5 DEF O
<1>3. CASE x.kind # "string"
  <2> DEFINE k == <<Instruction(x), Target(d, x)>>
             O == Operand[d]
  <2>1. Sought(d, x) = <<k>>
    BY <1>3 DEF Sought
  <2>2. k \in O
    BY <1>1, <1>3, TargetIs DEF Instruction
  <2> HIDE DEF k, O
  <2>3. Sought(d, x) \in Seq(O) /\ Sought(d, x)[1] = k
    BY <2>1, <2>2
  <2> QED BY <1>3, <2>1, <2>2, <2>3 DEF O
<1> QED BY <1>2, <1>3

(* What the caches give: the scanned methods of the right shape that use   *)
(* one of the operands looked for.                                         *)
LEMMA CachedIs ==
    ASSUME CacheInv, NEW d \in Dex, NEW x, Sought(d, x) \in Seq(Operand[d])
    PROVE  /\ Cached(d, x) \in Seq(Methods(d))
           /\ Range(Cached(d, x)) = {m \in scanned[d] :
                 IsMethodMatch(d, m, x) /\ \E k \in Range(Sought(d, x)) : Uses(d, m, k)}
<1> DEFINE k == Sought(d, x)
           h == [i \in DOMAIN k |-> cache[d][k[i]]]
           M == Methods(d)
           F == {m \in Methods(d) : IsMethodMatch(d, m, x)}
<1>0. k \in Seq(Operand[d])
  OBVIOUS
<1>1. Len(k) \in Nat /\ DOMAIN k = 1..Len(k) /\ \A i \in 1..Len(k) : k[i] \in Operand[d]
  <2> DEFINE O == Operand[d]
  <2> HIDE DEF O, k
  <2>1. k \in Seq(O)
    BY <1>0 DEF O
  <2>2. Len(k) \in Nat /\ DOMAIN k = 1..Len(k) /\ \A i \in 1..Len(k) : k[i] \in O
    BY <2>1
  <2> QED BY <2>2 DEF O
<1>2. \A i \in 1..Len(k) : /\ cache[d][k[i]] \in Seq(M)
                           /\ Range(cache[d][k[i]]) = {m \in scanned[d] : Uses(d, m, k[i])}
  BY <1>1 DEF CacheInv, CachesTyped, CachesAreScans
<1>3. Cached(d, x) = Those(FlattenSeq(h), F)
  BY DEF Cached
<1>4. Range(k) = {k[i] : i \in 1..Len(k)}
  BY <1>1 DEF Range
<1>5. scanned[d] \subseteq M
  BY DEF CacheInv, CachesTyped
<1>6. \A m : m \in F <=> m \in M /\ IsMethodMatch(d, m, x)
  OBVIOUS
<1> HIDE DEF k, M, F
<1>7. h \in Seq(Seq(M)) /\ Len(h) = Len(k) /\ \A i \in 1..Len(k) : h[i] = cache[d][k[i]]
  BY <1>1, <1>2
<1> HIDE DEF h
<1>8. FlattenSeq(h) \in Seq(M) /\ Range(FlattenSeq(h)) = UNION {Range(h[i]) : i \in 1..Len(h)}
  BY <1>7, Flattened
<1>9. /\ Cached(d, x) \in Seq(M \cap F)
      /\ Range(Cached(d, x)) = Range(FlattenSeq(h)) \cap F
  BY <1>3, <1>8, ThoseAre
<1>10. Cached(d, x) \in Seq(M)
  <2>1. M \cap F \subseteq M
    OBVIOUS
  <2> QED BY <1>9, <2>1, InLarger
<1>11. ASSUME NEW m
       PROVE  m \in Range(FlattenSeq(h)) <=> m \in scanned[d] /\ \E o \in Range(k) : Uses(d, m, o)
  <2>1. m \in Range(FlattenSeq(h)) <=> \E i \in 1..Len(k) : m \in Range(h[i])
    BY <1>7, <1>8
  <2>2. \A i \in 1..Len(k) : m \in Range(h[i]) <=> m \in scanned[d] /\ Uses(d, m, k[i])
    BY <1>2, <1>7
  <2>3. (\E o \in Range(k) : Uses(d, m, o)) <=> \E i \in 1..Len(k) : Uses(d, m, k[i])
    BY <1>4
  <2> QED BY <2>1, <2>2, <2>3
<1>12. ASSUME NEW m
       PROVE  m \in Range(Cached(d, x)) <=>
                m \in scanned[d] /\ IsMethodMatch(d, m, x) /\ \E o \in Range(k) : Uses(d, m, o)
  BY <1>5, <1>6, <1>9, <1>11
<1> QED BY <1>10, <1>12 DEF k, M

(* What question x reaches in dex file d: what is about the id in its row, *)
(* or the strings of a prefix that is found.                               *)
Reached(d, x) ==
    IF ~Named(x) \/ PassedBy(d, x) THEN {} ELSE
    CASE x.kind = "field"    -> {f \in Fields(d) : Field(d, f).type = Target(d, x)}
      [] x.kind = "invoking" -> {m \in Methods(d) : IsMethodMatch(d, m, x)
                                   /\ Uses(d, Target(d, x), <<"invoke", m>>)}
      [] OTHER -> {m \in Methods(d) : IsMethodMatch(d, m, x)
                     /\ \E k \in Range(Sought(d, x)) : Uses(d, m, k)}
AllReached(x) == UNION {{d} \X Reached(d, x) : d \in Range(GetPriority(x))}

(* What is cached is reached, and all that is reached is cached once every *)
(* method of the right shape is scanned.                                   *)
LEMMA CachedIsRight ==
    ASSUME CacheInv, RowsTyped, NEW x, Named(x), NEW d \in Dex, ~PassedBy(d, x),
           x.kind \in {"string", "invoked", "getting", "setting"}
    PROVE  /\ Cached(d, x) \in Seq(Methods(d))
           /\ Range(Cached(d, x)) \subseteq Reached(d, x)
           /\ {m \in Methods(d) \ scanned[d] : IsMethodMatch(d, m, x)} = {}
                 => Range(Cached(d, x)) = Reached(d, x)
           /\ \A m \in Range(Cached(d, x)) : m \in Methods(d)
<1>1. Sought(d, x) \in Seq(Operand[d])
  BY SoughtIs
<1>2. /\ Cached(d, x) \in Seq(Methods(d))
      /\ Range(Cached(d, x)) = {m \in scanned[d] :
            IsMethodMatch(d, m, x) /\ \E k \in Range(Sought(d, x)) : Uses(d, m, k)}
  BY <1>1, CachedIs
<1>3. Reached(d, x) = {m \in Methods(d) : IsMethodMatch(d, m, x)
                       /\ \E k \in Range(Sought(d, x)) : Uses(d, m, k)}
  BY DEF Reached
<1>4. scanned[d] \subseteq Methods(d)
  BY DEF CacheInv, CachesTyped
<1> QED BY <1>2, <1>3, <1>4

-----------------------------------------------------------------------------
(* A question while it is answered.                                        *)
IsSeq(s) == \E S : s \in Seq(S)
Looking   == pc \in {"visit", "scan", "collect", "emit"}
Asked     == pc \in {"visit", "scan", "collect", "emit", "reply"}
FoundIn(d, x, id) == <<d, id>> \in Range(hits)

(* What is known of the dex file that question x is at.                    *)
AtDex(x, d) ==
    /\ pc \in {"scan", "collect"} =>
          /\ x.kind \in {"string", "invoked", "getting", "setting"}
          /\ ~PassedBy(d, x)
    /\ pc = "collect" =>
          /\ x.first
          /\ x.kind = "string" => Cached(d, x) # <<>>
          /\ x.kind # "string" => cache[d][Sought(d, x)[1]] # <<>>
    /\ pc = "emit" =>
          /\ Range(pending) \subseteq Reached(d, x)
          /\ ~x.first => \A id \in Reached(d, x) :
                FoundIn(d, x, id) \/ id \in Range(pending)
          /\ x.first /\ pending = <<>> =>
                /\ x.kind \in {"string", "invoking", "field"} => Reached(d, x) = {}
                /\ x.kind \in {"invoked", "getting", "setting"} /\ Reached(d, x) # {} =>
                     \E m \in Range(cache[d][Sought(d, x)[1]]) : ~IsMethodMatch(d, m, x)

(* What is known of question x: what is answered is reached, and what is   *)
(* reached is answered or in a file that is left.                          *)
Asking(x) ==
    /\ Looking => Named(x)
    /\ Range(todo) \subseteq Range(GetPriority(x))
    /\ \A h \in Range(hits) : h \in AllReached(x)
    /\ \A d \in Dex : todo # <<>> /\ d = Head(todo) => AtDex(x, d)
    /\ Looking /\ ~x.first =>
         \A d \in Range(GetPriority(x)) : \A id \in Reached(d, x) :
            FoundIn(d, x, id) \/ d \in Range(todo)

Shaped ==
    /\ open \in BOOLEAN
    /\ pc \in {"idle", "full", "visit", "scan", "collect", "emit", "reply"}
    /\ todo \in Seq(Dex) /\ pending \in Seq(Nat) /\ hits \in Seq(Dex \X Nat)
    /\ IsSeq(out) /\ Len(out) = Len(hits)
    /\ IF Asked THEN q \in Question ELSE q = None /\ todo = <<>> /\ hits = <<>>
    /\ pc \in {"scan", "collect", "emit"} => todo # <<>>
AskInv == Shaped /\ \A x \in Question : Asked /\ q = x => Asking(x)

-----------------------------------------------------------------------------
(* The tables only grow while a question is answered, and no class is      *)
(* named: what the question is about stays the same.                       *)
Growing ==
    /\ UNCHANGED classIdx
    /\ Len(methodIdx) \in Nat /\ Len(methodIdx') \in Nat
    /\ Len(fieldIdx) \in Nat /\ Len(fieldIdx') \in Nat
    /\ Len(methodIdx') >= Len(methodIdx) /\ Len(fieldIdx') >= Len(fieldIdx)
    /\ \A i \in 1..Len(methodIdx) : methodIdx'[i] = methodIdx[i]
    /\ \A i \in 1..Len(fieldIdx) : fieldIdx'[i] = fieldIdx[i]

LEMMA SameShape ==
    ASSUME UNCHANGED classIdx, NEW x, NEW d
    PROVE  /\ \A m : IsMethodMatch(d, m, x)' = IsMethodMatch(d, m, x)
           /\ ShapeNamed(x)' = ShapeNamed(x)
<1>1. ParamIds(d, x)' = ParamIds(d, x)
  BY DEF ParamIds, Leading, IsClassIndex
<1>2. ContainedIds(d, x)' = ContainedIds(d, x)
  BY DEF ContainedIds, Leading, IsClassIndex
<1>3. \A i, t : Fits(i, d, t)' = Fits(i, d, t)
  BY DEF Fits
<1>4. ASSUME NEW m PROVE IsMethodMatch(d, m, x)' = IsMethodMatch(d, m, x)
  BY <1>1, <1>2, <1>3, ZenonT(40) DEF IsMethodMatch
<1>5. ShapeNamed(x)' = ShapeNamed(x)
  BY DEF ShapeNamed, IsClassIndex
<1> QED BY <1>4, <1>5

LEMMA SameTarget ==
    ASSUME Growing, NEW x, Named(x), NEW d
    PROVE  /\ Named(x)'
           /\ Target(d, x)' = Target(d, x) /\ PassedBy(d, x)' = PassedBy(d, x)
           /\ Sought(d, x)' = Sought(d, x)
<1>1. Named(x)'
  BY DEF Growing, Named
<1>2. Target(d, x)' = Target(d, x)
  <2>1. CASE x.kind \in {"invoking", "invoked"}
    BY <2>1 DEF Target, Growing, Named
  <2>2. CASE x.kind \in {"getting", "setting"}
    BY <2>2 DEF Target, Growing, Named
  <2>3. CASE x.kind \notin {"invoking", "invoked", "getting", "setting"}
    BY <2>3 DEF Target, Growing
  <2> QED BY <2>1, <2>2, <2>3
<1>3. PassedBy(d, x)' = PassedBy(d, x)
  BY <1>2 DEF PassedBy
<1>4. Sought(d, x)' = Sought(d, x)
  BY <1>2 DEF Sought
<1> QED BY <1>1, <1>2, <1>3, <1>4

LEMMA SameRight ==
    ASSUME Growing, NEW x \in Question, Named(x)
    PROVE  /\ \A d : Reached(d, x)' = Reached(d, x)
           /\ AllReached(x)' = AllReached(x)
<1>1. ASSUME NEW d PROVE Reached(d, x)' = Reached(d, x)
  <2>1. /\ Target(d, x)' = Target(d, x) /\ PassedBy(d, x)' = PassedBy(d, x)
        /\ Sought(d, x)' = Sought(d, x) /\ Named(x)'
    BY SameTarget
  <2>2. \A m : IsMethodMatch(d, m, x)' = IsMethodMatch(d, m, x)
    BY SameShape DEF Growing
  <2> QED BY <2>1, <2>2 DEF Reached
<1>2. AllReached(x)' = AllReached(x)
  BY <1>1 DEF AllReached
<1> QED BY <1>1, <1>2

-----------------------------------------------------------------------------
(* What a method calls, and the fields of a type.                          *)

LEMMA CalleesAre ==
    ASSUME NEW d \in Dex, NEW m \in Methods(d)
    PROVE  /\ Callees(d, m) \in Seq(Methods(d))
           /\ \A n \in Methods(d) : n \in Range(Callees(d, m)) <=> Uses(d, m, <<"invoke", n>>)
<1> DEFINE code == Method(d, m).code
           O == Operand[d]
           I == {"invoke"} \X Methods(d)
           calls == Those(code, I)
<1>1. code \in Seq(O)
  BY ImageIsWellFormed
<1>2. \A k \in I : k[2] \in Methods(d) /\ k = <<"invoke", k[2]>>
  OBVIOUS
<1>3. \A n \in Methods(d) : <<"invoke", n>> \in I
  OBVIOUS
<1>4. Callees(d, m) = [i \in DOMAIN calls |-> calls[i][2]]
  BY DEF Callees
<1>5. \A n : Uses(d, m, <<"invoke", n>>) <=> <<"invoke", n>> \in Range(code)
  BY DEF Uses
<1> HIDE DEF code, O, I
<1>6. calls \in Seq(O \cap I) /\ Range(calls) = Range(code) \cap I
  BY <1>1, ThoseAre
<1> HIDE DEF calls
<1>7. calls \in Seq(I)
  <2>1. O \cap I \subseteq I
    OBVIOUS
  <2> QED BY <1>6, <2>1, InLarger
<1>8. Len(calls) \in Nat /\ DOMAIN calls = 1..Len(calls) /\ \A i \in 1..Len(calls) : calls[i] \in I
  BY <1>7
<1>9. Callees(d, m) \in Seq(Methods(d))
  BY <1>2, <1>4, <1>8
<1>10. ASSUME NEW n \in Methods(d)
       PROVE  n \in Range(Callees(d, m)) <=> Uses(d, m, <<"invoke", n>>)
  <2>1. n \in Range(Callees(d, m)) <=> \E i \in DOMAIN calls : n = calls[i][2]
    BY <1>4 DEF Range
  <2>2. \A i \in DOMAIN calls : n = calls[i][2] <=> calls[i] = <<"invoke", n>>
    BY <1>2, <1>8
  <2>3. (\E i \in DOMAIN calls : calls[i] = <<"invoke", n>>) <=> <<"invoke", n>> \in Range(calls)
    BY DEF Range
  <2> QED BY <1>3, <1>5, <1>6, <2>1, <2>2, <2>3
<1> QED BY <1>9, <1>10

LEMMA FieldsAre ==
    ASSUME NEW d \in Dex, NEW S, S \subseteq Fields(d)
    PROVE  /\ Those([f \in Fields(d) |-> f], S) \in Seq(Fields(d))
           /\ Range(Those([f \in Fields(d) |-> f], S)) = S
<1> DEFINE s == [f \in Fields(d) |-> f]
           F == Fields(d)
<1>1. Len(Image[d].fields) \in Nat /\ F = 1..Len(Image[d].fields)
  BY ImageIsWellFormed DEF Fields
<1>2. s \in Seq(F)
  BY <1>1
<1>3. Range(s) = F
  BY DEF Range
<1> HIDE DEF s, F
<1>4. Those(s, S) \in Seq(F \cap S) /\ Range(Those(s, S)) = Range(s) \cap S
  BY <1>2, ThoseAre
<1>5. Those(s, S) \in Seq(F)
  <2>1. F \cap S \subseteq F
    OBVIOUS
  <2> QED BY <1>4, <2>1, InLarger
<1>6. Range(Those(s, S)) = S
  BY <1>3, <1>4 DEF F
<1> QED BY <1>5, <1>6 DEF s, F



LEMMA AppendIsSeq ==
  ASSUME NEW s, IsSeq(s), NEW e
  PROVE  IsSeq(Append(s, e)) /\ Len(Append(s, e)) = Len(s) + 1
  <1>1. PICK S : s \in Seq(S)
    BY DEF IsSeq
  <1> DEFINE T == S \cup {e}
  <1>2. S \subseteq T /\ e \in T
    OBVIOUS
  <1> HIDE DEF T
  <1>3. s \in Seq(T)
    BY <1>1, <1>2, InLarger
  <1>4. Append(s, e) \in Seq(T) /\ Len(Append(s, e)) = Len(s) + 1
    BY <1>2, <1>3
  <1> QED  BY <1>4 DEF IsSeq

CachedFact ==
    CacheInv => \A d \in Dex : \A x : Sought(d, x) \in Seq(Operand[d]) =>
        /\ Cached(d, x) \in Seq(Methods(d))
        /\ Range(Cached(d, x)) = {m \in scanned[d] :
              IsMethodMatch(d, m, x) /\ \E k \in Range(Sought(d, x)) : Uses(d, m, k)}
LEMMA CachedAlways == CachedFact
BY CachedIs DEF CachedFact

LEMMA GrowingIs ==
    ASSUME IndexInv, NamesInv, NEW d \in Dex, Visit(d)
    PROVE  Growing
<1>1. UNCHANGED tables \/ Emit(d)
  BY DEF Visit, PassBy, AnswerFromCache, StartScan, ScanNext, Collect,
     CollectCallees, CollectFields, NextDex
<1>2. Len(methodIdx) \in Nat /\ Len(fieldIdx) \in Nat
  BY DEF IndexInv, NamesInv, TableInv
<1>3. CASE UNCHANGED tables
  BY <1>2, <1>3 DEF tables, Growing
<1>4. CASE Emit(d)
  <2>1. /\ UNCHANGED classIdx
        /\ \/ UNCHANGED methodIdx
           \/ \E n : methodIdx' = Grown(methodIdx, MethodNamed(n), 1)
        /\ \/ UNCHANGED fieldIdx
           \/ \E n : fieldIdx' = Grown(fieldIdx, FieldNamed(n), d)
    BY <1>4 DEF Emit
  <2>2. /\ Len(methodIdx') \in Nat /\ Len(methodIdx') >= Len(methodIdx)
        /\ \A i \in 1..Len(methodIdx) : methodIdx'[i] = methodIdx[i]
    <3>1. CASE UNCHANGED methodIdx
      BY <1>2, <3>1
    <3>2. ASSUME NEW n, methodIdx' = Grown(methodIdx, MethodNamed(n), 1)
          PROVE  /\ Len(methodIdx') \in Nat /\ Len(methodIdx') >= Len(methodIdx)
                 /\ \A i \in 1..Len(methodIdx) : methodIdx'[i] = methodIdx[i]
      <4>1. CASE IsNowhere(MethodNamed(n), 1)
        <5>1. methodIdx' = methodIdx
          BY <3>2, <4>1 DEF Grown
        <5> QED BY <1>2, <5>1
      <4>2. CASE ~IsNowhere(MethodNamed(n), 1)
        <5>1. Row(MethodNamed(n), 1) \in [Dex -> Nat \cup {Absent}]
          BY <4>2, RowOfAName
        <5>2. methodIdx \in Seq([Dex -> Nat \cup {Absent}])
          BY DEF IndexInv
        <5> QED BY <3>2, <5>1, <5>2, Grows
      <4> QED BY <4>1, <4>2
    <3> QED BY <2>1, <3>1, <3>2
  <2>3. /\ Len(fieldIdx') \in Nat /\ Len(fieldIdx') >= Len(fieldIdx)
        /\ \A i \in 1..Len(fieldIdx) : fieldIdx'[i] = fieldIdx[i]
    <3>1. d \in Nat \ {0}
      BY DEF Dex
    <3>2. CASE UNCHANGED fieldIdx
      BY <1>2, <3>2
    <3>3. ASSUME NEW n, fieldIdx' = Grown(fieldIdx, FieldNamed(n), d)
          PROVE  /\ Len(fieldIdx') \in Nat /\ Len(fieldIdx') >= Len(fieldIdx)
                 /\ \A i \in 1..Len(fieldIdx) : fieldIdx'[i] = fieldIdx[i]
      <4>1. TableInv(fieldIdx, FieldFamily)
        BY DEF NamesInv
      <4> QED BY <3>1, <3>3, <4>1, FieldTableGrows
    <3> QED BY <2>1, <3>2, <3>3
  <2> QED BY <1>2, <2>1, <2>2, <2>3 DEF Growing
<1> QED BY <1>1, <1>3, <1>4

(* The question stays while a dex file is visited, and so does what it is  *)
(* about.                                                                  *)
LEMMA VisitingIs ==
    ASSUME AskInv, NEW d \in Dex, Visit(d)
    PROVE  /\ q \in Question /\ q' = q /\ Named(q) /\ Asking(q) /\ Looking
           /\ todo \in Seq(Dex) /\ todo # <<>> /\ d = Head(todo)
           /\ AtDex(q, d)
<1>1. /\ Looking /\ q' = q /\ d = Head(todo)
      /\ pc = "visit" => todo # <<>>
  BY DEF Looking, Visit, PassBy, AnswerFromCache, StartScan, ScanNext, Collect,
     CollectCallees, CollectFields, Emit, NextDex, Visiting
<1>2. Asked
  BY <1>1 DEF Asked, Looking
<1>3. q \in Question /\ todo \in Seq(Dex) /\ todo # <<>>
  BY <1>1, <1>2 DEF AskInv, Shaped, Looking
<1>4. Asking(q)
  BY <1>2, <1>3 DEF AskInv
<1> QED BY <1>1, <1>3, <1>4 DEF Asking

(* What is found, is of the files' numbers.                                *)
LEMMA RightIsTyped == ASSUME NEW d \in Dex, NEW x PROVE Reached(d, x) \subseteq Nat
<1>1. Methods(d) \subseteq Nat /\ Fields(d) \subseteq Nat
  BY DEF Methods, Fields
<1> QED BY <1>1 DEF Reached

(* What the inductive step has to show once the question is known.         *)
LEMMA StillAsking ==
    ASSUME NEW x \in Question, q' = x, Shaped', Asking(x)'
    PROVE  AskInv'
BY DEF AskInv

LEMMA PassByKeeps ==
    ASSUME AskInv, Growing, NEW d \in Dex, PassBy(d)
    PROVE  AskInv'
<1>0. Visit(d)
  BY DEF Visit
<1>1. PICK x \in Question : x = q
  BY <1>0, VisitingIs
<1>2. /\ q' = x /\ Named(x) /\ Asking(x) /\ todo \in Seq(Dex) /\ todo # <<>> /\ d = Head(todo)
  BY <1>0, <1>1, VisitingIs
<1>3. /\ pc = "visit" /\ pc' = "visit" /\ PassedBy(d, x) /\ todo' = Tail(todo)
      /\ UNCHANGED <<open, pending, out, hits>>
  BY <1>1 DEF PassBy, Visiting
<1>4. /\ Tail(todo) \in Seq(Dex)
      /\ \A e : e \in Range(todo) <=> e = d \/ e \in Range(Tail(todo))
  BY <1>2, HeadAndTail
<1>5. Shaped'
  BY <1>2, <1>3, <1>4 DEF AskInv, Shaped, Asked
<1>6. /\ Named(x)' /\ AllReached(x)' = AllReached(x)
      /\ \A e : Reached(e, x)' = Reached(e, x)
  BY <1>2, SameTarget, SameRight
<1>7. Reached(d, x) = {}
  BY <1>3 DEF Reached
<1>8. \A e \in Dex : AtDex(x, e)'
  BY <1>3 DEF AtDex
<1>9. Asking(x)'
  BY <1>2, <1>3, <1>4, <1>6, <1>7, <1>8 DEF Asking, Looking, FoundIn
<1> QED BY <1>2, <1>5, <1>9, StillAsking

(* While a file is looked at, only what is known of the file changes.      *)
LEMMA AtFile ==
    ASSUME Growing, NEW x \in Question, Named(x), Asking(x), q' = x,
           pc' \in {"scan", "collect", "emit"}, Looking,
           UNCHANGED <<open, todo, out, hits>>, Shaped, pending' \in Seq(Nat),
           todo # <<>>, AtDex(x, Head(todo))'
    PROVE  AskInv'
<1>1. Shaped'
  BY DEF Shaped, Asked
<1>2. /\ Named(x)' /\ AllReached(x)' = AllReached(x)
      /\ \A e : Reached(e, x)' = Reached(e, x)
  BY SameTarget, SameRight
<1>3. \A d \in Dex : todo' # <<>> /\ d = Head(todo)' => AtDex(x, d)'
  OBVIOUS
<1>4. Asking(x)'
  BY <1>2, <1>3 DEF Asking, Looking, FoundIn
<1> QED BY <1>1, <1>4, StillAsking

LEMMA AnswerFromCacheKeeps ==
    ASSUME AskInv, CacheInv, RowsTyped, Growing, NEW d \in Dex, AnswerFromCache(d)
    PROVE  AskInv'
<1>0. Visit(d)
  BY DEF Visit
<1>1. PICK x \in Question : x = q
  BY <1>0, VisitingIs
<1>2. /\ q' = x /\ Named(x) /\ Asking(x) /\ todo \in Seq(Dex) /\ todo # <<>> /\ d = Head(todo)
      /\ Looking
  BY <1>0, <1>1, VisitingIs
<1>3. /\ pc' = "emit" /\ ~PassedBy(d, x) /\ x.first /\ Cached(d, x) # <<>>
      /\ pending' = <<Head(Cached(d, x))>>
      /\ x.kind \in {"string", "invoked", "getting", "setting"}
      /\ UNCHANGED <<open, caches, todo, out, hits>>
  BY <1>1 DEF AnswerFromCache, Searches
<1>4. Cached(d, x) \in Seq(Methods(d)) /\ Range(Cached(d, x)) \subseteq Reached(d, x)
  BY <1>2, <1>3, CachedIsRight
<1>5. PICK m : m = Head(Cached(d, x))
  OBVIOUS
<1>6. m \in Reached(d, x) /\ m \in Nat
  <2>1. m \in Range(Cached(d, x))
    BY <1>3, <1>4, <1>5, HeadAndTail
  <2> QED BY <1>4, <2>1, RightIsTyped
<1>7. pending' = <<m>> /\ pending' \in Seq(Nat) /\ pending' # <<>> /\ Range(pending') = {m}
  BY <1>3, <1>5, <1>6, RangeOfOne
<1>8. Reached(d, x)' = Reached(d, x)
  BY <1>2, SameRight
<1>9. AtDex(x, d)'
  BY <1>3, <1>6, <1>7, <1>8 DEF AtDex
<1>10. AtDex(x, Head(todo))'
  BY <1>2, <1>3, <1>9
<1> QED BY <1>2, <1>3, <1>7, <1>10, AtFile DEF AskInv

LEMMA StartScanKeeps ==
    ASSUME AskInv, Growing, NEW d \in Dex, StartScan(d)
    PROVE  AskInv'
<1>0. Visit(d)
  BY DEF Visit
<1>1. PICK x \in Question : x = q
  BY <1>0, VisitingIs
<1>2. /\ q' = x /\ Named(x) /\ Asking(x) /\ todo \in Seq(Dex) /\ todo # <<>> /\ d = Head(todo)
      /\ Looking
  BY <1>0, <1>1, VisitingIs
<1>3. /\ pc' = "scan" /\ ~PassedBy(d, x)
      /\ x.kind \in {"string", "invoked", "getting", "setting"}
      /\ UNCHANGED <<open, pending, todo, out, hits>>
  BY <1>1 DEF StartScan, Searches
<1>4. PassedBy(d, x)' = PassedBy(d, x)
  BY <1>2, SameTarget
<1>5. AtDex(x, d)'
  BY <1>3, <1>4 DEF AtDex
<1>6. AtDex(x, Head(todo))'
  BY <1>2, <1>3, <1>5
<1>7. pending' \in Seq(Nat)
  BY <1>3 DEF AskInv, Shaped
<1> QED BY <1>2, <1>3, <1>6, <1>7, AtFile DEF AskInv

LEMMA ScanNextKeeps ==
    ASSUME AskInv, CacheInv, RowsTyped, Growing, NEW d \in Dex, ScanNext(d)
    PROVE  AskInv'
<1>0. Visit(d)
  BY DEF Visit
<1>1. PICK x \in Question : x = q
  BY <1>0, VisitingIs
<1>2. /\ q' = x /\ Named(x) /\ Asking(x) /\ todo \in Seq(Dex) /\ todo # <<>> /\ d = Head(todo)
      /\ Looking /\ AtDex(x, d)
  BY <1>0, <1>1, VisitingIs
<1>3. PICK m : m = Min(Unscanned(d))
  OBVIOUS
<1>4. /\ pc = "scan" /\ ScanMethod(d, m) /\ Unscanned(d) # {}
      /\ pc' = IF Enough(d, m) THEN "collect" ELSE "scan"
      /\ UNCHANGED <<open, pending, todo, out, hits>>
  BY <1>3 DEF ScanNext
<1>5. m \in Methods(d) /\ IsMethodMatch(d, m, x)
  <2>1. Unscanned(d) \subseteq Methods(d)
    BY DEF Unscanned
  <2>2. m \in Unscanned(d)
    BY <1>3, <1>4, <2>1, MethodsAreNumbers, LeastOf
  <2> QED BY <1>1, <2>2 DEF Unscanned
<1>6. x.kind \in {"string", "invoked", "getting", "setting"} /\ ~PassedBy(d, x)
  BY <1>2, <1>4 DEF AtDex
<1>7. /\ PassedBy(d, x)' = PassedBy(d, x) /\ Sought(d, x)' = Sought(d, x)
      /\ IsMethodMatch(d, m, x)' = IsMethodMatch(d, m, x)
  BY <1>2, SameTarget, SameShape DEF Growing
<1>8. CacheInv'
  BY <1>4, <1>5, ScanKeeps
<1>9. Sought(d, x) \in Seq(Operand[d])
  BY <1>2, <1>6, SoughtIs
<1>10. Cached(d, x)' \in Seq(Methods(d)) /\
       Range(Cached(d, x)') = {l \in scanned'[d] :
              IsMethodMatch(d, l, x)' /\ \E k \in Range(Sought(d, x)') : Uses(d, l, k)}
  <2>1. CachedFact'
    BY CachedAlways, PTL
  <2> QED BY <1>7, <1>8, <1>9, <2>1 DEF CachedFact
<1>11. m \in scanned'[d]
  BY <1>4 DEF ScanMethod, CacheInv, CachesTyped
<1>12. ASSUME Enough(d, m), x.kind = "string" PROVE Cached(d, x)' # <<>>
  <2>1. \E k \in Range(Sought(d, x)) : Uses(d, m, k)
    BY <1>1, <1>12 DEF Enough
  <2>2. m \in Range(Cached(d, x)')
    BY <1>5, <1>7, <1>10, <1>11, <2>1
  <2> QED BY <1>10, <2>2, EmptyIs
<1>13. ASSUME Enough(d, m), x.kind # "string" PROVE cache'[d][Sought(d, x)'[1]] # <<>>
  BY <1>1, <1>7, <1>13 DEF Enough
<1>14. AtDex(x, d)'
  <2>1. pc' = "scan" \/ (pc' = "collect" /\ Enough(d, m))
    BY <1>4
  <2>2. Enough(d, m) => x.first
    BY <1>1 DEF Enough
  <2> QED BY <1>6, <1>7, <1>12, <1>13, <2>1, <2>2 DEF AtDex
<1>15. AtDex(x, Head(todo))'
  BY <1>2, <1>4, <1>14
<1>16. pending' \in Seq(Nat) /\ pc' \in {"scan", "collect", "emit"}
  BY <1>4 DEF AskInv, Shaped
<1> QED BY <1>2, <1>4, <1>15, <1>16, AtFile DEF AskInv

LEMMA CollectKeeps ==
    ASSUME AskInv, CacheInv, RowsTyped, Growing, NEW d \in Dex, Collect(d)
    PROVE  AskInv'
<1>0. Visit(d)
  BY DEF Visit
<1>1. PICK x \in Question : x = q
  BY <1>0, VisitingIs
<1>2. /\ q' = x /\ Named(x) /\ Asking(x) /\ todo \in Seq(Dex) /\ todo # <<>> /\ d = Head(todo)
      /\ Looking /\ AtDex(x, d)
  BY <1>0, <1>1, VisitingIs
<1>3. /\ pc \in {"scan", "collect"} /\ pc' = "emit" /\ pending' = Cached(d, x)
      /\ pc = "scan" => Unscanned(d) = {}
      /\ UNCHANGED <<open, caches, todo, out, hits>>
  BY <1>1 DEF Collect
<1>4. x.kind \in {"string", "invoked", "getting", "setting"} /\ ~PassedBy(d, x)
  BY <1>2, <1>3 DEF AtDex
<1>5. /\ Reached(d, x)' = Reached(d, x) /\ Sought(d, x)' = Sought(d, x)
      /\ \A m : IsMethodMatch(d, m, x)' = IsMethodMatch(d, m, x)
      /\ cache' = cache
  BY <1>2, <1>3, SameTarget, SameShape, SameRight DEF Growing, caches
<1>6. /\ Cached(d, x) \in Seq(Methods(d)) /\ Range(Cached(d, x)) \subseteq Reached(d, x)
      /\ pc = "scan" => Range(Cached(d, x)) = Reached(d, x)
  <2>1. Unscanned(d) = {m \in Methods(d) \ scanned[d] : IsMethodMatch(d, m, x)}
    BY <1>1 DEF Unscanned
  <2> QED BY <1>2, <1>3, <1>4, <2>1, CachedIsRight
<1>7. Cached(d, x) = <<>> <=> Range(Cached(d, x)) = {}
  BY <1>6, EmptyIs
<1>8. ASSUME x.kind # "string", Cached(d, x) = <<>>, pc = "collect"
      PROVE  \E m \in Range(cache[d][Sought(d, x)[1]]) : ~IsMethodMatch(d, m, x)
  <2>1. PICK k \in Operand[d] : k = Sought(d, x)[1] /\ Sought(d, x) = <<k>>
    BY <1>2, <1>4, <1>8, SoughtIs
  <2>2. /\ cache[d][k] # <<>> /\ cache[d][k] \in Seq(Methods(d))
        /\ Range(cache[d][k]) = {m \in scanned[d] : Uses(d, m, k)}
    BY <1>2, <1>8, <2>1 DEF AtDex, CacheInv, CachesTyped, CachesAreScans
  <2>3. PICK m : m \in Range(cache[d][k])
    BY <2>2, EmptyIs
  <2>4. k \in Range(Sought(d, x))
    BY <2>1, RangeOfOne
  <2>5. Range(Cached(d, x)) = {l \in scanned[d] :
            IsMethodMatch(d, l, x) /\ \E o \in Range(Sought(d, x)) : Uses(d, l, o)}
    BY <1>2, <1>4, SoughtIs, CachedIs
  <2>6. ~IsMethodMatch(d, m, x)
    BY <1>7, <1>8, <2>2, <2>3, <2>4, <2>5
  <2> QED BY <2>1, <2>3, <2>6
<1>9. AtDex(x, d)'
  <2>1. Range(pending') \subseteq Reached(d, x)'
    BY <1>3, <1>5, <1>6
  <2>2. ASSUME ~x.first, NEW id \in Reached(d, x)' PROVE id \in Range(pending')
    <3>1. pc = "scan"
      BY <1>2, <1>3, <2>2 DEF AtDex
    <3> QED BY <1>3, <1>5, <1>6, <2>2, <3>1
  <2>3. ASSUME x.first, pending' = <<>>
        PROVE /\ x.kind \in {"string", "invoking", "field"} => Reached(d, x)' = {}
              /\ x.kind \in {"invoked", "getting", "setting"} /\ Reached(d, x)' # {} =>
                   \E m \in Range(cache'[d][Sought(d, x)'[1]]) : ~IsMethodMatch(d, m, x)'
    <3>1. CASE pc = "scan"
      BY <1>3, <1>5, <1>6, <1>7, <2>3, <3>1
    <3>2. CASE pc = "collect"
      <4>1. x.kind # "string"
        BY <1>2, <1>3, <2>3, <3>2 DEF AtDex
      <4> QED BY <1>3, <1>4, <1>5, <1>8, <2>3, <3>2, <4>1
    <3> QED BY <1>3, <3>1, <3>2
  <2> QED BY <1>3, <2>1, <2>2, <2>3 DEF AtDex
<1>10. AtDex(x, Head(todo))'
  BY <1>2, <1>3, <1>9
<1>11. pending' \in Seq(Nat)
  BY <1>3, <1>6, MethodsAreNumbers, InLarger
<1> QED BY <1>2, <1>3, <1>10, <1>11, AtFile DEF AskInv

(* All that is reached in a file is found in it at once.                   *)
LEMMA AllAtOnce ==
    ASSUME AskInv, Growing, NEW x \in Question, x = q, q' = x, NEW d \in Dex,
           Named(x), Asking(x), Looking, todo # <<>>, d = Head(todo),
           pc' = "emit", UNCHANGED <<open, todo, out, hits>>,
           pending' \in Seq(Nat), Range(pending') = Reached(d, x)
    PROVE  AskInv'
<1>1. Reached(d, x)' = Reached(d, x)
  BY SameRight
<1>2. pending' = <<>> => Reached(d, x) = {}
  BY RangeOfOne
<1>3. AtDex(x, d)'
  BY <1>1, <1>2 DEF AtDex
<1>4. AtDex(x, Head(todo))'
  BY <1>3
<1> QED BY <1>4, AtFile DEF AskInv

LEMMA CollectCalleesKeeps ==
    ASSUME AskInv, RowsTyped, Growing, NEW d \in Dex, CollectCallees(d)
    PROVE  AskInv'
<1>0. Visit(d)
  BY DEF Visit
<1>1. PICK x \in Question : x = q
  BY <1>0, VisitingIs
<1>2. /\ q' = x /\ Named(x) /\ Asking(x) /\ todo # <<>> /\ d = Head(todo) /\ Looking
  BY <1>0, <1>1, VisitingIs
<1> DEFINE F == {m \in Methods(d) : IsMethodMatch(d, m, x)}
<1>3. /\ pc' = "emit" /\ ~PassedBy(d, x) /\ x.kind = "invoking"
      /\ pending' = Those(Callees(d, Target(d, x)), F)
      /\ UNCHANGED <<open, todo, out, hits>>
  BY <1>1 DEF CollectCallees
<1>4. Target(d, x) \in Methods(d)
  BY <1>2, <1>3, TargetIs
<1>5. PICK t \in Methods(d) : t = Target(d, x)
  BY <1>4
<1>6. /\ Callees(d, t) \in Seq(Methods(d))
      /\ \A n \in Methods(d) : n \in Range(Callees(d, t)) <=> Uses(d, t, <<"invoke", n>>)
  BY CalleesAre
<1>7. pending' = Those(Callees(d, t), F)
  BY <1>3, <1>5
<1>8. \A m : m \in F <=> m \in Methods(d) /\ IsMethodMatch(d, m, x)
  OBVIOUS
<1>9. Reached(d, x) = {m \in Methods(d) : IsMethodMatch(d, m, x) /\ Uses(d, t, <<"invoke", m>>)}
  BY <1>2, <1>3, <1>5 DEF Reached
<1> HIDE DEF F
<1>10. pending' \in Seq(Methods(d) \cap F) /\ Range(pending') = Range(Callees(d, t)) \cap F
  BY <1>6, <1>7, ThoseAre
<1>11. Range(pending') = Reached(d, x)
  BY <1>6, <1>8, <1>9, <1>10
<1>12. pending' \in Seq(Nat)
  <2>1. Methods(d) \cap F \subseteq Nat
    BY MethodsAreNumbers
  <2> QED BY <1>10, <2>1, InLarger
<1> QED BY <1>1, <1>2, <1>3, <1>11, <1>12, AllAtOnce

LEMMA CollectFieldsKeeps ==
    ASSUME AskInv, Growing, NEW d \in Dex, CollectFields(d)
    PROVE  AskInv'
<1>0. Visit(d)
  BY DEF Visit
<1>1. PICK x \in Question : x = q
  BY <1>0, VisitingIs
<1>2. /\ q' = x /\ Named(x) /\ Asking(x) /\ todo # <<>> /\ d = Head(todo) /\ Looking
  BY <1>0, <1>1, VisitingIs
<1>3. /\ pc' = "emit" /\ ~PassedBy(d, x) /\ x.kind = "field"
      /\ pending' = Those([f \in Fields(d) |-> f],
                          {f \in Fields(d) : Field(d, f).type = Target(d, x)})
      /\ UNCHANGED <<open, todo, out, hits>>
  BY <1>1 DEF CollectFields
<1>4. Reached(d, x) = {f \in Fields(d) : Field(d, f).type = Target(d, x)}
  BY <1>2, <1>3 DEF Reached
<1>5. Reached(d, x) \subseteq Fields(d)
  BY <1>4
<1>6. pending' = Those([f \in Fields(d) |-> f], Reached(d, x))
  BY <1>3, <1>4
<1>7. pending' \in Seq(Fields(d)) /\ Range(pending') = Reached(d, x)
  <2>1. PICK S : S = Reached(d, x)
    OBVIOUS
  <2>2. Those([f \in Fields(d) |-> f], S) \in Seq(Fields(d))
        /\ Range(Those([f \in Fields(d) |-> f], S)) = S
    BY <1>5, <2>1, FieldsAre
  <2> QED BY <1>6, <2>1, <2>2
<1>8. pending' \in Seq(Nat)
  <2>1. Fields(d) \subseteq Nat
    BY DEF Fields
  <2> QED BY <1>7, <2>1, InLarger
<1> QED BY <1>1, <1>2, <1>3, <1>7, <1>8, AllAtOnce

LEMMA EmitKeeps ==
    ASSUME AskInv, Growing, NEW d \in Dex, Emit(d)
    PROVE  AskInv'
<1>0. Visit(d)
  BY DEF Visit
<1>1. PICK x \in Question : x = q
  BY <1>0, VisitingIs
<1>2. /\ q' = x /\ Named(x) /\ Asking(x) /\ todo \in Seq(Dex) /\ todo # <<>> /\ d = Head(todo)
      /\ Looking /\ AtDex(x, d)
  BY <1>0, <1>1, VisitingIs
<1>3. PICK id : id = Head(pending)
  OBVIOUS
<1>4. /\ pc = "emit" /\ pending # <<>>
      /\ hits' = Append(hits, <<d, id>>) /\ \E e : out' = Append(out, e)
      /\ pending' = Tail(pending) /\ pc' = IF x.first THEN "reply" ELSE "emit"
      /\ UNCHANGED <<open, todo>>
  BY <1>1, <1>3 DEF Emit
<1>5. pending \in Seq(Nat) /\ hits \in Seq(Dex \X Nat) /\ IsSeq(out) /\ Len(out) = Len(hits)
      /\ open \in BOOLEAN
  BY DEF AskInv, Shaped
<1>6. /\ id \in Nat /\ Tail(pending) \in Seq(Nat)
      /\ \A e : e \in Range(pending) <=> e = id \/ e \in Range(Tail(pending))
  BY <1>3, <1>4, <1>5, HeadAndTail
<1>7. PICK h : h = <<d, id>>
  OBVIOUS
<1>8. h \in Dex \X Nat
  BY <1>6, <1>7
<1>9. /\ hits' \in Seq(Dex \X Nat) /\ Len(hits') = Len(hits) + 1
      /\ \A e : e \in Range(hits') <=> e \in Range(hits) \/ e = h
  <2> DEFINE S == Dex \X Nat
  <2> HIDE DEF S
  <2>1. hits \in Seq(S) /\ h \in S /\ hits' = Append(hits, h)
    BY <1>4, <1>5, <1>7, <1>8 DEF S
  <2>2. /\ hits' \in Seq(S) /\ Len(hits') = Len(hits) + 1
        /\ \A e : e \in Range(hits') <=> e \in Range(hits) \/ e = h
    BY <2>1, RangeOfAppend
  <2> QED BY <2>2 DEF S
<1>10. IsSeq(out') /\ Len(out') = Len(hits')
  <2>1. PICK e : out' = Append(out, e)
    BY <1>4
  <2> QED BY <1>5, <1>9, <2>1, AppendIsSeq
<1>11. Shaped'
  BY <1>2, <1>4, <1>5, <1>6, <1>9, <1>10 DEF Shaped, Asked
<1>12. /\ Named(x)' /\ AllReached(x)' = AllReached(x) /\ \A e : Reached(e, x)' = Reached(e, x)
  BY <1>2, SameTarget, SameRight
<1>13. h \in AllReached(x)
  <2>1. d \in Range(GetPriority(x))
    <3>1. d \in Range(todo)
      BY <1>2, HeadAndTail
    <3> QED BY <1>2, <3>1 DEF Asking
  <2>2. id \in Reached(d, x)
    BY <1>2, <1>4, <1>6 DEF AtDex
  <2> QED BY <1>7, <2>1, <2>2 DEF AllReached
<1>14. AtDex(x, d)'
  <2>1. CASE x.first
    BY <1>4, <2>1 DEF AtDex
  <2>2. CASE ~x.first
    <3>1. Range(pending') \subseteq Reached(d, x)'
      BY <1>2, <1>4, <1>6, <1>12 DEF AtDex
    <3>2. ASSUME NEW e \in Reached(d, x)' PROVE FoundIn(d, x, e)' \/ e \in Range(pending')
      <4>1. FoundIn(d, x, e) \/ e \in Range(pending)
        BY <1>2, <1>4, <1>12, <2>2, <3>2 DEF AtDex
      <4> QED BY <1>4, <1>6, <1>7, <1>9, <4>1 DEF FoundIn
    <3> QED BY <1>4, <2>2, <3>1, <3>2 DEF AtDex
  <2> QED BY <2>1, <2>2
<1>15. Asking(x)'
  <2>1. Range(todo') \subseteq Range(GetPriority(x)) /\ \A e \in Range(hits') : e \in AllReached(x)'
    BY <1>2, <1>4, <1>9, <1>12, <1>13 DEF Asking
  <2>2. \A e \in Dex : todo' # <<>> /\ e = Head(todo') => AtDex(x, e)'
    BY <1>2, <1>4, <1>14
  <2>3. ASSUME ~x.first, NEW e \in Range(GetPriority(x)), NEW i \in Reached(e, x)'
        PROVE  FoundIn(e, x, i)' \/ e \in Range(todo')
    BY <1>2, <1>4, <1>9, <1>12, <2>3 DEF Asking, FoundIn
  <2> QED BY <1>12, <2>1, <2>2, <2>3 DEF Asking
<1> QED BY <1>2, <1>11, <1>15, StillAsking

LEMMA NextDexKeeps ==
    ASSUME AskInv, Growing, NEW d \in Dex, NextDex(d)
    PROVE  AskInv'
<1>0. Visit(d)
  BY DEF Visit
<1>1. PICK x \in Question : x = q
  BY <1>0, VisitingIs
<1>2. /\ q' = x /\ Named(x) /\ Asking(x) /\ todo \in Seq(Dex) /\ todo # <<>> /\ d = Head(todo)
      /\ Looking /\ AtDex(x, d)
  BY <1>0, <1>1, VisitingIs
<1>3. /\ pc = "emit" /\ pc' = "visit" /\ pending = <<>> /\ todo' = Tail(todo)
      /\ UNCHANGED <<open, pending, out, hits>>
  BY <1>1 DEF NextDex
<1>4. /\ Tail(todo) \in Seq(Dex)
      /\ \A e : e \in Range(todo) <=> e = d \/ e \in Range(Tail(todo))
  BY <1>2, HeadAndTail
<1>5. Shaped'
  BY <1>2, <1>3, <1>4 DEF AskInv, Shaped, Asked
<1>6. /\ Named(x)' /\ AllReached(x)' = AllReached(x) /\ \A e : Reached(e, x)' = Reached(e, x)
  BY <1>2, SameTarget, SameRight
<1>7. ASSUME ~x.first, NEW id \in Reached(d, x) PROVE FoundIn(d, x, id)
  BY <1>2, <1>3, <1>7, RangeOfOne DEF AtDex
<1>8. \A e \in Dex : AtDex(x, e)'
  BY <1>3 DEF AtDex
<1>9. Asking(x)'
  <2>1. ASSUME ~x.first, NEW e \in Range(GetPriority(x)), NEW i \in Reached(e, x)'
        PROVE  FoundIn(e, x, i)' \/ e \in Range(todo')
    <3>1. FoundIn(e, x, i) \/ e \in Range(todo)
      BY <1>2, <1>6, <2>1 DEF Asking
    <3> QED BY <1>3, <1>4, <1>6, <1>7, <2>1, <3>1 DEF FoundIn
  <2>2. Range(todo') \subseteq Range(GetPriority(x)) /\ \A e \in Range(hits') : e \in AllReached(x)'
    BY <1>2, <1>3, <1>4, <1>6 DEF Asking
  <2> QED BY <1>6, <1>8, <2>1, <2>2 DEF Asking
<1> QED BY <1>2, <1>5, <1>9, StillAsking

LEMMA VisitKeepsAsk ==
    ASSUME AskInv, CacheInv, IndexInv, NamesInv, NEW d \in Dex, Visit(d)
    PROVE  AskInv'
<1>1. RowsTyped /\ Growing
  BY RowsAreTyped, GrowingIs
<1> QED
  BY <1>1, PassByKeeps, AnswerFromCacheKeeps, StartScanKeeps, ScanNextKeeps,
     CollectKeeps, CollectCalleesKeeps, CollectFieldsKeeps, EmitKeeps, NextDexKeeps
     DEF Visit

(* A question is put: it is named, or it is answered at once.              *)
LEMMA AskBegins ==
    ASSUME AskInv, NEW x \in Question, Ask(x)
    PROVE  /\ pc = "idle" /\ q' = x
           /\ UNCHANGED <<open, caches, tables, pending, out, hits, told>>
           /\ \/ pc' = "visit" /\ todo' = GetPriority(x) /\ Named(x)
                 /\ (x.kind = "string" => ShapeNamed(x))
              \/ pc' = "reply" /\ todo' = <<>>
<1>1. CASE NoHandler(x)
  <2>1. pc = "idle"
    BY <1>1 DEF NoHandler
  <2>2. todo = <<>>
    BY <2>1 DEF AskInv, Shaped, Asked
  <2> QED BY <1>1, <2>2 DEF NoHandler
<1>2. ASSUME NEW n \in BOOLEAN, Begin(x, n), n => Named(x) /\ (x.kind = "string" => ShapeNamed(x))
      PROVE  /\ pc = "idle" /\ q' = x
             /\ UNCHANGED <<open, caches, tables, pending, out, hits, told>>
             /\ \/ pc' = "visit" /\ todo' = GetPriority(x) /\ Named(x)
                   /\ (x.kind = "string" => ShapeNamed(x))
                \/ pc' = "reply" /\ todo' = <<>>
  BY <1>2 DEF Begin
<1>3. IsClassIndex(x.of) \in BOOLEAN /\ ShapeNamed(x) \in BOOLEAN
  BY DEF IsClassIndex, ShapeNamed
<1>4. CASE findMethodUsingString(x)
  BY <1>1, <1>2, <1>3, <1>4
     DEF findMethodUsingString, FindMethodUsingString, Named, Kinds
<1>5. CASE findMethodInvoking(x)
  BY <1>1, <1>2, <1>3, <1>5
     DEF findMethodInvoking, FindMethodInvoking, Named, Kinds
<1>6. CASE findMethodInvoked(x)
  BY <1>1, <1>2, <1>3, <1>6
     DEF findMethodInvoked, FindMethodInvoked, Named, Kinds
<1>7. CASE findMethodGettingField(x)
  BY <1>1, <1>2, <1>3, <1>7
     DEF findMethodGettingField, FindMethodGettingField, Named, Kinds
<1>8. CASE findMethodSettingField(x)
  BY <1>1, <1>2, <1>3, <1>8
     DEF findMethodSettingField, FindMethodSettingField, Named, Kinds
<1>9. CASE findField(x)
  BY <1>1, <1>2, <1>3, <1>9 DEF findField, FindField, Named, Kinds, IsClassIndex
<1> QED BY <1>4, <1>5, <1>6, <1>7, <1>8, <1>9 DEF Ask

LEMMA AskKeepsAsk ==
    ASSUME AskInv, NEW x \in Question, Ask(x)
    PROVE  AskInv'
<1>1. /\ pc = "idle" /\ q' = x /\ UNCHANGED <<open, caches, tables, pending, out, hits, told>>
      /\ \/ pc' = "visit" /\ todo' = GetPriority(x) /\ Named(x)
         \/ pc' = "reply" /\ todo' = <<>>
  BY AskBegins
<1>2. hits = <<>> /\ Range(<<>>) = {}
  BY <1>1, RangeOfOne DEF AskInv, Shaped, Asked
<1>3. Shaped'
  BY <1>1, <1>2, PriorityIs DEF AskInv, Shaped, Asked
<1>4. pc' = "visit" => Named(x)'
  BY <1>1 DEF Named, tables
<1>5. \A d \in Dex : AtDex(x, d)'
  BY <1>1 DEF AtDex
<1>6. Asking(x)'
  BY <1>1, <1>2, <1>4, <1>5 DEF Asking, Looking
<1> QED BY <1>1, <1>3, <1>6, StillAsking

LEMMA FinishKeepsAsk == ASSUME AskInv, Finish PROVE AskInv'
<1>1. /\ pc = "visit" /\ pc' = "reply" /\ todo = <<>>
      /\ UNCHANGED <<open, caches, tables, q, todo, pending, out, hits>>
  BY DEF Finish
<1>2. PICK x \in Question : x = q
  BY <1>1 DEF AskInv, Shaped, Asked
<1>3. Asking(x) /\ Named(x)
  BY <1>1, <1>2 DEF AskInv, Asked, Asking, Looking
<1>4. Shaped'
  BY <1>1, <1>2 DEF AskInv, Shaped, Asked
<1>6. AllReached(x)' = AllReached(x)
  <2>1. UNCHANGED <<methodIdx, classIdx, fieldIdx>>
    BY <1>1 DEF tables
  <2> QED BY <2>1 DEF AllReached, Reached, Named, PassedBy, StringSearchable, StringsFound, Target,
             Sought, IsMethodMatch, ParamIds, ContainedIds, Leading, IsClassIndex, Fits
<1>7. Asking(x)'
  BY <1>1, <1>3, <1>6 DEF Asking, Looking
<1> QED BY <1>1, <1>2, <1>4, <1>7, StillAsking

(* Between questions nothing is asked.                                     *)
LEMMA Idle ==
    ASSUME open' \in BOOLEAN, pc' \in {"idle", "full"}, q' = None, todo' = <<>>,
           pending' \in Seq(Nat), out' = <<>>, hits' = <<>>
    PROVE  AskInv'
<1>1. <<>> \in Seq(Dex) /\ <<>> \in Seq(Dex \X Nat) /\ <<>> \in Seq({})
  OBVIOUS
<1>2. IsSeq(<<>>)
  BY <1>1 DEF IsSeq
<1> QED BY <1>1, <1>2 DEF AskInv, Shaped, Asked

LEMMA SeqOfNone == ASSUME NEW s, IsSeq(s), Len(s) = 0 PROVE s = <<>>
<1>1. PICK S : s \in Seq(S)
  BY DEF IsSeq
<1> QED BY <1>1

LEMMA ReplyKeepsAsk == ASSUME AskInv, Reply PROVE AskInv'
<1>1. /\ pc' = "idle" /\ q' = None /\ todo' = <<>> /\ pending' = <<>> /\ out' = <<>>
      /\ hits' = <<>> /\ open' = open
  BY DEF Reply
<1>2. open \in BOOLEAN /\ <<>> \in Seq(Nat)
  BY DEF AskInv, Shaped
<1> QED BY <1>1, <1>2, Idle

LEMMA OthersKeepAsk ==
    ASSUME AskInv, pc \in {"idle", "full"}, pc' \in {"idle", "full"}, open' \in BOOLEAN,
           UNCHANGED <<q, todo, pending, out, hits>>
    PROVE  AskInv'
<1>1. /\ q = None /\ todo = <<>> /\ hits = <<>> /\ pending \in Seq(Nat)
      /\ IsSeq(out) /\ Len(out) = Len(hits)
  BY DEF AskInv, Shaped, Asked
<1>2. out = <<>>
  BY <1>1, SeqOfNone
<1> QED BY <1>1, <1>2, Idle

LEMMA AskRests == ASSUME AskInv, UNCHANGED vars PROVE AskInv'
<1>1. UNCHANGED <<open, scanned, cache, methodIdx, classIdx, fieldIdx, pc, q, todo,
                  pending, out, hits>>
  BY DEF vars, caches, tables, asking
<1>2. Shaped'
  BY <1>1 DEF AskInv, Shaped, Asked
<1>3. ASSUME NEW x \in Question, Asked, q = x PROVE Asking(x)'
  <2>1. Asking(x)
    BY <1>3 DEF AskInv
  <2>2. /\ \A d : Reached(d, x)' = Reached(d, x) /\ PassedBy(d, x)' = PassedBy(d, x)
                  /\ Sought(d, x)' = Sought(d, x)
        /\ \A d, m : IsMethodMatch(d, m, x)' = IsMethodMatch(d, m, x)
    BY <1>1 DEF Reached, Named, PassedBy, StringSearchable, StringsFound, Target,
       Sought, IsMethodMatch, ParamIds, ContainedIds, Leading, IsClassIndex, Fits
  <2>3. AllReached(x)' = AllReached(x)
    BY <2>2 DEF AllReached
  <2>4. \A d : Cached(d, x)' = Cached(d, x)
    BY <1>1, <2>2 DEF Cached
  <2>5. \A d \in Dex : AtDex(x, d)' <=> AtDex(x, d)
    BY <1>1, <2>2, <2>4 DEF AtDex, FoundIn
  <2>6. Named(x)' <=> Named(x)
    BY <1>1 DEF Named
  <2> QED BY <1>1, <2>1, <2>2, <2>3, <2>5, <2>6 DEF Asking, Looking, FoundIn
<1> QED BY <1>1, <1>2, <1>3 DEF AskInv, Asked

LEMMA AskStep ==
    ASSUME AskInv, CacheInv, IndexInv, NamesInv, [Next]_vars
    PROVE  AskInv'
<1>1. ASSUME NEW x \in Question, Ask(x) PROVE AskInv'
  BY <1>1, AskKeepsAsk
<1>2. ASSUME NEW d \in Dex, Visit(d) PROVE AskInv'
  BY <1>2, VisitKeepsAsk
<1>3. CASE Finish
  BY <1>3, FinishKeepsAsk
<1>4. CASE Reply
  BY <1>4, ReplyKeepsAsk
<1>5. open \in BOOLEAN
  BY DEF AskInv, Shaped
<1>6. ASSUME NEW c \in NamedClass, encodeClassIndex(c) PROVE AskInv'
  BY <1>5, <1>6, OthersKeepAsk DEF encodeClassIndex, asking
<1>7. ASSUME NEW n \in NamedField, encodeFieldIndex(n) PROVE AskInv'
  BY <1>5, <1>7, OthersKeepAsk DEF encodeFieldIndex, asking
<1>8. ASSUME NEW n \in NamedMethod, encodeMethodIndex(n) PROVE AskInv'
  BY <1>5, <1>8, OthersKeepAsk DEF encodeMethodIndex, asking
<1>9. CASE createFullCache
  BY <1>5, <1>9, OthersKeepAsk DEF createFullCache
<1>10. CASE ScanAny
  <2>1. pc = "full" /\ pc' \in {"idle", "full"} /\ UNCHANGED <<open, q, todo, pending, out, hits>>
    BY <1>10 DEF ScanAny
  <2> QED BY <1>5, <2>1, OthersKeepAsk
<1>11. CASE close
  BY <1>11, OthersKeepAsk DEF close, asking
<1>12. CASE UNCHANGED vars
  BY <1>12, AskRests
<1> QED BY <1>1, <1>2, <1>3, <1>4, <1>6, <1>7, <1>8, <1>9, <1>10, <1>11, <1>12 DEF Next

LEMMA AskBegun == ASSUME Init PROVE AskInv /\ NamesInv
<1>1. /\ open \in BOOLEAN /\ pc = "idle" /\ q = None /\ todo = <<>> /\ pending = <<>>
      /\ out = <<>> /\ hits = <<>> /\ classIdx = <<>> /\ fieldIdx = <<>>
  BY DEF Init, Blank
<1>2. /\ <<>> \in Seq(Dex) /\ <<>> \in Seq(Dex \X Nat) /\ <<>> \in Seq({}) /\ <<>> \in Seq(Nat)
      /\ <<>> \in Seq([Dex -> Nat \cup {Absent}]) /\ Len(<<>>) = 0
  OBVIOUS
<1>3. AskInv
  BY <1>1, <1>2 DEF AskInv, Shaped, Asked, IsSeq
<1>4. NamesInv
  BY <1>1, <1>2 DEF NamesInv, TableInv
<1> QED BY <1>3, <1>4

-----------------------------------------------------------------------------
(* A class is named in all dex files at once.                              *)
WholeRows == \A i \in 1..Len(classIdx) : \E n : classIdx[i] = Row(ClassNamed(n), 1)

LEMMA RowsStayWhole ==
    ASSUME NamesInv, WholeRows, [Next]_vars
    PROVE  WholeRows'
<1>1. CASE UNCHANGED classIdx
  BY <1>1 DEF WholeRows
<1>2. ASSUME NEW n, classIdx' = Grown(classIdx, ClassNamed(n), 1) PROVE WholeRows'
  <2>1. CASE classIdx' = classIdx
    BY <1>1, <2>1
  <2>2. CASE classIdx' = Append(classIdx, Row(ClassNamed(n), 1))
    <3> DEFINE r == Row(ClassNamed(n), 1)
    <3> HIDE DEF r
    <3>1. \E S : classIdx \in Seq(S)
      BY DEF NamesInv, TableInv
    <3>2. /\ Len(classIdx') = Len(classIdx) + 1 /\ Len(classIdx) \in Nat
          /\ classIdx'[Len(classIdx) + 1] = r
          /\ \A i \in 1..Len(classIdx) : classIdx'[i] = classIdx[i]
      BY <2>2, <3>1 DEF r
    <3> QED BY <3>2 DEF WholeRows, r
  <2> QED BY <1>2, <2>1, <2>2 DEF Grown
<1>3. CASE close
  BY <1>3 DEF close, WholeRows
<1> QED BY <1>1, <1>2, <1>3, TablesStep

(* What the index of a question stands for, and what of it is in its row.  *)
LEMMA SubjectsOfClass ==
    ASSUME NamesInv, WholeRows, NEW x, Named(x), x.kind = "field", NEW d \in Dex
    PROVE  Subjects(d, x) = IF Target(d, x) = Absent THEN {} ELSE {Target(d, x)}
<1> DEFINE i == x.of
           r == classIdx[i]
           f == FirstWith(r)
<1>1. i \in 1..Len(classIdx)
  BY DEF Named
<1>2. PICK n \in DOMAIN ClassFamily : StandsFor(r, n, ClassFamily)
  BY <1>1 DEF NamesInv, TableInv
<1>3. ClassFamily[n] = ClassNamed(n)
  BY DEF ClassFamily
<1>4. f \in Dex /\ r[f] \in ClassNamed(n)[f]
  BY <1>2, <1>3, Families, FirstWithIs
<1>5. DecodeClass(i) = n
  BY <1>4 DEF DecodeClass, ClassNamed
<1>6. PICK o : r = Row(ClassNamed(o), 1)
  BY <1>1 DEF WholeRows
<1>7. ASSUME NEW e \in Dex
      PROVE  /\ ClassNamed(o)[e] = {} => r[e] = Absent
             /\ ClassNamed(o)[e] # {} => r[e] \in ClassNamed(o)[e]
             /\ ClassNamed(o)[e] = {t \in Types(e) : Name(e, t) = o}
  <2>1. r[e] = IF ClassNamed(o)[e] = {} THEN Absent ELSE Max(ClassNamed(o)[e])
    BY <1>6 DEF Row, Dex
  <2>2. Len(Image[e].types) \in Nat /\ ClassNamed(o)[e] \subseteq 1..Len(Image[e].types)
    BY ImageIsWellFormed DEF ClassNamed, Types
  <2>3. ClassNamed(o)[e] # {} => Max(ClassNamed(o)[e]) \in ClassNamed(o)[e]
    BY <2>2, GreatestOf
  <2> QED BY <2>1, <2>3 DEF ClassNamed
<1>8. n = o
  <2>1. r[f] # Absent
    BY <1>4, MarksAreNoIds DEF ClassNamed, Types
  <2>2. Name(f, r[f]) = o
    BY <1>4, <1>7, <2>1
  <2> QED BY <1>4, <2>2 DEF ClassNamed
<1>9. Target(d, x) = r[d] /\ Subjects(d, x) = ClassNamed(o)[d]
  BY <1>5, <1>8 DEF Target, Subjects
<1> DEFINE S == ClassNamed(o)[d]
<1>10. \A t, u \in S : t = u
  BY <1>7, ImageIsWellFormed
<1>11. Absent \notin S
  BY MarksAreNoIds DEF ClassNamed, Types
<1>12. (S = {} => r[d] = Absent) /\ (S # {} => r[d] \in S)
  BY <1>7
<1> HIDE DEF S, r
<1>13. CASE S = {}
  BY <1>9, <1>12, <1>13 DEF S, r
<1>14. CASE S # {}
  <2>1. S = {r[d]} /\ r[d] # Absent
    BY <1>10, <1>11, <1>12, <1>14
  <2> QED BY <1>9, <2>1 DEF S, r
<1> QED BY <1>13, <1>14

LEMMA SubjectsOfField ==
    ASSUME NamesInv, NEW x, Named(x), x.kind \in {"getting", "setting"}, NEW d \in Dex
    PROVE  Target(d, x) = Absent \/ Target(d, x) \in Subjects(d, x)
<1> DEFINE i == x.of
           r == fieldIdx[i]
           f == FirstWith(r)
<1>1. i \in 1..Len(fieldIdx)
  BY DEF Named
<1>2. PICK n \in DOMAIN FieldFamily : StandsFor(r, n, FieldFamily)
  BY <1>1 DEF NamesInv, TableInv
<1>3. FieldFamily[n] = FieldNamed(n)
  BY DEF FieldFamily
<1>4. f \in Dex /\ r[f] \in FieldNamed(n)[f]
  BY <1>2, <1>3, Families, FirstWithIs
<1>5. DecodeField(i) = n
  BY <1>4 DEF DecodeField, FieldNamed
<1>6. r[d] = Absent \/ r[d] \in FieldNamed(n)[d]
  BY <1>2, <1>3, Families, EntriesTell
<1> QED BY <1>5, <1>6 DEF Target, Subjects

LEMMA SubjectsOfMethod ==
    ASSUME IndexInv, NEW x, Named(x), x.kind \in {"invoking", "invoked"}, NEW d \in Dex
    PROVE  IF Target(d, x) = Absent THEN Subjects(d, x) = {}
           ELSE Target(d, x) \in Subjects(d, x)
<1> DEFINE r == methodIdx[x.of]
           f == FirstWith(r)
           has == {e \in Dex : r[e] # Absent}
<1>1. IsMethodRow(r)
  BY DEF Named, IndexInv
<1>2. PICK e \in Dex : r[e] \in Methods(e) /\ r = Row(MethodNamed(KeyOf(e, r[e])), 1)
  BY <1>1 DEF IsMethodRow
<1> DEFINE n == KeyOf(e, r[e])
<1> HIDE DEF n
<1>3. ASSUME NEW g \in Dex
      PROVE  /\ MethodNamed(n)[g] = {} => r[g] = Absent
             /\ MethodNamed(n)[g] # {} => r[g] \in MethodNamed(n)[g] /\ r[g] # Absent
             /\ MethodNamed(n)[g] = {m \in Methods(g) : KeyOf(g, m) = n}
  <2>1. r[g] = IF MethodNamed(n)[g] = {} THEN Absent ELSE Max(MethodNamed(n)[g])
    <3> DEFINE idsIn == MethodNamed(n)
    <3>1. r = Row(idsIn, 1) /\ g \in 1..Len(Image)
      BY <1>2 DEF n, Dex
    <3> HIDE DEF idsIn
    <3>2. r[g] = IF idsIn[g] = {} THEN Absent ELSE Max(idsIn[g])
      BY <3>1, ImageIsWellFormed DEF Row, Dex
    <3> QED  BY <3>2 DEF idsIn
  <2>2. Len(Image[g].methods) \in Nat /\ MethodNamed(n)[g] \subseteq 1..Len(Image[g].methods)
    BY ImageIsWellFormed DEF MethodNamed, Methods
  <2>3. MethodNamed(n)[g] # {} => Max(MethodNamed(n)[g]) \in MethodNamed(n)[g]
    BY <2>2, GreatestOf
  <2>4. Absent \notin MethodNamed(n)[g]
    BY <2>2, MarksAreNoIds
  <2> QED BY <2>1, <2>3, <2>4 DEF MethodNamed
<1>4. has \subseteq Nat /\ e \in has
  BY <1>2, MarksAreNoIds DEF Dex, Methods
<1>5. f \in has
  BY <1>4, LeastOf DEF FirstWith
<1>6. KeyOf(f, r[f]) = n
  BY <1>3, <1>5
<1>7. DecodeMethod(x.of) = <<f, r[f]>>
  BY DEF DecodeMethod
<1>8. Target(d, x) = r[d] /\ Subjects(d, x) = MethodNamed(n)[d]
  BY <1>6, <1>7 DEF Target, Subjects
<1> QED BY <1>3, <1>8

(* The strings looked for are those that are to be found.                  *)
LEMMA SoughtStrings ==
    ASSUME NEW x \in Question, x.kind = "string", NEW d \in Dex
    PROVE  Range(Sought(d, x)) = {<<"string", c>> : c \in StringsFound(d, x)}
<1> DEFINE S == StringsFound(d, x)
           n == Len(Image[d].strings)
           a == Min(S)
           b == Max(S)
           k == Cardinality(S)
           at(i) == a + (i - 1)
<1>1. n \in Nat /\ S \subseteq 1..n
  BY ImageIsWellFormed DEF StringsFound, Strings
<1>2. k \in Nat /\ S = {at(i) : i \in 1..k}
  <2>1. CASE S = {}
    BY <2>1, FS_EmptySet
  <2>2. CASE S # {}
    <3>1. a \in S /\ (\A y \in S : a <= y) /\ b \in S /\ (\A y \in S : b >= y)
      BY <1>1, <2>2, LeastOf, GreatestOf
    <3>2. a..b \subseteq S
      <4>1. CASE x.prefix
        BY <3>1, <4>1, StringsAreSorted
      <4>2. CASE ~x.prefix
        <5>1. a = b
          BY <3>1, <4>2, ImageIsWellFormed DEF StringsFound
        <5> QED BY <1>1, <3>1, <5>1
      <4> QED BY <4>1, <4>2
    <3> HIDE DEF S, a, b
    <3>3. a \in Nat /\ b \in Nat /\ a <= b /\ S \subseteq Nat
      BY <1>1, <3>1
    <3>8. \A y \in S : y \in Nat /\ a <= y /\ y <= b
      BY <3>1, <3>3
    <3>9. S \subseteq a..b
      BY <3>3, <3>8
    <3>4. S = a..b
      BY <3>2, <3>9
    <3>5. Cardinality(a..b) = (b - a) + 1
      BY <3>3, FS_Interval
    <3>6. k \in Nat /\ k = (b - a) + 1
      BY <3>3, <3>4, <3>5 DEF k
    <3> HIDE DEF k
    <3>7. \A y : y \in S <=> \E i \in 1..k : y = a + (i - 1)
      <4>1. ASSUME NEW y \in S PROVE (y - a) + 1 \in 1..k /\ y = a + (((y - a) + 1) - 1)
        BY <3>3, <3>4, <3>6
      <4>2. ASSUME NEW i \in 1..k PROVE a + (i - 1) \in S
        BY <3>3, <3>4, <3>6
      <4> QED BY <4>1, <4>2
    <3> QED BY <3>6, <3>7
  <2> QED BY <2>1, <2>2
<1>3. Sought(d, x) = [i \in 1..k |-> <<"string", at(i)>>]
  BY DEF Sought
<1> HIDE DEF k, at, S
<1>4. Range(Sought(d, x)) = {<<"string", at(i)>> : i \in 1..k}
  BY <1>3 DEF Range
<1>5. {<<"string", at(i)>> : i \in 1..k} = {<<"string", c>> : c \in S}
  BY <1>2
<1> QED BY <1>4, <1>5 DEF S

(* What is reached is right; what is right is reached or lost.             *)
LEMMA ReachedOrLost ==
    ASSUME IndexInv, NamesInv, WholeRows, NEW x \in Question, Named(x), NEW d \in Dex
    PROVE  /\ Reached(d, x) \subseteq Right(d, x)
           /\ \A id \in Right(d, x) : id \in Reached(d, x) \/ Lost(d, x, id)
<1> DEFINE t == Target(d, x)
<1>1. CASE x.kind = "string"
  <2>1. Right(d, x) = {m \in Methods(d) : /\ IsMethodMatch(d, m, x)
                          /\ \E c \in StringsFound(d, x) : Uses(d, m, <<"string", c>>)}
    BY <1>1 DEF Right, Subjects, Relates
  <2>2. CASE PassedBy(d, x)
    <3>1. Reached(d, x) = {} /\ ~StringSearchable(d, x)
      BY <1>1, <2>2 DEF Reached, PassedBy
    <3>2. CASE x.prefix
      BY <1>1, <3>1, <3>2 DEF StringSearchable, Lost
    <3>3. CASE ~x.prefix
      <4>1. StringsFound(d, x) = {}
        BY <3>1, <3>3 DEF StringSearchable
      <4> QED BY <2>1, <3>1, <4>1
    <3> QED BY <3>2, <3>3
  <2>3. CASE ~PassedBy(d, x)
    <3>1. Reached(d, x) = {m \in Methods(d) : /\ IsMethodMatch(d, m, x)
                              /\ \E k \in Range(Sought(d, x)) : Uses(d, m, k)}
      BY <1>1, <2>3 DEF Reached
    <3>2. \A m : (\E k \in Range(Sought(d, x)) : Uses(d, m, k))
                   <=> \E c \in StringsFound(d, x) : Uses(d, m, <<"string", c>>)
      <4>1. Range(Sought(d, x)) = {<<"string", c>> : c \in StringsFound(d, x)}
        BY <1>1, SoughtStrings
      <4> QED BY <4>1
    <3> QED BY <2>1, <3>1, <3>2
  <2> QED BY <2>2, <2>3
<1>2. CASE x.kind = "field"
  <2>1. Right(d, x) = {f \in Fields(d) : \E c \in Subjects(d, x) : Field(d, f).type = c}
    BY <1>2 DEF Right, Relates
  <2>2. PassedBy(d, x) <=> t = Absent
    BY <1>2 DEF PassedBy
  <2>3. Reached(d, x) = IF t = Absent THEN {} ELSE {f \in Fields(d) : Field(d, f).type = t}
    BY <1>2, <2>2 DEF Reached
  <2> QED BY <1>2, <2>1, <2>3, SubjectsOfClass
<1>3. CASE x.kind = "invoking"
  <2>1. Right(d, x) = {m \in Methods(d) : /\ IsMethodMatch(d, m, x)
                          /\ \E c \in Subjects(d, x) : Uses(d, c, <<"invoke", m>>)}
    BY <1>3 DEF Right, Relates
  <2>2. PassedBy(d, x) <=> t = Absent
    BY <1>3 DEF PassedBy
  <2>3. CASE t = Absent
    <3>1. Subjects(d, x) = {} /\ Reached(d, x) = {}
      BY <1>3, <2>2, <2>3, SubjectsOfMethod DEF Reached
    <3> QED BY <2>1, <3>1
  <2>4. CASE t # Absent
    <3>1. t \in Subjects(d, x)
      BY <1>3, <2>4, SubjectsOfMethod
    <3>2. Reached(d, x) = {m \in Methods(d) : IsMethodMatch(d, m, x)
                                               /\ Uses(d, t, <<"invoke", m>>)}
      BY <1>3, <2>2, <2>4 DEF Reached
    <3>3. \A id : Lost(d, x, id) <=> ~Uses(d, t, <<"invoke", id>>)
      BY <1>3, <3>1 DEF Lost, Relates
    <3> QED BY <2>1, <3>1, <3>2, <3>3
  <2> QED BY <2>3, <2>4
<1>4. CASE x.kind \in {"invoked", "getting", "setting"}
  <2> DEFINE o(c) == <<Instruction(x), c>>
  <2>1. Right(d, x) = {m \in Methods(d) : /\ IsMethodMatch(d, m, x)
                          /\ \E c \in Subjects(d, x) : Uses(d, m, o(c))}
    BY <1>4 DEF Right, Relates
  <2>2. PassedBy(d, x) <=> t = Absent
    BY <1>4 DEF PassedBy
  <2>3. CASE t = Absent
    <3>1. Reached(d, x) = {}
      BY <1>4, <2>2, <2>3 DEF Reached
    <3>2. CASE x.kind = "invoked"
      <4>1. Subjects(d, x) = {}
        BY <2>3, <3>2, SubjectsOfMethod
      <4> QED BY <2>1, <3>1, <4>1
    <3>3. CASE x.kind # "invoked"
      BY <1>4, <2>3, <3>1, <3>3 DEF Lost
    <3> QED BY <3>2, <3>3
  <2>4. CASE t # Absent
    <3>1. t \in Subjects(d, x)
      BY <1>4, <2>4, SubjectsOfMethod, SubjectsOfField
    <3>2. Reached(d, x) = {m \in Methods(d) : /\ IsMethodMatch(d, m, x)
                              /\ \E k \in Range(Sought(d, x)) : Uses(d, m, k)}
      BY <1>4, <2>2, <2>4 DEF Reached
    <3>3. Sought(d, x) = <<o(t)>>
      BY <1>4 DEF Sought
    <3> HIDE DEF o
    <3>4. Range(Sought(d, x)) = {o(t)}
      BY <3>3, RangeOfOne
    <3>5. Reached(d, x) = {m \in Methods(d) : IsMethodMatch(d, m, x) /\ Uses(d, m, o(t))}
      BY <3>2, <3>4
    <3>6. \A id : ~Uses(d, id, o(t)) => Lost(d, x, id)
      BY <1>4, <3>1 DEF Lost, Relates, o
    <3> QED BY <2>1, <3>1, <3>5, <3>6
  <2> QED BY <2>3, <2>4
<1> QED BY <1>1, <1>2, <1>3, <1>4 DEF Named, Kinds

LEMMA HelperStaysTyped == ASSUME AskInv, CacheInv, IndexInv, NamesInv PROVE TypeOK
<1>1. RowsTyped
  BY RowsAreTyped
<1>2. q \in Question \cup {None}
  BY DEF AskInv, Shaped
<1> QED BY <1>1, <1>2 DEF TypeOK, RowsTyped, AskInv, Shaped, CacheInv, CachesTyped

LEMMA AskedIsRight ==
    ASSUME AskInv, CacheInv, IndexInv, NamesInv, WholeRows
    PROVE  AnswersAreRight /\ MissHasACause
<1>1. CASE ~Asked
  <2>1. pc \in {"idle", "full"}
    BY <1>1 DEF AskInv, Shaped, Asked
  <2> QED BY <2>1 DEF AnswersAreRight, MissHasACause, Answered
<1>2. CASE Asked
  <2>1. PICK x \in Question : x = q
    BY <1>2 DEF AskInv, Shaped
  <2>2. Asking(x) /\ todo \in Seq(Dex) /\ hits \in Seq(Dex \X Nat)
    BY <1>2, <2>1 DEF AskInv, Shaped
  <2>3. GetPriority(x) \in Seq(Dex)
    BY PriorityIs
  <2>4. Range(GetPriority(x)) \subseteq Dex
    <3> DEFINE D == Dex
               p == GetPriority(x)
    <3> HIDE DEF D, p
    <3>1. p \in Seq(D)
      BY <2>3 DEF D, p
    <3>2. Range(p) \subseteq D
      BY <3>1 DEF Range
    <3> QED BY <3>2 DEF D, p
  <2>5. ASSUME NEW h \in Range(hits) PROVE h \in AllRight(x)
    <3>1. PICK d \in Range(GetPriority(x)) : h \in {d} \X Reached(d, x)
      BY <2>2 DEF Asking, AllReached
    <3>2. PICK id \in Reached(d, x) : h = <<d, id>>
      BY <3>1
    <3>3. Named(x)
      BY <3>2 DEF Reached
    <3>4. id \in Right(d, x)
      BY <2>4, <3>2, <3>3, ReachedOrLost
    <3> QED BY <3>2, <3>4 DEF AllRight
  <2>6. ASSUME pc = "visit", todo = <<>>, ~x.first, NEW h \in AllRight(x)
        PROVE  h \in Range(hits) \/ Lost(h[1], x, h[2])
    <3>1. Named(x)
          /\ \A d \in Range(GetPriority(x)) : \A id \in Reached(d, x) : <<d, id>> \in Range(hits)
      BY <2>2, <2>6, RangeOfOne DEF Asking, Looking, FoundIn
    <3>2. PICK d \in Range(GetPriority(x)) : h \in {d} \X Right(d, x)
      BY DEF AllRight
    <3>3. PICK id \in Right(d, x) : h = <<d, id>>
      BY <3>2
    <3>4. id \in Reached(d, x) \/ Lost(d, x, id)
      BY <2>4, <3>1, ReachedOrLost
    <3> QED BY <3>1, <3>3, <3>4
  <2>7. AnswersAreRight
    BY <2>1, <2>5, <2>6 DEF AnswersAreRight
  <2>8. ASSUME NEW d \in Dex, todo # <<>>, d = Head(todo), x.first,
               (pc = "emit" /\ pending = <<>>) \/ (pc = "visit" /\ PassedBy(d, x))
        PROVE  \/ \A id \in Right(d, x) : Lost(d, x, id)
               \/ /\ pc = "emit" /\ x.kind \in {"invoked", "getting", "setting"}
                  /\ \E m \in Range(cache[d][Sought(d, x)[1]]) : ~IsMethodMatch(d, m, x)
    <3>1. Named(x) /\ AtDex(x, d)
      BY <2>2, <2>8 DEF Asking, Looking
    <3>2. Reached(d, x) = {} => \A id \in Right(d, x) : Lost(d, x, id)
      BY <3>1, ReachedOrLost
    <3>3. CASE pc = "visit" /\ PassedBy(d, x)
      BY <3>2, <3>3 DEF Reached
    <3>4. CASE pc = "emit" /\ pending = <<>>
      BY <2>8, <3>1, <3>2, <3>4 DEF AtDex, Named, Kinds
    <3> QED BY <2>8, <3>3, <3>4
  <2>9. MissHasACause
    BY <2>1, <2>8 DEF MissHasACause
  <2> QED BY <2>7, <2>9
<1> QED BY <1>1, <1>2

-----------------------------------------------------------------------------
(* The first answer to a question about a string.                          *)

(* <<d, m>> is the first answer: no file before d has any, and m comes     *)
(* first in the caches of d.                                               *)
IsFirst(x, d, m) ==
    /\ \E p \in 1..Len(GetPriority(x)) :
          /\ d = GetPriority(x)[p]
          /\ \A j \in 1..(p - 1) : Reached(GetPriority(x)[j], x) = {}
    /\ ~PassedBy(d, x) /\ Cached(d, x) # <<>> /\ m = Head(Cached(d, x))

(* The files left are the last of the order, none before them has any.     *)
Before(x, p) ==
    /\ Len(todo) + p = Len(GetPriority(x))
    /\ \A i \in 1..Len(todo) : todo[i] = GetPriority(x)[p + i]
    /\ \A j \in 1..p : Reached(GetPriority(x)[j], x) = {}

FirstOf(x) ==
    /\ Looking => ShapeNamed(x)
    /\ Looking /\ x.first => hits = <<>> /\ \E p \in 0..Len(GetPriority(x)) : Before(x, p)
    /\ \A d \in Dex : todo # <<>> /\ d = Head(todo)
                        /\ pc = "emit" /\ x.first /\ pending # <<>> =>
             ~PassedBy(d, x) /\ Cached(d, x) # <<>> /\ Head(pending) = Head(Cached(d, x))
    /\ pc = "reply" /\ x.first /\ hits # <<>> =>
          ShapeNamed(x) /\ \E d \in Dex, m \in Nat : hits[1] = <<d, m>> /\ IsFirst(x, d, m)
FirstInv == \A x \in Question : Asked /\ q = x /\ x.kind = "string" => FirstOf(x)

IsTold(x) ==
    /\ x.kind = "string" /\ x.first /\ ~x.prefix /\ Definite(x) /\ ShapeNamed(x)
    /\ \E d \in Dex, m \in Nat : told[x] = <<d, m>> /\ IsFirst(x, d, m)
ToldInv == DOMAIN told = Question /\ \A x \in Question : told[x] # None => IsTold(x)

(* A whole string is one string of a file, if it is there.                 *)
LEMMA WholeString ==
    ASSUME NEW x, x.kind = "string", ~x.prefix, NEW d \in Dex, ~PassedBy(d, x)
    PROVE  \E k \in Operand[d] : Sought(d, x) = <<k>>
<1> DEFINE S == StringsFound(d, x)
<1>1. S # {}
  BY DEF PassedBy, StringSearchable
<1>2. PICK s \in Strings(d) : s \in S
  BY <1>1 DEF StringsFound
<1>3. S = {s}
  BY <1>2, ImageIsWellFormed DEF StringsFound
<1>4. s \in Nat
  BY <1>2 DEF Strings
<1>5. Cardinality(S) = 1 /\ Min(S) = s
  <2>1. Cardinality({s}) = 1
    BY FS_Singleton
  <2>2. Min({s}) \in {s}
    BY <1>4, LeastOf
  <2> QED BY <1>3, <2>1, <2>2
<1> DEFINE k == <<"string", s>>
<1>6. k \in Operand[d]
  BY DEF Operand
<1>7. Sought(d, x) = [i \in 1..Cardinality(S) |-> <<"string", Min(S) + (i - 1)>>]
  BY DEF Sought
<1>8. Sought(d, x) = [i \in 1..1 |-> <<"string", s + (i - 1)>>]
  BY <1>5, <1>7
<1>9. \A i \in 1..1 : <<"string", s + (i - 1)>> = k
  <2>1. \A i \in 1..1 : i - 1 = 0 /\ s + (i - 1) = s
    BY <1>4
  <2> QED BY <2>1
<1> HIDE DEF k
<1>10. Sought(d, x) = [i \in 1..1 |-> k]
  BY <1>8, <1>9
<1>11. Sought(d, x) = <<k>>
  BY <1>10
<1> QED BY <1>6, <1>11

LEMMA CachedOfOne ==
    ASSUME CacheInv, NEW d \in Dex, NEW x, NEW k \in Operand[d], Sought(d, x) = <<k>>
    PROVE  Cached(d, x) = Those(cache[d][k], {m \in Methods(d) : IsMethodMatch(d, m, x)})
<1>1. cache[d][k] \in Seq(Methods(d))
  BY DEF CacheInv, CachesTyped
<1> DEFINE s == Sought(d, x)
<1>2. DOMAIN s = {1} /\ s[1] = k
  OBVIOUS
<1>3. [i \in DOMAIN s |-> cache[d][s[i]]] = <<cache[d][k]>>
  <2> HIDE DEF s
  <2>1. [i \in DOMAIN s |-> cache[d][s[i]]] = [i \in 1..1 |-> cache[d][k]]
    BY <1>2
  <2> QED BY <2>1
<1>4. FlattenSeq(<<cache[d][k]>>) = cache[d][k]
  BY <1>1, FlatOne
<1>5. Cached(d, x) = Those(FlattenSeq([i \in DOMAIN s |-> cache[d][s[i]]]),
                           {m \in Methods(d) : IsMethodMatch(d, m, x)})
  BY DEF Cached
<1> QED BY <1>3, <1>4, <1>5

CachedOneFact ==
    CacheInv => \A d \in Dex : \A x : \A k \in Operand[d] : Sought(d, x) = <<k>> =>
        Cached(d, x) = Those(cache[d][k], {m \in Methods(d) : IsMethodMatch(d, m, x)})
LEMMA CachedOneAlways == CachedOneFact
BY CachedOfOne DEF CachedOneFact

(* The caches only grow, at their ends.                                    *)
CachesGrow ==
    \A d \in Dex : \A k \in Operand[d] :
        \E t \in Seq(Methods(d)) : cache'[d][k] = cache[d][k] \o t

LEMMA CachesStay == ASSUME CacheInv, UNCHANGED caches PROVE CachesGrow
<1> SUFFICES ASSUME NEW d \in Dex, NEW k \in Operand[d]
             PROVE  \E t \in Seq(Methods(d)) : cache'[d][k] = cache[d][k] \o t
  BY DEF CachesGrow
<1>1. cache[d][k] \in Seq(Methods(d)) /\ cache'[d][k] = cache[d][k]
  BY DEF CacheInv, CachesTyped, caches
<1>2. <<>> \in Seq(Methods(d)) /\ cache[d][k] \o <<>> = cache[d][k]
  BY <1>1
<1> QED BY <1>1, <1>2

LEMMA ScanGrows ==
    ASSUME CacheInv, NEW d \in Dex, NEW m \in Methods(d), ScanMethod(d, m)
    PROVE  CachesGrow
<1> SUFFICES ASSUME NEW e \in Dex, NEW k \in Operand[e]
             PROVE  \E t \in Seq(Methods(e)) : cache'[e][k] = cache[e][k] \o t
  BY DEF CachesGrow
<1>1. cache[e][k] \in Seq(Methods(e)) /\ DOMAIN cache = Dex
  BY DEF CacheInv, CachesTyped
<1>2. CASE e # d
  <2>1. cache'[e][k] = cache[e][k]
    BY <1>1, <1>2 DEF ScanMethod
  <2>2. <<>> \in Seq(Methods(e)) /\ cache[e][k] \o <<>> = cache[e][k]
    BY <1>1
  <2> QED BY <2>1, <2>2
<1>3. CASE e = d
  <2> DEFINE t == [i \in 1..Times(d, m, k) |-> m]
  <2>1. cache'[e][k] = cache[e][k] \o t
    BY <1>1, <1>3 DEF ScanMethod
  <2>2. Times(d, m, k) \in Nat
    BY <1>3, Entered
  <2>3. t \in Seq(Methods(e))
    BY <1>3, <2>2
  <2> QED BY <2>1, <2>3
<1> QED BY <1>2, <1>3

(* The first answer stays the first while the shape stays the same.        *)
LEMMA FirstOneStays ==
    ASSUME CacheInv, CacheInv', CachesGrow,
           NEW x \in Question, x.kind = "string", ~x.prefix,
           \A d, m : IsMethodMatch(d, m, x)' = IsMethodMatch(d, m, x),
           NEW d \in Dex, NEW m, IsFirst(x, d, m)
    PROVE  IsFirst(x, d, m)'
<1>1. \A e : PassedBy(e, x)' = PassedBy(e, x) /\ Sought(e, x)' = Sought(e, x)
  BY DEF PassedBy, StringSearchable, StringsFound, Sought
<1>2. \A e : Reached(e, x)' = Reached(e, x)
  BY <1>1 DEF Reached, Named, Kinds
<1>3. ~PassedBy(d, x) /\ Cached(d, x) # <<>> /\ m = Head(Cached(d, x))
  BY DEF IsFirst
<1>4. PICK k \in Operand[d] : Sought(d, x) = <<k>>
  BY <1>3, WholeString
<1> DEFINE F == {l \in Methods(d) : IsMethodMatch(d, l, x)}
<1>5. Cached(d, x) = Those(cache[d][k], F)
  BY <1>4, CachedOfOne
<1>6. Cached(d, x)' = Those(cache'[d][k], F)
  <2>1. CachedOneFact'
    BY CachedOneAlways, PTL
  <2>2. Sought(d, x)' = <<k>>
    BY <1>1, <1>4
  <2>3. Cached(d, x)' = Those(cache'[d][k], {l \in Methods(d) : IsMethodMatch(d, l, x)'})
    BY <2>1, <2>2 DEF CachedOneFact
  <2>4. {l \in Methods(d) : IsMethodMatch(d, l, x)'} = F
    OBVIOUS
  <2> QED BY <2>3, <2>4
<1> HIDE DEF F
<1>7. PICK t \in Seq(Methods(d)) : cache'[d][k] = cache[d][k] \o t
  BY DEF CachesGrow
<1>8. cache[d][k] \in Seq(Methods(d))
  BY DEF CacheInv, CachesTyped
<1>9. Cached(d, x)' # <<>> /\ Head(Cached(d, x)') = m
  BY <1>3, <1>5, <1>6, <1>7, <1>8, FirstStays
<1> QED BY <1>1, <1>2, <1>9 DEF IsFirst

(* There is one first answer.                                              *)
LEMMA OneFirst ==
    ASSUME CacheInv, RowsTyped, NEW x \in Question, x.kind = "string",
           NEW d \in Dex, NEW m, IsFirst(x, d, m), NEW e \in Dex, NEW n, IsFirst(x, e, n)
    PROVE  d = e /\ m = n
<1> DEFINE P == GetPriority(x)
<1>1. Named(x)
  BY DEF Named, Kinds
<1>2. ASSUME NEW f \in Dex, NEW l, IsFirst(x, f, l) PROVE Reached(f, x) # {}
  <2>1. ~PassedBy(f, x) /\ Cached(f, x) # <<>>
    BY <1>2 DEF IsFirst
  <2>2. Cached(f, x) \in Seq(Methods(f)) /\ Range(Cached(f, x)) \subseteq Reached(f, x)
    BY <1>1, <2>1, CachedIsRight
  <2> QED BY <2>1, <2>2, EmptyIs
<1>3. PICK p \in 1..Len(P) : d = P[p] /\ \A j \in 1..(p - 1) : Reached(P[j], x) = {}
  BY DEF IsFirst
<1>4. PICK r \in 1..Len(P) : e = P[r] /\ \A j \in 1..(r - 1) : Reached(P[j], x) = {}
  BY DEF IsFirst
<1>5. Reached(d, x) # {} /\ Reached(e, x) # {}
  BY <1>2
<1> HIDE DEF P
<1>6. p = r
  <2>1. ~ (p < r)
    <3>1. p < r => p \in 1..(r - 1)
      OBVIOUS
    <3> QED BY <1>3, <1>4, <1>5, <3>1
  <2>2. ~ (r < p)
    <3>1. r < p => r \in 1..(p - 1)
      OBVIOUS
    <3> QED BY <1>3, <1>4, <1>5, <3>1
  <2> QED BY <2>1, <2>2
<1> QED BY <1>3, <1>4, <1>6 DEF IsFirst

LEMMA CachedStays ==
    ASSUME UNCHANGED caches, Growing, NEW x, Named(x), NEW d
    PROVE  Cached(d, x)' = Cached(d, x)
<1>1. Sought(d, x)' = Sought(d, x) /\ \A m : IsMethodMatch(d, m, x)' = IsMethodMatch(d, m, x)
  BY SameTarget, SameShape DEF Growing
<1> QED BY <1>1 DEF Cached, caches

(* The file at the head of those left is the next of the order.            *)
LEMMA BeforeGoesOn ==
    ASSUME NEW x \in Question, NEW p \in 0..Len(GetPriority(x)), Before(x, p),
           todo \in Seq(Dex), todo # <<>>, Reached(Head(todo), x) = {},
           todo' = Tail(todo), \A e : Reached(e, x)' = Reached(e, x)
    PROVE  \E r \in 0..Len(GetPriority(x)) : Before(x, r)'
<1> DEFINE P == GetPriority(x)
<1>1. Len(P) \in Nat
  BY PriorityIs
<1>2. /\ Len(todo) + p = Len(P) /\ \A i \in 1..Len(todo) : todo[i] = P[p + i]
      /\ \A j \in 1..p : Reached(P[j], x) = {}
  BY DEF Before
<1>3. /\ Len(todo) \in Nat /\ Len(todo) > 0 /\ Len(Tail(todo)) = Len(todo) - 1
      /\ Head(todo) = todo[1] /\ \A i \in 1..(Len(todo) - 1) : Tail(todo)[i] = todo[i + 1]
  BY HeadAndTail
<1> HIDE DEF P
<1>4. p + 1 \in 0..Len(P) /\ Len(todo') + (p + 1) = Len(P)
  BY <1>1, <1>2, <1>3
<1>5. ASSUME NEW i \in 1..Len(todo') PROVE todo'[i] = P[(p + 1) + i]
  <2>1. i \in 1..(Len(todo) - 1) /\ i + 1 \in 1..Len(todo) /\ p + (i + 1) = (p + 1) + i
    BY <1>3
  <2> QED BY <1>2, <1>3, <2>1
<1>6. Head(todo) = P[p + 1]
  BY <1>2, <1>3
<1>7. ASSUME NEW j \in 1..(p + 1) PROVE Reached(P[j], x)' = {}
  <2>1. j \in 1..p \/ j = p + 1
    OBVIOUS
  <2>2. Reached(P[j], x) = {}
    BY <1>2, <1>6, <2>1
  <2> QED BY <2>2
<1>8. Before(x, p + 1)'
  BY <1>4, <1>5, <1>7 DEF Before, P
<1> QED BY <1>4, <1>8 DEF P

LEMMA BeforeStays ==
    ASSUME NEW x \in Question, UNCHANGED todo, \A e : Reached(e, x)' = Reached(e, x),
           \E p \in 0..Len(GetPriority(x)) : Before(x, p)
    PROVE  \E p \in 0..Len(GetPriority(x)) : Before(x, p)'
<1>1. PICK p \in 0..Len(GetPriority(x)) : Before(x, p)
  OBVIOUS
<1>2. Before(x, p)'
  BY <1>1 DEF Before
<1> QED BY <1>2

LEMMA HeadIsFirst ==
    ASSUME NEW x \in Question, NEW p \in 0..Len(GetPriority(x)), Before(x, p),
           todo \in Seq(Dex), todo # <<>>, NEW d \in Dex, d = Head(todo),
           ~PassedBy(d, x), Cached(d, x) # <<>>, NEW m, m = Head(Cached(d, x))
    PROVE  IsFirst(x, d, m)
<1>1. /\ Len(todo) \in Nat /\ Len(todo) > 0 /\ Head(todo) = todo[1]
  BY HeadAndTail
<1>2. Len(GetPriority(x)) \in Nat
  BY PriorityIs
<1>3. p + 1 \in 1..Len(GetPriority(x)) /\ d = GetPriority(x)[p + 1] /\ (p + 1) - 1 = p
  BY <1>1, <1>2 DEF Before
<1>4. \A j \in 1..((p + 1) - 1) : Reached(GetPriority(x)[j], x) = {}
  BY <1>3 DEF Before
<1> QED BY <1>3, <1>4 DEF IsFirst

LEMMA VisitKeepsFirst ==
    ASSUME AskInv, CacheInv, IndexInv, NamesInv, FirstInv, NEW d \in Dex, Visit(d)
    PROVE  FirstInv'
<1>1. PICK x \in Question : x = q
  BY VisitingIs
<1>2. /\ q' = x /\ Named(x) /\ Looking /\ todo \in Seq(Dex) /\ todo # <<>> /\ d = Head(todo)
      /\ AtDex(x, d)
  BY <1>1, VisitingIs
<1>3. SUFFICES ASSUME x.kind = "string" PROVE FirstOf(x)'
  BY <1>2 DEF FirstInv
<1>4. FirstOf(x)
  BY <1>1, <1>2, <1>3 DEF FirstInv, Asked, Looking
<1>5. Growing
  BY GrowingIs
<1>6. /\ \A e : Reached(e, x)' = Reached(e, x) /\ PassedBy(e, x)' = PassedBy(e, x)
      /\ ShapeNamed(x) /\ ShapeNamed(x)'
  BY <1>2, <1>4, <1>5, SameRight, SameTarget, SameShape DEF Growing, FirstOf
<1>7. x.first => hits = <<>> /\ \E p \in 0..Len(GetPriority(x)) : Before(x, p)
  BY <1>2, <1>4 DEF FirstOf
<1>8. CASE PassBy(d)
  <2>1. /\ pc' = "visit" /\ PassedBy(d, x) /\ todo' = Tail(todo) /\ hits' = hits
    BY <1>1, <1>8 DEF PassBy, Visiting
  <2>2. Reached(d, x) = {}
    BY <2>1 DEF Reached
  <2>3. x.first => \E p \in 0..Len(GetPriority(x)) : Before(x, p)'
    BY <1>2, <1>6, <1>7, <2>1, <2>2, BeforeGoesOn
  <2> QED BY <1>6, <1>7, <2>1, <2>3 DEF FirstOf
<1>9. CASE NextDex(d)
  <2>1. /\ pc = "emit" /\ pending = <<>> /\ pc' = "visit" /\ todo' = Tail(todo) /\ hits' = hits
    BY <1>9 DEF NextDex
  <2>2. x.first => Reached(d, x) = {}
    BY <1>2, <1>3, <2>1 DEF AtDex
  <2>3. x.first => \E p \in 0..Len(GetPriority(x)) : Before(x, p)'
    BY <1>2, <1>6, <1>7, <2>1, <2>2, BeforeGoesOn
  <2> QED BY <1>6, <1>7, <2>1, <2>3 DEF FirstOf
<1>10. CASE StartScan(d) \/ ScanNext(d)
  <2>1. pc' \in {"scan", "collect"} /\ UNCHANGED <<todo, hits>>
    BY <1>10 DEF StartScan, ScanNext
  <2>2. x.first => \E p \in 0..Len(GetPriority(x)) : Before(x, p)'
    BY <1>6, <1>7, <2>1, BeforeStays
  <2> QED BY <1>6, <1>7, <2>1, <2>2 DEF FirstOf
<1>11. CASE AnswerFromCache(d) \/ Collect(d)
  <2>1. pc' = "emit" /\ UNCHANGED <<todo, hits, caches>>
    BY <1>11 DEF AnswerFromCache, Collect
  <2>2. x.first => \E p \in 0..Len(GetPriority(x)) : Before(x, p)'
    BY <1>6, <1>7, <2>1, BeforeStays
  <2>3. Cached(d, x)' = Cached(d, x)
    BY <1>2, <1>5, <2>1, CachedStays
  <2>4. ~PassedBy(d, x)
    BY <1>1, <1>2, <1>11 DEF AnswerFromCache, Collect, AtDex
  <2>5. ASSUME pending' # <<>>
        PROVE Cached(d, x) # <<>> /\ Head(pending') = Head(Cached(d, x))
    <3>1. CASE AnswerFromCache(d)
      BY <1>1, <3>1 DEF AnswerFromCache
    <3>2. CASE Collect(d)
      BY <1>1, <2>5, <3>2 DEF Collect
    <3> QED BY <1>11, <3>1, <3>2
  <2> QED BY <1>2, <1>6, <1>7, <2>1, <2>2, <2>3, <2>4, <2>5 DEF FirstOf
<1>12. CASE CollectCallees(d) \/ CollectFields(d)
  BY <1>1, <1>3, <1>12 DEF CollectCallees, CollectFields
<1>13. CASE Emit(d)
  <2>1. PICK id : id = Head(pending)
    OBVIOUS
  <2>2. /\ pc = "emit" /\ pending # <<>> /\ hits' = Append(hits, <<d, id>>)
        /\ pc' = IF x.first THEN "reply" ELSE "emit"
        /\ UNCHANGED <<todo, caches>>
    BY <1>1, <1>13, <2>1 DEF Emit
  <2>3. CASE ~x.first
    BY <1>6, <2>2, <2>3 DEF FirstOf
  <2>4. CASE x.first
    <3>1. /\ ~PassedBy(d, x) /\ Cached(d, x) # <<>> /\ id = Head(Cached(d, x))
      BY <1>2, <1>4, <2>1, <2>2, <2>4 DEF FirstOf
    <3>2. IsFirst(x, d, id)
      BY <1>2, <1>7, <2>4, <3>1, HeadIsFirst
    <3>3. Cached(d, x)' = Cached(d, x)
      BY <1>2, <1>5, <2>2, CachedStays
    <3>4. IsFirst(x, d, id)'
      BY <1>6, <3>2, <3>3 DEF IsFirst
    <3>5. hits' = <<<<d, id>>>> /\ hits'[1] = <<d, id>>
      <4>1. PICK h : h = <<d, id>>
        OBVIOUS
      <4>2. hits' = Append(<<>>, h)
        BY <1>7, <2>2, <2>4, <4>1
      <4>3. Append(<<>>, h) = <<h>>
        OBVIOUS
      <4> QED BY <4>1, <4>2, <4>3
    <3>6. id \in Nat
      <4>1. pending \in Seq(Nat)
        BY DEF AskInv, Shaped
      <4> QED BY <2>1, <2>2, <4>1, HeadAndTail
    <3> QED BY <1>6, <2>2, <2>4, <3>4, <3>5, <3>6 DEF FirstOf, Looking
  <2> QED BY <2>3, <2>4
<1> QED BY <1>8, <1>9, <1>10, <1>11, <1>12, <1>13 DEF Visit

LEMMA AskKeepsFirst ==
    ASSUME AskInv, NEW x \in Question, Ask(x)
    PROVE  FirstInv'
<1>1. /\ pc = "idle" /\ q' = x /\ UNCHANGED <<classIdx, hits>>
      /\ \/ pc' = "visit" /\ todo' = GetPriority(x) /\ (x.kind = "string" => ShapeNamed(x))
         \/ pc' = "reply" /\ todo' = <<>>
  BY AskBegins DEF tables
<1>2. hits = <<>>
  BY <1>1 DEF AskInv, Shaped, Asked
<1>3. SUFFICES ASSUME x.kind = "string" PROVE FirstOf(x)'
  BY <1>1 DEF FirstInv
<1>4. CASE pc' = "reply"
  BY <1>1, <1>2, <1>4 DEF FirstOf, Looking
<1>5. CASE pc' = "visit"
  <2>1. ShapeNamed(x)'
    BY <1>1, <1>3, <1>5, SameShape
  <2>2. Len(GetPriority(x)) \in Nat
    BY PriorityIs
  <2>3. Before(x, 0)' /\ 0 \in 0..Len(GetPriority(x))
    BY <1>1, <1>5, <2>2 DEF Before
  <2> QED BY <1>1, <1>2, <1>5, <2>1, <2>3 DEF FirstOf
<1> QED BY <1>1, <1>4, <1>5

LEMMA FinishKeepsFirst == ASSUME AskInv, FirstInv, Finish PROVE FirstInv'
<1>1. /\ pc = "visit" /\ pc' = "reply" /\ UNCHANGED <<q, hits>>
  BY DEF Finish
<1>2. SUFFICES ASSUME NEW x \in Question, q = x, x.kind = "string" PROVE FirstOf(x)'
  BY <1>1 DEF FirstInv
<1>3. x.first => hits = <<>>
  BY <1>1, <1>2 DEF FirstInv, FirstOf, Asked, Looking
<1> QED BY <1>1, <1>3 DEF FirstOf, Looking

LEMMA FirstRests == ASSUME FirstInv, UNCHANGED vars PROVE FirstInv'
<1>1. UNCHANGED <<scanned, cache, methodIdx, classIdx, fieldIdx, pc, q, todo, pending, hits>>
  BY DEF vars, caches, tables, asking
<1>2. SUFFICES ASSUME NEW x \in Question, Asked, q = x, x.kind = "string" PROVE FirstOf(x)'
  BY <1>1 DEF FirstInv, Asked
<1>3. FirstOf(x)
  BY <1>2 DEF FirstInv
<1>4. /\ \A d : Reached(d, x)' = Reached(d, x) /\ PassedBy(d, x)' = PassedBy(d, x)
                /\ Sought(d, x)' = Sought(d, x)
      /\ \A d, m : IsMethodMatch(d, m, x)' = IsMethodMatch(d, m, x)
      /\ ShapeNamed(x)' = ShapeNamed(x)
    BY <1>1 DEF Reached, Named, PassedBy, StringSearchable, StringsFound, Target,
       Sought, IsMethodMatch, ParamIds, ContainedIds, Leading, IsClassIndex, Fits, ShapeNamed
<1>5. \A d : Cached(d, x)' = Cached(d, x)
  BY <1>1, <1>4 DEF Cached
<1>6. ASSUME NEW d, NEW m PROVE IsFirst(x, d, m)' <=> IsFirst(x, d, m)
  BY <1>4, <1>5 DEF IsFirst
<1>7. \A p : Before(x, p)' <=> Before(x, p)
  BY <1>1, <1>4 DEF Before
<1> QED BY <1>1, <1>3, <1>4, <1>5, <1>6, <1>7 DEF FirstOf, Looking

LEMMA FirstStep ==
    ASSUME AskInv, AskInv', CacheInv, IndexInv, NamesInv, FirstInv, [Next]_vars
    PROVE  FirstInv'
<1>1. ASSUME NEW x \in Question, Ask(x) PROVE FirstInv'
  BY <1>1, AskKeepsFirst
<1>2. ASSUME NEW d \in Dex, Visit(d) PROVE FirstInv'
  BY <1>2, VisitKeepsFirst
<1>3. CASE Finish
  BY <1>3, FinishKeepsFirst
<1>4. CASE UNCHANGED vars
  BY <1>4, FirstRests
<1>5. ASSUME pc' \in {"idle", "full"} PROVE FirstInv'
  BY <1>5 DEF FirstInv, Asked
<1>6. CASE Reply
  BY <1>5, <1>6 DEF Reply
<1>7. ASSUME NEW c \in NamedClass, encodeClassIndex(c) PROVE FirstInv'
  BY <1>5, <1>7 DEF encodeClassIndex, asking
<1>8. ASSUME NEW n \in NamedField, encodeFieldIndex(n) PROVE FirstInv'
  BY <1>5, <1>8 DEF encodeFieldIndex, asking
<1>9. ASSUME NEW n \in NamedMethod, encodeMethodIndex(n) PROVE FirstInv'
  BY <1>5, <1>9 DEF encodeMethodIndex, asking
<1>10. CASE createFullCache
  BY <1>5, <1>10 DEF createFullCache
<1>11. CASE ScanAny
  BY <1>5, <1>11 DEF ScanAny
<1>12. CASE close
  BY <1>5, <1>12 DEF close, asking
<1> QED BY <1>1, <1>2, <1>3, <1>4, <1>6, <1>7, <1>8, <1>9, <1>10, <1>11, <1>12 DEF Next

-----------------------------------------------------------------------------
(* A shape all of whose types are named is the same whatever else is named. *)

LEMMA LeadingIs ==
    ASSUME NEW S, NEW s \in Seq(S)
    PROVE  /\ Leading(s) \in 0..Len(s)
           /\ \A i \in 1..Leading(s) : IsClassIndex(s[i])
<1> DEFINE T == {0} \cup {n \in 1..Len(s) : \A i \in 1..n : IsClassIndex(s[i])}
<1>1. Len(s) \in Nat
  OBVIOUS
<1>2. T \subseteq 0..Len(s) /\ T # {}
  BY <1>1
<1>3. Max(T) \in T
  BY <1>1, <1>2, GreatestOf
<1>4. Leading(s) = Max(T)
  BY DEF Leading
<1>5. \A n \in T : \A i \in 1..n : IsClassIndex(s[i])
  OBVIOUS
<1> HIDE DEF T
<1> QED BY <1>2, <1>3, <1>4, <1>5

Naming ==
    /\ Len(classIdx) \in Nat /\ Len(classIdx') \in Nat /\ Len(classIdx') >= Len(classIdx)
    /\ \A i \in 1..Len(classIdx) : classIdx'[i] = classIdx[i]

LEMMA LeadingStays ==
    ASSUME Naming, NEW S, NEW s \in Seq(S),
           \A i \in Range(s) : i \in Nat => IsClassIndex(i)
    PROVE  Leading(s)' = Leading(s)
<1>1. Len(s) \in Nat /\ DOMAIN s = 1..Len(s)
  OBVIOUS
<1>2. ASSUME NEW i \in 1..Len(s) PROVE IsClassIndex(s[i])' <=> IsClassIndex(s[i])
  <2>1. s[i] \in Range(s)
    BY <1>1 DEF Range
  <2>2. \A j : IsClassIndex(j) => j \in Nat /\ IsClassIndex(j)'
    BY DEF IsClassIndex, Naming
  <2>3. \A j : IsClassIndex(j)' => j \in Nat
    BY DEF IsClassIndex, Naming
  <2> QED BY <2>1, <2>2, <2>3
<1>3. ASSUME NEW n \in 1..Len(s)
      PROVE  (\A i \in 1..n : IsClassIndex(s[i])') <=> (\A i \in 1..n : IsClassIndex(s[i]))
  <2>1. \A i \in 1..n : i \in 1..Len(s)
    BY <1>1
  <2> QED BY <1>2, <2>1
<1>4. {n \in 1..Len(s) : \A i \in 1..n : IsClassIndex(s[i])'}
        = {n \in 1..Len(s) : \A i \in 1..n : IsClassIndex(s[i])}
  BY <1>3
<1> QED BY <1>4 DEF Leading

LEMMA ShapeStays ==
    ASSUME Naming, NEW x \in Question, Definite(x), ShapeNamed(x)
    PROVE  /\ Definite(x)' /\ ShapeNamed(x)'
           /\ \A d, m : IsMethodMatch(d, m, x)' = IsMethodMatch(d, m, x)
<1>1. \A i : IsClassIndex(i) => IsClassIndex(i)' /\ classIdx'[i] = classIdx[i]
  BY DEF IsClassIndex, Naming
<1>2. x.params \in Seq(Nat \cup {None}) /\ x.contains \in Seq(Nat)
  BY QuestionsAreTyped
<1>3. \A i \in Range(x.params) \cup Range(x.contains) : i = None \/ IsClassIndex(i)
  BY DEF Definite
<1>4. Definite(x)' /\ ShapeNamed(x)'
  BY <1>1, <1>3 DEF Definite, ShapeNamed
<1> DEFINE p == Leading(x.params)
           c == Leading(x.contains)
<1>5. Leading(x.params)' = p /\ Leading(x.contains)' = c
  <2>1. \A i \in Range(x.params) \cup Range(x.contains) : i \in Nat => IsClassIndex(i)
    BY <1>3, MarksAreNoIds
  <2> QED BY <1>2, <2>1, LeadingStays
<1>6. /\ \A i \in 1..p : classIdx'[x.params[i]] = classIdx[x.params[i]]
      /\ \A i \in 1..c : classIdx'[x.contains[i]] = classIdx[x.contains[i]]
  BY <1>1, <1>2, LeadingIs
<1> HIDE DEF p, c
<1>7. ASSUME NEW d PROVE ParamIds(d, x)' = ParamIds(d, x)
  <2>1. [i \in 1..p |-> classIdx'[x.params[i]][d]] = [i \in 1..p |-> classIdx[x.params[i]][d]]
    BY <1>6
  <2>2. ParamIds(d, x)' = [i \in 1..p |-> classIdx'[x.params[i]][d]]
         \o (IF p < Len(x.params) /\ x.params[p + 1] = None THEN <<Wild>> ELSE <<>>)
    BY <1>5 DEF ParamIds
  <2>3. ParamIds(d, x) = [i \in 1..p |-> classIdx[x.params[i]][d]]
         \o (IF p < Len(x.params) /\ x.params[p + 1] = None THEN <<Wild>> ELSE <<>>)
    BY DEF ParamIds, p
  <2> QED BY <2>1, <2>2, <2>3, Zenon
<1>8. ASSUME NEW d PROVE ContainedIds(d, x)' = ContainedIds(d, x)
  <2>1. {classIdx'[x.contains[i]][d] : i \in 1..c} = {classIdx[x.contains[i]][d] : i \in 1..c}
    BY <1>6
  <2>2. ContainedIds(d, x)' = IF p < Len(x.params) /\ x.params[p + 1] # None THEN {}
                              ELSE {classIdx'[x.contains[i]][d] : i \in 1..c}
    BY <1>5 DEF ContainedIds
  <2>3. ContainedIds(d, x) = IF p < Len(x.params) /\ x.params[p + 1] # None THEN {}
                              ELSE {classIdx[x.contains[i]][d] : i \in 1..c}
    BY DEF ContainedIds, p, c
  <2> QED BY <2>1, <2>2, <2>3, Zenon
<1>9. \A d, t : /\ Fits(x.class, d, t)' = Fits(x.class, d, t)
                /\ Fits(x.ret, d, t)' = Fits(x.ret, d, t)
  BY <1>1 DEF Fits, ShapeNamed
<1>10. ASSUME NEW d, NEW m PROVE IsMethodMatch(d, m, x)' = IsMethodMatch(d, m, x)
  BY <1>7, <1>8, <1>9, ZenonT(40) DEF IsMethodMatch
<1> QED BY <1>4, <1>10

-----------------------------------------------------------------------------
(* What was told is still the first answer.                                *)

LEMMA ToldStays ==
    ASSUME CacheInv, CacheInv', CachesGrow, Naming, ToldInv, UNCHANGED told
    PROVE  ToldInv'
<1> SUFFICES ASSUME NEW x \in Question, told[x] # None PROVE IsTold(x)'
  BY DEF ToldInv
<1>1. /\ x.kind = "string" /\ x.first /\ ~x.prefix /\ Definite(x) /\ ShapeNamed(x)
      /\ \E d \in Dex, m \in Nat : told[x] = <<d, m>> /\ IsFirst(x, d, m)
  BY DEF ToldInv, IsTold
<1>2. PICK d \in Dex, m \in Nat : told[x] = <<d, m>> /\ IsFirst(x, d, m)
  BY <1>1
<1>3. /\ Definite(x)' /\ ShapeNamed(x)'
      /\ \A e, l : IsMethodMatch(e, l, x)' = IsMethodMatch(e, l, x)
  BY <1>1, ShapeStays
<1>4. IsFirst(x, d, m)'
  BY <1>1, <1>2, <1>3, FirstOneStays
<1> QED BY <1>1, <1>2, <1>3, <1>4 DEF IsTold

LEMMA ReplyKeepsTold ==
    ASSUME AskInv, CacheInv, CacheInv', NamesInv, FirstInv, ToldInv, Reply
    PROVE  ToldInv'
<1>1. /\ pc = "reply" /\ UNCHANGED <<caches, classIdx>>
      /\ told' = IF /\ out # <<>> /\ q.kind = "string" /\ q.first /\ ~q.prefix
                    /\ Definite(q) /\ told[q] = None
                 THEN [told EXCEPT ![q] = hits[1]] ELSE told
  BY DEF Reply, tables
<1>2. CachesGrow /\ Naming
  BY <1>1, CachesStay DEF Naming, NamesInv, TableInv
<1>3. CASE told' = told
  BY <1>2, <1>3, ToldStays
<1>4. CASE told' # told
  <2>1. PICK x \in Question : x = q
    BY <1>1 DEF AskInv, Shaped, Asked
  <2>2. /\ out # <<>> /\ x.kind = "string" /\ x.first /\ ~x.prefix /\ Definite(x)
        /\ told' = [told EXCEPT ![x] = hits[1]]
    BY <1>1, <1>4, <2>1
  <2>3. hits # <<>>
    BY <2>2, SeqOfNone DEF AskInv, Shaped
  <2>4. FirstOf(x)
    BY <1>1, <2>1, <2>2 DEF FirstInv, Asked
  <2>5. PICK d \in Dex, m \in Nat : hits[1] = <<d, m>> /\ IsFirst(x, d, m)
    BY <1>1, <2>2, <2>3, <2>4 DEF FirstOf
  <2>6. /\ DOMAIN told' = Question /\ told'[x] = <<d, m>>
        /\ \A y \in Question : y # x => told'[y] = told[y]
    BY <2>2, <2>5 DEF ToldInv
  <2>7. ASSUME NEW y \in Question, told'[y] # None
        PROVE  \E e \in Dex, l \in Nat :
                 /\ y.kind = "string" /\ y.first /\ ~y.prefix /\ Definite(y) /\ ShapeNamed(y)
                 /\ told'[y] = <<e, l>> /\ IsFirst(y, e, l)
    <3>1. CASE y = x
      BY <1>1, <2>2, <2>3, <2>4, <2>5, <2>6, <3>1 DEF FirstOf
    <3>2. CASE y # x
      <4>1. told'[y] = told[y]
        BY <2>6, <3>2
      <4>2. IsTold(y)
        BY <2>7, <4>1 DEF ToldInv
      <4> QED BY <4>1, <4>2 DEF IsTold
    <3> QED BY <3>1, <3>2
  <2>8. ASSUME NEW y \in Question, told'[y] # None PROVE IsTold(y)'
    <3>1. PICK e \in Dex, l \in Nat :
                 /\ y.kind = "string" /\ y.first /\ ~y.prefix /\ Definite(y) /\ ShapeNamed(y)
                 /\ told'[y] = <<e, l>> /\ IsFirst(y, e, l)
      BY <2>7, <2>8
    <3>2. /\ Definite(y)' /\ ShapeNamed(y)'
          /\ \A f, k : IsMethodMatch(f, k, y)' = IsMethodMatch(f, k, y)
      BY <1>2, <3>1, ShapeStays
    <3>3. IsFirst(y, e, l)'
      BY <1>2, <3>1, <3>2, FirstOneStays
    <3> QED BY <3>1, <3>2, <3>3 DEF IsTold
  <2> QED BY <2>6, <2>8 DEF ToldInv
<1> QED BY <1>3, <1>4

(* The caches grow at their ends, unless the helper is closed.             *)
LEMMA CachesStep ==
    ASSUME Inv, AskInv, NamesInv, [Next]_vars, ~close
    PROVE  CachesGrow
<1>1. CacheInv
  BY DEF Inv
<1>2. CASE UNCHANGED caches
  BY <1>1, <1>2, CachesStay
<1>3. ASSUME NEW d \in Dex, ScanNext(d) PROVE CachesGrow
  <2> DEFINE m == Min(Unscanned(d))
  <2>1. ScanMethod(d, m) /\ Unscanned(d) # {}
    BY <1>3 DEF ScanNext
  <2>2. Unscanned(d) \subseteq Methods(d)
    BY DEF Unscanned
  <2>3. m \in Methods(d)
    BY <2>1, <2>2, MethodsAreNumbers, LeastOf
  <2> QED BY <1>1, <2>1, <2>3, ScanGrows
<1>4. ASSUME NEW d \in Dex, CollectCallees(d) PROVE CachesGrow
  <2>1. Visit(d)
    BY <1>4 DEF Visit
  <2>2. PICK x \in Question : x = q
    BY <2>1, VisitingIs
  <2>3. Named(x) /\ RowsTyped
    BY <2>1, <2>2, VisitingIs, RowsAreTyped DEF Inv
  <2>4. ~PassedBy(d, x) /\ x.kind = "invoking"
    BY <1>4, <2>2 DEF CollectCallees
  <2>5. Target(d, x) \in Methods(d)
    BY <2>3, <2>4, TargetIs
  <2>6. UNCHANGED caches \/ ScanMethod(d, Target(d, x))
    BY <1>4, <2>2 DEF CollectCallees
  <2> QED BY <1>1, <1>2, <2>5, <2>6, ScanGrows
<1>5. ASSUME ScanAny, ~ (\A d \in Dex : scanned[d] = Methods(d)) PROVE CachesGrow
  <2> DEFINE left == {e \in Dex : scanned[e] # Methods(e)}
             d == Min(left)
             m == Min(Methods(d) \ scanned[d])
  <2>1. ScanMethod(d, m)
    BY <1>5 DEF ScanAny
  <2>2. left \subseteq Nat /\ left # {}
    BY <1>5 DEF Dex
  <2>3. d \in left
    BY <2>2, LeastOf
  <2>4. Methods(d) \ scanned[d] # {} /\ Methods(d) \ scanned[d] \subseteq Nat
    BY <1>1, <2>3, MethodsAreNumbers DEF CacheInv, CachesTyped
  <2>5. d \in Dex /\ m \in Methods(d)
    BY <2>3, <2>4, LeastOf
  <2> QED BY <1>1, <2>1, <2>5, ScanGrows
<1>6. ASSUME ~UNCHANGED caches
      PROVE  \/ \E d \in Dex : ScanNext(d) \/ CollectCallees(d)
             \/ ScanAny /\ ~ (\A d \in Dex : scanned[d] = Methods(d))
  <2>1. ASSUME NEW x \in Question, Ask(x) PROVE FALSE
    BY <1>6, <2>1, AskBegins
  <2>2. ASSUME NEW d \in Dex, Visit(d) PROVE ScanNext(d) \/ CollectCallees(d)
    BY <1>6, <2>2 DEF Visit, PassBy, AnswerFromCache, StartScan, Collect, CollectFields,
       Emit, NextDex
  <2>3. CASE Finish \/ Reply \/ createFullCache
    BY <1>6, <2>3 DEF Finish, Reply, createFullCache
  <2>4. ASSUME NEW c, encodeClassIndex(c) \/ encodeFieldIndex(c) \/ encodeMethodIndex(c)
        PROVE  FALSE
    BY <1>6, <2>4 DEF encodeClassIndex, encodeFieldIndex, encodeMethodIndex
  <2>5. CASE ScanAny
    BY <1>6, <2>5 DEF ScanAny
  <2>6. CASE UNCHANGED vars
    BY <1>6, <2>6 DEF vars
  <2> QED BY <2>1, <2>2, <2>3, <2>4, <2>5, <2>6 DEF Next
<1> QED BY <1>2, <1>3, <1>4, <1>5, <1>6

LEMMA ToldStep ==
    ASSUME Inv, Inv', AskInv, NamesInv, FirstInv, ToldInv, [Next]_vars
    PROVE  ToldInv'
<1>1. CacheInv /\ CacheInv'
  BY DEF Inv
<1>2. CASE Reply
  BY <1>1, <1>2, ReplyKeepsTold
<1>3. CASE close
  BY <1>3 DEF close, ToldInv
<1>4. CASE ~Reply /\ ~close
  <2>1. CachesGrow
    BY <1>4, CachesStep
  <2>2. Naming
    <3>1. TableInv(classIdx, ClassFamily) /\ Len(classIdx) \in Nat
      BY DEF NamesInv, TableInv
    <3>2. UNCHANGED classIdx \/ \E n : classIdx' = Grown(classIdx, ClassNamed(n), 1)
      BY <1>4, TablesStep
    <3> QED BY <3>1, <3>2, ClassTableGrows DEF Naming
  <2>3. UNCHANGED told
    <3>1. ASSUME NEW x \in Question, Ask(x) PROVE UNCHANGED told
      BY <3>1, AskBegins
    <3>2. ASSUME NEW d \in Dex, Visit(d) PROVE UNCHANGED told
      BY <3>2 DEF Visit, PassBy, AnswerFromCache, StartScan, ScanNext, Collect,
         CollectCallees, CollectFields, Emit, NextDex
    <3>3. CASE Finish \/ createFullCache \/ ScanAny \/ UNCHANGED vars
      BY <3>3 DEF Finish, createFullCache, ScanAny, vars
    <3>4. ASSUME NEW c, encodeClassIndex(c) \/ encodeFieldIndex(c) \/ encodeMethodIndex(c)
          PROVE  UNCHANGED told
      BY <3>4 DEF encodeClassIndex, encodeFieldIndex, encodeMethodIndex
    <3> QED BY <1>4, <3>1, <3>2, <3>3, <3>4 DEF Next
  <2> QED BY <1>1, <2>1, <2>2, <2>3, ToldStays
<1> QED BY <1>2, <1>3, <1>4

-----------------------------------------------------------------------------
AllInv == Inv /\ NamesInv /\ WholeRows /\ AskInv /\ FirstInv /\ ToldInv

LEMMA AllBegun == Init => AllInv
<1> SUFFICES ASSUME Init PROVE AllInv
  OBVIOUS
<1>1. Inv /\ NamesInv /\ AskInv
  BY Initially, AskBegun
<1>2. FirstInv
  BY DEF Init, FirstInv, Asked
<1>3. ToldInv /\ WholeRows
  BY DEF Init, Blank, ToldInv, WholeRows
<1> QED BY <1>1, <1>2, <1>3 DEF AllInv

LEMMA AllStep == AllInv /\ [Next]_vars => AllInv'
<1> SUFFICES ASSUME AllInv, [Next]_vars PROVE AllInv'
  OBVIOUS
<1>1. Inv' /\ NamesInv' /\ WholeRows'
  BY Step, NamesKept, RowsStayWhole DEF AllInv
<1>2. AskInv'
  BY AskStep DEF AllInv, Inv
<1>3. FirstInv'
  BY <1>2, FirstStep DEF AllInv, Inv
<1>4. ToldInv'
  BY <1>1, ToldStep DEF AllInv
<1> QED BY <1>1, <1>2, <1>3, <1>4 DEF AllInv

LEMMA AlwaysAll == Spec => []AllInv
BY AllBegun, AllStep, PTL DEF Spec

LEMMA Again == ASSUME AllInv PROVE SameAnswerAgain
<1> SUFFICES ASSUME Answered, told[q] # None PROVE hits[1] = told[q]
  BY DEF SameAnswerAgain
<1>1. PICK x \in Question : x = q
  BY DEF Answered, AllInv, AskInv, Shaped, Asked
<1>2. IsTold(x)
  BY <1>1 DEF AllInv, ToldInv
<1>3. PICK d \in Dex, m \in Nat : told[x] = <<d, m>> /\ IsFirst(x, d, m)
  BY <1>2 DEF IsTold
<1>4. FirstOf(x) /\ pc = "reply"
  BY <1>1, <1>2 DEF AllInv, FirstInv, IsTold, Answered, Asked
<1>5. hits # <<>>
  <2>1. out # <<>> /\ IsSeq(out) /\ Len(out) = Len(hits)
    BY DEF Answered, AllInv, AskInv, Shaped
  <2>2. Len(out) # 0
    BY <2>1, SeqOfNone
  <2> QED BY <2>1, <2>2
<1>6. PICK e \in Dex, n \in Nat : hits[1] = <<e, n>> /\ IsFirst(x, e, n)
  BY <1>2, <1>4, <1>5 DEF FirstOf, IsTold
<1>7. CacheInv /\ RowsTyped /\ x.kind = "string"
  BY <1>2, RowsAreTyped DEF AllInv, Inv, IsTold
<1>8. d = e /\ m = n
  BY <1>3, <1>6, <1>7, OneFirst
<1> QED BY <1>1, <1>3, <1>6, <1>8

(* For every image, every set of questions and every order of them: the    *)
(* caches hold methods of their dex file, the tables ids of theirs, and    *)
(* every index answered has an id found.                                   *)
THEOREM HelperIsTyped == Spec => []TypeOK
<1>1. AllInv => TypeOK
  BY HelperStaysTyped DEF AllInv, Inv
<1> QED BY <1>1, AlwaysAll, PTL

(* An index of a class or a field decodes to a name whose encoding is the  *)
(* same index, whichever questions made the index.                         *)
THEOREM IndicesStandForNames == Spec => []IndicesDecodeBack
<1>1. AllInv => IndicesDecodeBack
  BY DecodesBack DEF AllInv
<1> QED BY <1>1, AlwaysAll, PTL

(* Whatever was asked and cached before, each answer is a method that uses *)
(* what the index or the string of the question stands for, and a search   *)
(* for all finds each of them, save those that a prefix which sorts last   *)
(* or an index made from a later dex file or of another overload loses     *)
(* (dex_helper.cc:147-158, 512, 573, 706-720, 824).                        *)
THEOREM AnswersTellTheCode == Spec => []AnswersAreRight
<1>1. AllInv => AnswersAreRight
  BY AskedIsRight DEF AllInv, Inv
<1> QED BY <1>1, AlwaysAll, PTL

(* A search for the first one leaves a dex file that has one only for one  *)
(* of those losses, or, for a caller, getter or setter, where the cache    *)
(* held a method of another shape (477, 539, 601).                         *)
THEOREM MissesAreExplained == Spec => []MissHasACause
<1>1. AllInv => MissHasACause
  BY AskedIsRight DEF AllInv, Inv
<1> QED BY <1>1, AlwaysAll, PTL

(* The same question about a whole string, all of whose types are named,   *)
(* has the same first answer for as long as the helper is open.            *)
THEOREM AnswersAreStable == Spec => []SameAnswerAgain
<1>1. AllInv => SameAnswerAgain
  BY Again
<1> QED BY <1>1, AlwaysAll, PTL
=============================================================================
