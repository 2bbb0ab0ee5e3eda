---------------------------- MODULE SettingsCodec ----------------------------
(***************************************************************************)
(* The dialer's settings file as SettingsProtoCodec.kt reads and writes    *)
(* it: a sequence of fields, each a tag (number and wire type) with a      *)
(* varint or with a length and that many bytes.  Bytes are 0..255; varints *)
(* are numbers of any size: Kotlin's Long is the same below 2^63, and its  *)
(* Int, for a length or the number of a field, below 2^31.                 *)
(***************************************************************************)
EXTENDS Integers, SequencesExt, FiniteSetsExt

CONSTANTS
    Garbled,   \* parse throws
    SetOnce    \* the preference set_once_field, or a number no field has

NonContact == 1
Numbers    == 6
Byte       == 0..255
Field      == [num : Nat, wire : {0, 2}, varint : Nat, bytes : Seq(Byte)]

ASSUME GarbledIsNothingRead ==
    Garbled \notin Field \cup [field : Field, next : Nat] \cup Seq(Field)

(* readVarint of a stretch that ends with its first byte without the high  *)
(* bit; past the last byte the array access throws.                        *)
VarintEnd(d, i) == SelectInSubSeq(d, i, Len(d), LAMBDA b : b < 128)
ReadVarint(d, i, end) ==
    LET value[j \in 1..end] ==
            (d[j] % 128) + (IF j = end THEN 0 ELSE 128 * value[j + 1])
    IN value[i]

WriteVarint(v) ==
    LET write[u \in 0..v] ==
            IF u < 128 THEN <<u>> ELSE <<128 + (u % 128)>> \o write[u \div 128]
    IN write[v]

Varint(num, v) == [num |-> num, wire |-> 0, varint |-> v, bytes |-> <<>>]
Bytes(num, b)  == [num |-> num, wire |-> 2, varint |-> 0, bytes |-> b]

(* The field that starts at i and where the next one does.  parse throws  *)
(* at a varint that does not end, a wire type that is not 0 or 2, and at   *)
(* missing bytes.                                                          *)
FieldAt(d, i) ==
    LET t    == VarintEnd(d, i)
        v    == VarintEnd(d, t + 1)
        num  == ReadVarint(d, i, t) \div 8
        wire == ReadVarint(d, i, t) % 8
        val  == ReadVarint(d, t + 1, v)
    IN IF t = 0 \/ wire \notin {0, 2} \/ v = 0 THEN Garbled
       ELSE IF wire = 0 THEN [field |-> Varint(num, val), next |-> v + 1]
       ELSE IF v + val > Len(d) THEN Garbled
       ELSE [field |-> Bytes(num, SubSeq(d, v + 1, v + val)), next |-> v + val + 1]

parse(d) ==
    LET from[i \in 1..(Len(d) + 1)] ==
            IF i > Len(d) THEN <<>>
            ELSE LET f == FieldAt(d, i)
                 IN IF f = Garbled THEN <<Garbled>> ELSE <<f.field>> \o from[f.next]
        fields == from[1]
    IN IF fields # <<>> /\ Last(fields) = Garbled THEN Garbled ELSE fields

Written(f) ==
    WriteVarint(f.num * 8 + f.wire)
    \o (IF f.wire = 0 THEN WriteVarint(f.varint) ELSE WriteVarint(Len(f.bytes)) \o f.bytes)
build(fields) == FlattenSeq([i \in DOMAIN fields |-> Written(fields[i])])

filter(fields, Test(_)) ==
    FlattenSeq([i \in DOMAIN fields |->
                   IF Test(fields[i]) THEN <<fields[i]>> ELSE <<>>])

selectedNumbers(fields) ==
    LET chosen == filter(fields, LAMBDA f : f.num = Numbers /\ f.wire = 2)
    IN [i \in DOMAIN chosen |-> chosen[i].bytes]

withClearedNumbers(fields) == filter(fields, LAMBDA f : f.num # Numbers)

(* Mutant: the numbers go where the first one was in the old list.         *)
withSelectedNumbersAtOldPlace(fields, numbers) ==
    LET kept  == withClearedNumbers(fields)
        olds  == {i \in DOMAIN fields : fields[i].num = Numbers}
        place == IF olds # {} THEN Min({Max(olds) - 1, Len(kept)})
                 ELSE Cardinality({i \in DOMAIN fields : fields[i].num < Numbers})
    IN SubSeq(kept, 1, place)
       \o [i \in DOMAIN numbers |-> Bytes(Numbers, numbers[i])]
       \o SubSeq(kept, place + 1, Len(kept))

(* The new numbers go where the first old one was, else after the fields   *)
(* with smaller numbers.                                                   *)
withSelectedNumbers(fields, numbers) ==
    LET kept  == withClearedNumbers(fields)
        olds  == {i \in DOMAIN fields : fields[i].num = Numbers}
        place == IF olds # {} THEN Min(olds) - 1
                 ELSE Cardinality({i \in DOMAIN fields : fields[i].num <= Numbers})
    IN SubSeq(kept, 1, place)
       \o [i \in DOMAIN numbers |-> Bytes(Numbers, numbers[i])]
       \o SubSeq(kept, place + 1, Len(kept))

(* Toggles that are in the file are set; one that is not is not added.     *)
withTogglesOn(fields) ==
    [i \in DOMAIN fields |->
        IF fields[i].num \in {NonContact, SetOnce}
        THEN [fields[i] EXCEPT !.varint = 1] ELSE fields[i]]

(* SyncEngine.computeTarget and the target of a clear.                     *)
computeTarget(current, numbers) ==
    build(withTogglesOn(withSelectedNumbers(parse(current), numbers)))
(* Mutant: a clear empties the file.                                       *)
clearedTargetEmpty(current) == build(<<>>)
clearedTarget(current) == build(withClearedNumbers(parse(current)))
=============================================================================
