------------------------------- MODULE CodeWalk -------------------------------
(***************************************************************************)
(* The two walks over a method's code units: DexHelper::ScanMethod, which  *)
(* carries a table of instruction lengths of its own, and the slicer's     *)
(* ParseInstructions, which derives widths from instruction formats.       *)
(* Code is a sequence of units 0..65535, positions count from 1.  A 32-bit *)
(* operand is written as the signed number of the same bits.  The product  *)
(* of an array payload wraps at 2^32 in both walks, which is left out.     *)
(***************************************************************************)
EXTENDS Integers, Sequences

Unit == 0..65535

Opcode(u) == u % 256

PackedSwitchSignature == 256
SparseSwitchSignature == 512
ArrayDataSignature    == 768

(* Code units in which the header of a payload does not stick out.         *)
Payloads == {PackedSwitchSignature, SparseSwitchSignature, ArrayDataSignature}
IsCode(code) ==
    /\ code \in Seq(Unit)
    /\ \A i \in 1..Len(code) : code[i] \in Payloads => i + 3 <= Len(code)

Signed(x, bits) == IF x < 2^(bits - 1) THEN x ELSE x - 2^bits
FetchU4(code, i) == code[i] + Signed(code[i + 1], 16) * 65536
(* An array's length is not negative.                                      *)
Length(code, i) == code[i] + code[i + 1] * 65536

-----------------------------------------------------------------------------
(* DexHelper::ScanMethod.                                                  *)

(* Mutant: the calls of polymorphic methods taken for plain ones.          *)
opcode_len_of_old(op) ==
    IF op = 24 THEN 5
    ELSE IF op \in {3, 6, 9, 20, 23, 27} \cup 36..38 \cup 42..44 \cup 110..114
                   \cup 116..120 \cup 233..234 \cup 250..253
         THEN 3
    ELSE IF op \in {2, 5, 8, 19, 28, 41} \cup 21..22 \cup 25..26 \cup 31..32
                   \cup 34..35 \cup 45..61 \cup 68..109 \cup 144..175
                   \cup 208..232 \cup 235..242 \cup 254..255
         THEN 2
    ELSE 1
opcode_len(op) ==
    IF op = 24 THEN 5
    ELSE IF op \in 250..251 THEN 4
    ELSE IF op \in {3, 6, 9, 20, 23, 27} \cup 36..38 \cup 42..44 \cup 110..114
                   \cup 116..120 \cup 233..234 \cup 252..253
         THEN 3
    ELSE IF op \in {2, 5, 8, 19, 28, 41} \cup 21..22 \cup 25..26 \cup 31..32
                   \cup 34..35 \cup 45..61 \cup 68..109 \cup 144..175
                   \cup 208..232 \cup 235..242 \cup 254..255
         THEN 2
    ELSE 1

(* Mutant: the lengths before payloads were skipped.                       *)
ScanNextPlain(code, i) == i + opcode_len(Opcode(code[i]))
ScanNext(code, i) ==
    LET payload ==
            CASE code[i] = PackedSwitchSignature -> code[i + 1] * 2 + 3
              [] code[i] = SparseSwitchSignature -> code[i + 1] * 4 + 1
              [] code[i] = ArrayDataSignature ->
                     (Length(code, i + 2) * code[i + 1] + 1) \div 2 + 3
              [] OTHER -> 0
    IN i + payload + opcode_len(Opcode(code[i]))

(* What the instruction at i adds to the caches.                           *)
ScanRefs(code, i) ==
    LET op == Opcode(code[i])
    IN CASE op = 26 -> {<<"string", code[i + 1]>>}
         [] op = 27 -> {<<"string", FetchU4(code, i + 1)>>}
         [] op \in 82..88 \cup 96..102  -> {<<"get", code[i + 1]>>}
         [] op \in 89..95 \cup 103..109 -> {<<"set", code[i + 1]>>}
         [] op \in 110..114 \cup 116..120 -> {<<"invoke", code[i + 1]>>}
         [] OTHER -> {}

-----------------------------------------------------------------------------
(* The slicer's dex_bytecode.cc.                                           *)

(* The instruction list, up to invoke-interface and from there on.         *)
FormatOfLow(op) ==
    CASE op \in {0, 14} \cup 62..67 -> "k10x"
      [] op \in {1, 4, 7, 33} -> "k12x"
      [] op \in {2, 5, 8} -> "k22x"
      [] op \in {3, 6, 9} -> "k32x"
      [] op \in 10..13 \cup 15..17 \cup 29..30 \cup {39} -> "k11x"
      [] op = 18 -> "k11n"
      [] op \in {19, 22} -> "k21s"
      [] op \in {20, 23} -> "k31i"
      [] op \in {21, 25} -> "k21h"
      [] op = 24 -> "k51l"
      [] op \in {26, 28, 31, 34} \cup 96..109 -> "k21c"
      [] op = 27 -> "k31c"
      [] op \in {32, 35} \cup 82..95 -> "k22c"
      [] op \in {36} \cup 110..114 -> "k35c"
      [] op = 37 -> "k3rc"
      [] op \in {38} \cup 43..44 -> "k31t"
      [] op = 40 -> "k10t"
      [] op = 41 -> "k20t"
      [] op = 42 -> "k30t"
      [] op \in 45..49 \cup 68..81 -> "k23x"
      [] op \in 50..55 -> "k22t"
      [] op \in 56..61 -> "k21t"
FormatOfHigh(op) ==
    CASE op = 115 \/ op \in 121..122 \cup 243..249 -> "k10x"
      [] op \in 116..120 \cup {234, 253} -> "k3rc"
      [] op \in 123..143 \cup 176..207 -> "k12x"
      [] op \in 144..175 -> "k23x"
      [] op \in 208..215 -> "k22s"
      [] op \in 216..226 -> "k22b"
      [] op \in 227..232 \cup 235..242 -> "k22c"
      [] op \in {233, 252} -> "k35c"
      [] op = 250 -> "k45cc"
      [] op = 251 -> "k4rcc"
      [] op \in 254..255 -> "k21c"
GetFormatFromOpcode(op) == IF op < 115 THEN FormatOfLow(op) ELSE FormatOfHigh(op)

GetIndexTypeFromOpcode(op) ==
    CASE op \in 26..27 -> "StringRef"
      [] op = 28 \/ op \in 31..32 \cup 34..37 -> "TypeRef"
      [] op \in 82..109 -> "FieldRef"
      [] op \in 110..114 \cup 116..120 -> "MethodRef"
      [] op \in 250..251 -> "MethodAndProtoRef"
      [] OTHER -> "None"   \* also the kinds that ParseInstructions passes by

GetWidthFromFormat(format) ==
    CASE format \in {"k10x", "k12x", "k11n", "k11x", "k10t"} -> 1
      [] format \in {"k20t", "k21c", "k22x", "k21s", "k21t", "k21h", "k23x",
                     "k22b", "k22s", "k22t", "k22c"} -> 2
      [] format \in {"k30t", "k31t", "k31c", "k32x", "k31i", "k35c", "k3rc"} -> 3
      [] format \in {"k45cc", "k4rcc"} -> 4
      [] format = "k51l" -> 5

GetWidthFromBytecode(code, i) ==
    CASE code[i] = PackedSwitchSignature -> 4 + code[i + 1] * 2
      [] code[i] = SparseSwitchSignature -> 2 + code[i + 1] * 4
      [] code[i] = ArrayDataSignature ->
             4 + (code[i + 1] * Length(code, i + 2) + 1) \div 2
      [] OTHER -> GetWidthFromFormat(GetFormatFromOpcode(Opcode(code[i])))

InstA(u)  == (u \div 256) % 16
InstB(u)  == u \div 4096
InstAA(u) == u \div 256

(* DecodeInstruction: the fields of each format; arg holds the registers   *)
(* of a call, and the prototype of a polymorphic one.  A call of more than *)
(* five registers fails a check.                                           *)
Dec(a, b, c, arg) == [vA |-> a, vB |-> b, vC |-> c, arg |-> arg]
Nibble(u, k) == (u \div 16^k) % 16
Registers(code, i) ==
    [k \in 1..InstB(code[i]) |->
        IF k = 5 THEN InstA(code[i]) ELSE Nibble(code[i + 2], k - 1)]

(* The formats with an index into a table of the dex file, and the others. *)
Indexed == {"k21c", "k22c", "k31c", "k35c", "k3rc", "k45cc", "k4rcc"}
DecodeIndexed(format, code, i) ==
    LET u == code[i]
    IN CASE format = "k21c" -> Dec(InstAA(u), code[i + 1], 0, <<>>)
         [] format = "k22c" -> Dec(InstA(u), InstB(u), code[i + 1], <<>>)
         [] format = "k31c" -> Dec(InstAA(u), FetchU4(code, i + 1), 0, <<>>)
         [] format = "k35c" ->
                Dec(InstB(u), code[i + 1],
                    IF InstB(u) = 0 THEN 0 ELSE Nibble(code[i + 2], 0),
                    Registers(code, i))
         [] format = "k3rc" -> Dec(InstAA(u), code[i + 1], code[i + 2], <<>>)
         [] format = "k45cc" ->
                Dec(InstB(u), code[i + 1], Nibble(code[i + 2], 0),
                    <<Nibble(code[i + 2], 1), Nibble(code[i + 2], 2),
                      Nibble(code[i + 2], 3), InstA(u), code[i + 3]>>)
         [] format = "k4rcc" ->
                Dec(InstAA(u), code[i + 1], code[i + 2], <<0, 0, 0, 0, code[i + 3]>>)
DecodePlain(format, code, i) ==
    LET u == code[i]
    IN CASE format = "k10x" -> Dec(0, 0, 0, <<>>)
         [] format = "k12x" -> Dec(InstA(u), InstB(u), 0, <<>>)
         [] format = "k11n" -> Dec(InstA(u), Signed(InstB(u), 4), 0, <<>>)
         [] format = "k11x" -> Dec(InstAA(u), 0, 0, <<>>)
         [] format = "k10t" -> Dec(Signed(InstAA(u), 8), 0, 0, <<>>)
         [] format = "k20t" -> Dec(Signed(code[i + 1], 16), 0, 0, <<>>)
         [] format \in {"k22x", "k21h"} -> Dec(InstAA(u), code[i + 1], 0, <<>>)
         [] format \in {"k21s", "k21t"} ->
                Dec(InstAA(u), Signed(code[i + 1], 16), 0, <<>>)
         [] format = "k23x" -> Dec(InstAA(u), code[i + 1] % 256, code[i + 1] \div 256, <<>>)
         [] format = "k22b" ->
                Dec(InstAA(u), code[i + 1] % 256, Signed(code[i + 1] \div 256, 8), <<>>)
         [] format \in {"k22s", "k22t"} ->
                Dec(InstA(u), InstB(u), Signed(code[i + 1], 16), <<>>)
         [] format = "k30t" -> Dec(FetchU4(code, i + 1), 0, 0, <<>>)
         [] format \in {"k31t", "k31i"} -> Dec(InstAA(u), FetchU4(code, i + 1), 0, <<>>)
         [] format = "k32x" -> Dec(code[i + 1], code[i + 2], 0, <<>>)
         [] format = "k51l" ->   \* vB_wide as its two halves
                Dec(InstAA(u), FetchU4(code, i + 1), FetchU4(code, i + 3), <<>>)
DecodeInstruction(code, i) ==
    LET format == GetFormatFromOpcode(Opcode(code[i]))
    IN IF format \in Indexed THEN DecodeIndexed(format, code, i)
       ELSE DecodePlain(format, code, i)

(* Reader::ParseInstructions: what the instruction at i makes an IR node   *)
(* of.                                                                     *)
ParseRefs(code, i) ==
    LET op  == Opcode(code[i])
        dec == DecodeInstruction(code, i)
        index == IF GetFormatFromOpcode(op) = "k22c" THEN dec.vC ELSE dec.vB
        type  == GetIndexTypeFromOpcode(op)
    IN IF type = "None" THEN {}
       ELSE IF type = "MethodAndProtoRef"
            THEN {<<"MethodRef", index>>, <<"ProtoRef", dec.arg[5]>>}
       ELSE {<<type, index>>}
ParseNext(code, i) == i + GetWidthFromBytecode(code, i)

-----------------------------------------------------------------------------
(* The positions a walk visits that goes from i to step[i].                *)
Visits(code, step) ==
    LET from[i \in 1..Len(code)] ==
            {i} \cup (IF step[i] > Len(code) THEN {} ELSE from[step[i]])
    IN IF code = <<>> THEN {} ELSE from[1]
ScanVisits(code)  == Visits(code, [i \in 1..Len(code) |-> ScanNext(code, i)])
ParseVisits(code) == Visits(code, [i \in 1..Len(code) |-> ParseNext(code, i)])

ScanMethodRefs(code) == UNION {ScanRefs(code, i) : i \in ScanVisits(code)}
=============================================================================
