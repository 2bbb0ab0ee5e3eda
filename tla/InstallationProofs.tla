-------------------------- MODULE InstallationProofs --------------------------
(* What holds of the hooks whatever the searches answer; what the searches *)
(* answer for every device and every dex file; and so what holds of the    *)
(* whole process.                                                          *)
EXTENDS Installation, CodeWalk, Lemmas, FiniteSetTheorems

-----------------------------------------------------------------------------
(* The two walks over code agree for every code: on where instructions     *)
(* begin, and on the strings, fields and methods they name.                *)

(* The formats of one, two, three and four units.                          *)
One   == {"k10x", "k12x", "k11n", "k11x", "k10t"}
Two   == {"k20t", "k21c", "k22x", "k21s", "k21t", "k21h", "k23x", "k22b", "k22s",
          "k22t", "k22c"}
Three == {"k30t", "k31t", "k31c", "k32x", "k31i", "k35c", "k3rc"}
Four  == {"k45cc", "k4rcc"}

LEMMA Widths ==
  /\ \A f \in One   : GetWidthFromFormat(f) = 1
  /\ \A f \in Two   : GetWidthFromFormat(f) = 2
  /\ \A f \in Three : GetWidthFromFormat(f) = 3
  /\ \A f \in Four  : GetWidthFromFormat(f) = 4
  /\ GetWidthFromFormat("k51l") = 5
  BY DEF GetWidthFromFormat, One, Two, Three, Four

LEMMA LowFormats ==
  ASSUME NEW op \in 0..114
  PROVE  opcode_len(op) = GetWidthFromFormat(FormatOfLow(op))
  <1>1. opcode_len(op) = 1 => FormatOfLow(op) \in One
    BY DEF FormatOfLow, opcode_len, One
  <1>2. opcode_len(op) = 2 => FormatOfLow(op) \in Two
    BY DEF FormatOfLow, opcode_len, Two
  <1>3. opcode_len(op) = 3 => FormatOfLow(op) \in Three
    BY DEF FormatOfLow, opcode_len, Three
  <1>4. op = 24 => opcode_len(op) = 5 /\ FormatOfLow(op) = "k51l"
    BY DEF FormatOfLow, opcode_len
  <1>5. opcode_len(op) \in 1..3 \/ op = 24
    BY DEF opcode_len
  <1> QED  BY <1>1, <1>2, <1>3, <1>4, <1>5, Widths

LEMMA HighFormats ==
  ASSUME NEW op \in 115..255
  PROVE  opcode_len(op) = GetWidthFromFormat(FormatOfHigh(op))
  <1>1. opcode_len(op) = 1 => FormatOfHigh(op) \in One
    BY DEF FormatOfHigh, opcode_len, One
  <1>2. opcode_len(op) = 2 => FormatOfHigh(op) \in Two
    BY DEF FormatOfHigh, opcode_len, Two
  <1>3. opcode_len(op) = 3 => FormatOfHigh(op) \in Three
    BY DEF FormatOfHigh, opcode_len, Three
  <1>4. opcode_len(op) = 4 => FormatOfHigh(op) \in Four
    BY DEF FormatOfHigh, opcode_len, Four
  <1>5. opcode_len(op) \in 1..4
    BY DEF opcode_len
  <1> QED  BY <1>1, <1>2, <1>3, <1>4, <1>5, Widths

(* The helper's table of lengths is the slicer's table of formats, for     *)
(* each of the 256 opcodes (dex_helper.cc:10-21; dex_bytecode.cc:62-102).  *)
THEOREM LengthsAgree ==
  ASSUME NEW op \in 0..255
  PROVE  opcode_len(op) = GetWidthFromFormat(GetFormatFromOpcode(op))
  BY LowFormats, HighFormats DEF GetFormatFromOpcode

-----------------------------------------------------------------------------
LEMMA UnitIsNat == \A u \in Unit : u \in Nat
  <1> DEFINE last == 65535
  <1>1. Unit = 0..last
    BY DEF Unit
  <1> HIDE DEF last
  <1>2. \A u \in 0..last : u \in Nat
    OBVIOUS
  <1> QED  BY <1>1, <1>2

(* The opcode of a unit is a byte, and that of each payload is nop.        *)
LEMMA OpcodeIsByte ==
  ASSUME NEW u \in Unit
  PROVE  Opcode(u) \in 0..255
  <1>1. \A n \in Nat : n % 256 \in 0..255
    OBVIOUS
  <1> QED  BY <1>1, UnitIsNat DEF Opcode

LEMMA PayloadIsNop ==
  /\ Opcode(256) = 0 /\ Opcode(512) = 0 /\ Opcode(768) = 0
  /\ opcode_len(0) = 1
  <1>1. Opcode(256) = 0 /\ Opcode(512) = 0 /\ Opcode(768) = 0
    BY DEF Opcode
  <1>2. opcode_len(0) = 1
    BY DEF opcode_len
  <1> QED  BY <1>1, <1>2

(* The step of each walk, by the unit it stands at.                        *)
LEMMA ScanSteps ==
  ASSUME NEW code, NEW i
  PROVE  /\ code[i] = 256 => ScanNext(code, i) = i + (code[i + 1] * 2 + 3) + 1
         /\ code[i] = 512 => ScanNext(code, i) = i + (code[i + 1] * 4 + 1) + 1
         /\ code[i] = 768 => ScanNext(code, i) =
                i + ((Length(code, i + 2) * code[i + 1] + 1) \div 2 + 3) + 1
         /\ code[i] \notin {256, 512, 768} =>
                ScanNext(code, i) = i + 0 + opcode_len(Opcode(code[i]))
  <1>1. CASE code[i] = 256
    <2>1. ScanNext(code, i) = i + (code[i + 1] * 2 + 3) + opcode_len(Opcode(256))
      BY <1>1 DEF ScanNext, PackedSwitchSignature, SparseSwitchSignature, ArrayDataSignature
    <2> QED  BY <1>1, <2>1, PayloadIsNop
  <1>2. CASE code[i] = 512
    <2>1. ScanNext(code, i) = i + (code[i + 1] * 4 + 1) + opcode_len(Opcode(512))
      BY <1>2 DEF ScanNext, PackedSwitchSignature, SparseSwitchSignature, ArrayDataSignature
    <2> QED  BY <1>2, <2>1, PayloadIsNop
  <1>3. CASE code[i] = 768
    <2>1. ScanNext(code, i) = i + ((Length(code, i + 2) * code[i + 1] + 1) \div 2 + 3)
                                + opcode_len(Opcode(768))
      BY <1>3 DEF ScanNext, PackedSwitchSignature, SparseSwitchSignature, ArrayDataSignature
    <2> QED  BY <1>3, <2>1, PayloadIsNop
  <1>4. CASE code[i] \notin {256, 512, 768}
    BY <1>4 DEF ScanNext, PackedSwitchSignature, SparseSwitchSignature, ArrayDataSignature
  <1> QED  BY <1>1, <1>2, <1>3, <1>4

LEMMA ParseSteps ==
  ASSUME NEW code, NEW i
  PROVE  /\ code[i] = 256 => ParseNext(code, i) = i + (4 + code[i + 1] * 2)
         /\ code[i] = 512 => ParseNext(code, i) = i + (2 + code[i + 1] * 4)
         /\ code[i] = 768 => ParseNext(code, i) =
                i + (4 + (code[i + 1] * Length(code, i + 2) + 1) \div 2)
         /\ code[i] \notin {256, 512, 768} =>
                ParseNext(code, i) =
                i + GetWidthFromFormat(GetFormatFromOpcode(Opcode(code[i])))
  <1> USE DEF ParseNext, GetWidthFromBytecode, PackedSwitchSignature,
              SparseSwitchSignature, ArrayDataSignature
  <1>1. CASE code[i] = 256  BY <1>1
  <1>2. CASE code[i] = 512  BY <1>2
  <1>3. CASE code[i] = 768  BY <1>3
  <1>4. CASE code[i] \notin {256, 512, 768}  BY <1>4
  <1> QED  BY <1>1, <1>2, <1>3, <1>4

(* The sums of the two walks are the same number.                          *)
LEMMA Sums ==
  ASSUME NEW i \in Nat, NEW x \in Nat
  PROVE  /\ i + (x * 2 + 3) + 1 = i + (4 + x * 2)
         /\ i + (x * 4 + 1) + 1 = i + (2 + x * 4)
  OBVIOUS

LEMMA ArraySums ==
  ASSUME NEW i \in Nat, NEW w \in Nat, NEW n \in Nat
  PROVE  i + ((n * w + 1) \div 2 + 3) + 1 = i + (4 + (w * n + 1) \div 2)
  <1>1. n * w = w * n
    OBVIOUS
  <1>2. (w * n + 1) \div 2 \in Int
    OBVIOUS
  <1>3. \A h \in Int : i + (h + 3) + 1 = i + (4 + h)
    OBVIOUS
  <1> QED  BY <1>1, <1>2, <1>3

LEMMA LengthIsNat ==
  ASSUME NEW code, NEW j, code[j] \in Nat, code[j + 1] \in Nat
  PROVE  Length(code, j) \in Nat
  <1>1. \A a, b \in Nat : a + b * 65536 \in Nat
    OBVIOUS
  <1> QED  BY <1>1 DEF Length

LEMMA UnitsAt ==
  ASSUME NEW code, IsCode(code), NEW i \in 1..Len(code)
  PROVE  code[i] \in Unit /\ code[i] \in Nat
  <1>1. code[i] \in Unit
    BY DEF IsCode
  <1> QED  BY <1>1, UnitIsNat

LEMMA HeaderAt ==
  ASSUME NEW code, IsCode(code), NEW i \in 1..Len(code), code[i] \in {256, 512, 768}
  PROVE  i \in Nat /\ code[i + 1] \in Nat /\ Length(code, i + 2) \in Nat
  <1>1. i + 3 <= Len(code)
    BY DEF IsCode, Payloads, PackedSwitchSignature, SparseSwitchSignature, ArrayDataSignature
  <1>2. Len(code) \in Nat
    BY DEF IsCode
  <1>3. /\ i \in Nat
        /\ i + 1 \in 1..Len(code) /\ i + 2 \in 1..Len(code) /\ i + 3 \in 1..Len(code)
        /\ i + 2 + 1 = i + 3
    BY <1>1, <1>2
  <1>4. code[i + 1] \in Nat /\ code[i + 2] \in Nat /\ code[i + 2 + 1] \in Nat
    BY <1>3, UnitsAt
  <1> QED  BY <1>3, <1>4, LengthIsNat

LEMMA NextAgrees ==
  ASSUME NEW code, IsCode(code), NEW i \in 1..Len(code)
  PROVE  ScanNext(code, i) = ParseNext(code, i)
  <1>1. CASE code[i] = 256
    <2>1. i \in Nat /\ code[i + 1] \in Nat
      BY <1>1, HeaderAt
    <2> QED  BY <1>1, <2>1, ScanSteps, ParseSteps, Sums
  <1>2. CASE code[i] = 512
    <2>1. i \in Nat /\ code[i + 1] \in Nat
      BY <1>2, HeaderAt
    <2> QED  BY <1>2, <2>1, ScanSteps, ParseSteps, Sums
  <1>3. CASE code[i] = 768
    <2>1. i \in Nat /\ code[i + 1] \in Nat /\ Length(code, i + 2) \in Nat
      BY <1>3, HeaderAt
    <2> QED  BY <1>3, <2>1, ScanSteps, ParseSteps, ArraySums, SMTT(60)
  <1>4. CASE code[i] \notin {256, 512, 768}
    <2>1. Opcode(code[i]) \in 0..255
      BY UnitsAt, OpcodeIsByte
    <2>2. opcode_len(Opcode(code[i])) = GetWidthFromFormat(GetFormatFromOpcode(Opcode(code[i])))
      BY <2>1, LengthsAgree
    <2>3. opcode_len(Opcode(code[i])) \in Nat
      BY DEF opcode_len
    <2>4. i \in Nat
      OBVIOUS
    <2>5. \A n \in Nat : i + 0 + n = i + n
      BY <2>4
    <2> QED  BY <1>4, <2>2, <2>3, <2>5, ScanSteps, ParseSteps
  <1> QED  BY <1>1, <1>2, <1>3, <1>4

(* Both walks begin instructions at the same positions, payloads and       *)
(* unused opcodes included (dex_helper.cc:234-276; reader.cc:878-939).     *)
THEOREM VisitsAgree ==
  ASSUME NEW code, IsCode(code)
  PROVE  ScanVisits(code) = ParseVisits(code)
  <1>1. [i \in 1..Len(code) |-> ScanNext(code, i)] = [i \in 1..Len(code) |-> ParseNext(code, i)]
    BY NextAgrees
  <1> QED  BY <1>1 DEF ScanVisits, ParseVisits

-----------------------------------------------------------------------------
(* What is decoded of the formats whose index is in vB or vC.              *)
LEMMA IndicesDecoded ==
  ASSUME NEW code, NEW i
  PROVE  /\ DecodeIndexed("k21c", code, i).vB = code[i + 1]
         /\ DecodeIndexed("k31c", code, i).vB = FetchU4(code, i + 1)
         /\ DecodeIndexed("k22c", code, i).vC = code[i + 1]
         /\ DecodeIndexed("k35c", code, i).vB = code[i + 1]
         /\ DecodeIndexed("k3rc", code, i).vB = code[i + 1]
  BY DEF DecodeIndexed, Dec

(* Wherever an instruction is, both walks take the same string from it,    *)
(* or none (dex_helper.cc:235-241; reader.cc:888-890).                     *)
THEOREM StringsAgree ==
  ASSUME NEW code, NEW i, NEW id
  PROVE  <<"string", id>> \in ScanRefs(code, i) <=> <<"StringRef", id>> \in ParseRefs(code, i)
  <1> DEFINE op == Opcode(code[i])
  <1>1. CASE op = 26
    <2>1. GetFormatFromOpcode(op) = "k21c" /\ GetIndexTypeFromOpcode(op) = "StringRef"
      BY <1>1 DEF GetFormatFromOpcode, FormatOfLow, GetIndexTypeFromOpcode
    <2>2. DecodeInstruction(code, i).vB = code[i + 1]
      BY <2>1, IndicesDecoded DEF DecodeInstruction, Indexed
    <2>3. ParseRefs(code, i) = {<<"StringRef", code[i + 1]>>}
      BY <2>1, <2>2 DEF ParseRefs
    <2>4. ScanRefs(code, i) = {<<"string", code[i + 1]>>}
      BY <1>1 DEF ScanRefs
    <2> QED  BY <2>3, <2>4
  <1>2. CASE op = 27
    <2>1. GetFormatFromOpcode(op) = "k31c" /\ GetIndexTypeFromOpcode(op) = "StringRef"
      BY <1>2 DEF GetFormatFromOpcode, FormatOfLow, GetIndexTypeFromOpcode
    <2>2. DecodeInstruction(code, i).vB = FetchU4(code, i + 1)
      BY <2>1, IndicesDecoded DEF DecodeInstruction, Indexed
    <2>3. ParseRefs(code, i) = {<<"StringRef", FetchU4(code, i + 1)>>}
      BY <2>1, <2>2 DEF ParseRefs
    <2>4. ScanRefs(code, i) = {<<"string", FetchU4(code, i + 1)>>}
      BY <1>2 DEF ScanRefs
    <2> QED  BY <2>3, <2>4
  <1>3. CASE op \notin {26, 27}
    <2>1. <<"string", id>> \notin ScanRefs(code, i)
      BY <1>3 DEF ScanRefs
    <2>2. GetIndexTypeFromOpcode(op) # "StringRef"
      BY <1>3 DEF GetIndexTypeFromOpcode
    <2>3. <<"StringRef", id>> \notin ParseRefs(code, i)
      BY <2>2 DEF ParseRefs
    <2> QED  BY <2>1, <2>3
  <1> QED  BY <1>1, <1>2, <1>3

(* So they do with fields, which the helper keeps by how they are used     *)
(* (dex_helper.cc:242-257; reader.cc:896-898).                             *)
THEOREM FieldsAgree ==
  ASSUME NEW code, NEW i, NEW id
  PROVE  \/ <<"get", id>> \in ScanRefs(code, i)
         \/ <<"set", id>> \in ScanRefs(code, i)
         <=> <<"FieldRef", id>> \in ParseRefs(code, i)
  <1> DEFINE op == Opcode(code[i])
  <1>1. CASE op \in 82..109
    <2>1. GetIndexTypeFromOpcode(op) = "FieldRef"
      BY <1>1 DEF GetIndexTypeFromOpcode
    <2>2. ParseRefs(code, i) = {<<"FieldRef", code[i + 1]>>}
      <3>1. CASE op \in 82..95
        <4>1. GetFormatFromOpcode(op) = "k22c"
          <5>1. \A o \in 82..95 : o < 115 /\ FormatOfLow(o) = "k22c"
            BY SMTT(60) DEF FormatOfLow
          <5> HIDE DEF op
          <5> QED  BY <3>1, <5>1 DEF GetFormatFromOpcode
        <4>2. DecodeInstruction(code, i).vC = code[i + 1]
          BY <4>1, IndicesDecoded DEF DecodeInstruction, Indexed
        <4> QED  BY <2>1, <4>1, <4>2 DEF ParseRefs
      <3>2. CASE op \in 96..109
        <4>1. GetFormatFromOpcode(op) = "k21c"
          <5>1. \A o \in 96..109 : o < 115 /\ FormatOfLow(o) = "k21c"
            BY SMTT(60) DEF FormatOfLow
          <5> HIDE DEF op
          <5> QED  BY <3>2, <5>1 DEF GetFormatFromOpcode
        <4>2. DecodeInstruction(code, i).vB = code[i + 1]
          BY <4>1, IndicesDecoded DEF DecodeInstruction, Indexed
        <4> QED  BY <2>1, <4>1, <4>2 DEF ParseRefs
      <3> QED  BY <1>1, <3>1, <3>2
    <2>3. ScanRefs(code, i) \in {{<<"get", code[i + 1]>>}, {<<"set", code[i + 1]>>}}
      <3>1. CASE op \in 82..88 \cup 96..102
        BY <3>1 DEF ScanRefs
      <3>2. CASE op \in 89..95 \cup 103..109
        BY <3>2 DEF ScanRefs
      <3> QED  BY <1>1, <3>1, <3>2
    <2> QED  BY <2>2, <2>3
  <1>2. CASE op \notin 82..109
    <2>1. <<"get", id>> \notin ScanRefs(code, i) /\ <<"set", id>> \notin ScanRefs(code, i)
      BY <1>2 DEF ScanRefs
    <2>2. GetIndexTypeFromOpcode(op) # "FieldRef"
      BY <1>2 DEF GetIndexTypeFromOpcode
    <2>3. <<"FieldRef", id>> \notin ParseRefs(code, i)
      BY <2>2 DEF ParseRefs
    <2> QED  BY <2>1, <2>3
  <1> QED  BY <1>1, <1>2

(* A method that the helper sees called is one that the parser sees        *)
(* (dex_helper.cc:258-264; reader.cc:900-902).                             *)
THEOREM CallsAreParsed ==
  ASSUME NEW code, NEW i, NEW id, <<"invoke", id>> \in ScanRefs(code, i)
  PROVE  <<"MethodRef", id>> \in ParseRefs(code, i)
  <1> DEFINE op == Opcode(code[i])
  <1>1. op \in 110..114 \cup 116..120
    BY DEF ScanRefs
  <1>2. id = code[i + 1]
    BY <1>1 DEF ScanRefs
  <1>3. GetIndexTypeFromOpcode(op) = "MethodRef"
    BY <1>1 DEF GetIndexTypeFromOpcode
  <1>4. GetFormatFromOpcode(op) \in {"k35c", "k3rc"}
    <2>1. \A o \in 110..114 : o < 115 /\ FormatOfLow(o) = "k35c"
      BY SMTT(30) DEF FormatOfLow
    <2>2. \A o \in 116..120 : ~(o < 115) /\ FormatOfHigh(o) = "k3rc"
      BY SMTT(30) DEF FormatOfHigh
    <2> HIDE DEF op
    <2> QED  BY <1>1, <2>1, <2>2 DEF GetFormatFromOpcode
  <1>5. DecodeInstruction(code, i).vB = code[i + 1]
    BY <1>4, IndicesDecoded DEF DecodeInstruction, Indexed
  <1>6. ParseRefs(code, i) = {<<"MethodRef", code[i + 1]>>}
    BY <1>3, <1>4, <1>5 DEF ParseRefs
  <1> QED  BY <1>2, <1>6

(* The strings of a whole method: the helper's scan finds a string in the  *)
(* code exactly when the slicer's parser does (dex_helper.cc:232-276;      *)
(* reader.cc:878-939).                                                     *)
THEOREM MethodStringsAgree ==
  ASSUME NEW code, IsCode(code), NEW id
  PROVE  <<"string", id>> \in ScanMethodRefs(code)
           <=> \E i \in ParseVisits(code) : <<"StringRef", id>> \in ParseRefs(code, i)
  <1>1. <<"string", id>> \in ScanMethodRefs(code)
           <=> \E i \in ScanVisits(code) : <<"string", id>> \in ScanRefs(code, i)
    BY DEF ScanMethodRefs
  <1>2. \A i : <<"string", id>> \in ScanRefs(code, i) <=> <<"StringRef", id>> \in ParseRefs(code, i)
    BY StringsAgree
  <1> QED  BY <1>1, <1>2, VisitsAgree

-----------------------------------------------------------------------------
(* The installation of the hooks.                                          *)

Steps  == 1..9
Before == {"idle", "load", "tts"}

(* Nothing is hooked before the searches, and the third search is made     *)
(* only in silence.                                                        *)
Order ==
    /\ next \in Steps
    /\ pc \in Before => next = 1 /\ hooks = {} /\ ~silenced
    /\ pc = "search" /\ next > 2 => silenced

(* A call is there only when the installation has ended, and what the      *)
(* engine has to write belongs to it and is silent if the hook is there.   *)
Announcement ==
    /\ call # "none" => pc = "done"
    /\ engine # "none" => call # "none"
    /\ silenced => engine # "speech"

Silence == Order /\ FailSafe /\ Announcement

(* A step of the hooks whatever a search answers.                          *)
AnyInstall == \/ onPackageReady \/ hookPublicTts \/ SearchFaults \/ close
              \/ \E t : NewDexHelper(t)
              \/ \E r : Search(r)
AnyNext    == AnyInstall \/ Calls \/ DialerDies

-----------------------------------------------------------------------------
LEMMA Lengths == Len(Wanted) = 9 /\ \A n \in Steps : Wanted[n] \in Contingency <=> n <= 2
  BY DEF Wanted, Contingency, Steps

LEMMA PlayBeepIsSecond == \A n \in Steps : Wanted[n] = "playBeep" <=> n = 2
  BY DEF Wanted, Steps

(* The number of the next search stays in its range.                       *)
LEMMA AfterIsAStep ==
  ASSUME NEW n \in Steps, n # 9, NEW r
  PROVE  After(n, r) \in Steps /\ (n >= 2 => After(n, r) > 2) /\ (n = 1 => After(n, r) = 2)
  <1>1. n = 8 => Wanted[n] # "withinCallRecordingGeoFence"  BY DEF Wanted
  <1>2. n = 1 => Wanted[n] # "withinCallRecordingGeoFence"  BY DEF Wanted
  <1> QED  BY <1>1, <1>2 DEF After, Steps

(* Only the searches and the reset change what forces a gate open.         *)
LEMMA SameEnabling ==
  ASSUME UNCHANGED hooks PROVE Enabling' = Enabling
  BY DEF Enabling

LEMMA InitIsSilent == HooksInit => Silence
  <1> SUFFICES ASSUME HooksInit PROVE Silence  OBVIOUS
  <1>1. Enabling = {}  BY DEF HooksInit, Enabling
  <1> QED  BY <1>1 DEF HooksInit, Silence, Order, FailSafe, Announcement, Steps, Before

LEMMA BeginKeepsSilence ==
  ASSUME Silence, onPackageReady PROVE Silence'
  <1>1. Enabling' = Enabling  BY SameEnabling DEF onPackageReady
  <1> QED  BY <1>1 DEF onPackageReady, Silence, Order, FailSafe, Announcement, Before,
                       dialerVars, callVars

LEMMA NewDexHelperKeepsSilence ==
  ASSUME Silence, NEW t, NewDexHelper(t) PROVE Silence'
  <1>1. Enabling' = Enabling  BY SameEnabling DEF NewDexHelper
  <1>2. pc' \in {"done", "died", "tts"}
    BY DEF NewDexHelper, Fail
  <1> QED  BY <1>1, <1>2 DEF NewDexHelper, Silence, Order, FailSafe, Announcement, Before,
                       dialerVars, callVars

LEMMA hookPublicTtsKeepsSilence ==
  ASSUME Silence, hookPublicTts PROVE Silence'
  <1>1. hooks = {} /\ next = 1 /\ pc = "tts"
    BY DEF hookPublicTts, Silence, Order, Before
  <1>2. Enabling' = {}  BY <1>1 DEF hookPublicTts, Enabling
  <1>3. call = "none" /\ engine = "none"  BY <1>1 DEF Silence, Announcement
  <1>4. pc' \in {"search", "close"}  BY DEF hookPublicTts, Fail
  <1> QED  BY <1>1, <1>2, <1>3, <1>4 DEF hookPublicTts, Silence, Order, FailSafe,
                       Announcement, Before, dialerVars, callVars, Steps

(* A method of the first two searches does not force a gate; later ones    *)
(* are looked for in silence only.                                         *)
LEMMA SearchKeepsSilence ==
  ASSUME Silence, NEW r, Search(r) PROVE Silence'
  <1>1. pc = "search" /\ next \in Steps /\ UNCHANGED silenced /\ UNCHANGED <<call, engine>>
    BY DEF Search, Silence, Order, dialerVars, callVars
  <1>2. call = "none" /\ engine = "none"  BY <1>1 DEF Silence, Announcement
  <1>3. /\ pc' \in {"search", "close"}
        /\ next' \in Steps
        /\ pc' = "search" /\ next' > 2 => silenced
    <2>1. CASE Proceed(next, r)
      <3>1. CASE next = 2 /\ ~silenced
        BY <1>1, <2>1, <3>1, PlayBeepIsSecond DEF Proceed, Steps
      <3>2. CASE ~(next = 2 /\ ~silenced) /\ next = 9
        BY <1>1, <2>1, <3>2, PlayBeepIsSecond, Lengths DEF Proceed, Steps
      <3>3. CASE ~(next = 2 /\ ~silenced) /\ next # 9
        <4>1. next' = After(next, r) /\ UNCHANGED pc
          BY <1>1, <2>1, <3>3, PlayBeepIsSecond, Lengths DEF Proceed
        <4> QED  BY <1>1, <3>3, <4>1, AfterIsAStep DEF Silence, Order, Steps
      <3> QED  BY <3>1, <3>2, <3>3
    <2>2. CASE Fail("close") /\ UNCHANGED next
      BY <1>1, <2>2 DEF Fail
    <2> QED  BY <2>1, <2>2 DEF Search
  <1>4. Enabling' # {} => silenced
    <2>1. CASE UNCHANGED hooks
      BY <2>1, SameEnabling DEF Silence, FailSafe
    <2>2. CASE hooks' = hooks \cup {[of |-> Wanted[next], method |-> r.method]}
      <3>1. CASE next > 2
        BY <1>1, <3>1 DEF Silence, Order
      <3>2. CASE next <= 2
        <4>1. Wanted[next] \in Contingency  BY <1>1, <3>2, Lengths
        <4>2. Enabling' = Enabling  BY <2>2, <4>1 DEF Enabling
        <4> QED  BY <4>2 DEF Silence, FailSafe
      <3> QED  BY <1>1, <3>1, <3>2 DEF Steps
    <2> QED  BY <2>1, <2>2 DEF Search
  <1> QED  BY <1>1, <1>2, <1>3, <1>4 DEF Silence, Order, FailSafe, Announcement, Before

LEMMA closeKeepsSilence ==
  ASSUME Silence, close \/ SearchFaults PROVE Silence'
  <1>1. Enabling' = Enabling  BY SameEnabling DEF close, SearchFaults
  <1> QED  BY <1>1 DEF close, SearchFaults, Silence, Order, FailSafe, Announcement, Before,
                       dialerVars, callVars

(* The clip is read only when there is one.                                *)
LEMMA CallsKeepSilence ==
  ASSUME Silence, Calls PROVE Silence'
  <1>1. UNCHANGED installVars
    BY DEF Calls, CallConnects, EngineAccepts, EngineRefuses, SilenceFile,
           EngineFinishes, ClipPlays, CallEnds
  <1>2. Enabling' = Enabling /\ (Order /\ FailSafe)'
    BY <1>1, SameEnabling DEF installVars, Silence, Order, FailSafe, Before
  <1>3. Announcement'
    <2> USE <1>1 DEF Silence, Announcement, installVars
    <2>1. CASE CallConnects   BY <2>1 DEF CallConnects
    <2>2. CASE EngineAccepts  BY <2>2 DEF EngineAccepts, Text
    <2>3. CASE EngineRefuses
      <3>1. call' \in {"failed", "ready", "wait"}  BY <2>3 DEF EngineRefuses, Answer
      <3>2. UNCHANGED engine /\ call = "announce"  BY <2>3 DEF EngineRefuses
      <3> QED  BY <3>1, <3>2
    <2>4. CASE SilenceFile    BY <2>4 DEF SilenceFile
    <2>5. CASE EngineFinishes BY <2>5 DEF EngineFinishes
    <2>6. CASE ClipPlays      BY <2>6 DEF ClipPlays
    <2>7. CASE CallEnds       BY <2>7 DEF CallEnds
    <2> QED  BY <2>1, <2>2, <2>3, <2>4, <2>5, <2>6, <2>7 DEF Calls
  <1> QED  BY <1>2, <1>3 DEF Silence

LEMMA DialerDiesKeepsSilence ==
  ASSUME Silence, DialerDies PROVE Silence'
  <1>1. Enabling' = {}  BY DEF DialerDies, Enabling
  <1> QED  BY <1>1 DEF DialerDies, Silence, Order, FailSafe, Announcement, Before, Steps

LEMMA StutterKeepsSilence ==
  ASSUME Silence, UNCHANGED hookVars PROVE Silence'
  <1>1. Enabling' = Enabling  BY SameEnabling DEF hookVars, installVars
  <1> QED  BY <1>1 DEF hookVars, installVars, dialerVars, callVars, Silence, Order,
                       FailSafe, Announcement, Before

LEMMA HooksNextIsAny == HooksNext => AnyNext
  BY DEF HooksNext, Installs, AnyNext, AnyInstall

LEMMA AnyNextKeepsSilence == Silence /\ [AnyNext]_hookVars => Silence'
  <1> SUFFICES ASSUME Silence, [AnyNext]_hookVars PROVE Silence'  OBVIOUS
  <1>1. CASE AnyInstall
    BY <1>1, BeginKeepsSilence, NewDexHelperKeepsSilence, hookPublicTtsKeepsSilence,
       SearchKeepsSilence, closeKeepsSilence DEF AnyInstall
  <1>2. CASE Calls               BY <1>2, CallsKeepSilence
  <1>3. CASE DialerDies          BY <1>3, DialerDiesKeepsSilence
  <1>4. CASE UNCHANGED hookVars  BY <1>4, StutterKeepsSilence
  <1> QED  BY <1>1, <1>2, <1>3, <1>4 DEF AnyNext

(* No gate is forced open without the silence (Module.java:38-49).         *)
THEOREM FailsSafe == HooksSpec => []FailSafe
  <1>1. Silence => FailSafe  BY DEF Silence
  <1> QED  BY <1>1, InitIsSilent, HooksNextIsAny, AnyNextKeepsSilence, PTL DEF HooksSpec

-----------------------------------------------------------------------------
(* A recorded call has the locale of a clip as long as it lasts.           *)
HasLocale == call # "none" => locale \in Locale
CallTypes ==
    /\ home \in Locale \cup {NoLocale}
    /\ clip \in [Locale -> Sound]
    /\ call \in {"none", "announce", "wait", "ready", "failed", "silent", "speech"}
    /\ engine \in Sound
    /\ synthesis \in BOOLEAN /\ unreachable \in BOOLEAN
CallTyped == CallTypes /\ HasLocale

LEMMA InitCallTyped == HooksInit => CallTyped
  <1> SUFFICES ASSUME HooksInit PROVE CallTyped  OBVIOUS
  <1>1. clip \in [Locale -> Sound]  BY DEF HooksInit, Sound
  <1> QED  BY <1>1 DEF HooksInit, CallTyped, CallTypes, HasLocale, Sound

LEMMA CallsAreTyped ==
  ASSUME CallTyped, Silence, Calls PROVE CallTyped'
  <1>1. UNCHANGED installVars /\ UNCHANGED home
    BY DEF Calls, CallConnects, EngineAccepts, EngineRefuses, SilenceFile,
           EngineFinishes, ClipPlays, CallEnds
  <1>2. locale' = locale
    BY <1>1 DEF installVars, locale, Hooked
  <1>3. CASE CallConnects
    <2>1. locale \in Locale
      BY <1>3, LocalesAreNamed DEF CallConnects, locale, CallTyped, CallTypes
    <2>2. CallTypes'
      BY <1>3 DEF CallConnects, CallTyped, CallTypes
    <2> QED  BY <1>2, <2>1, <2>2 DEF CallTyped, HasLocale
  <1>4. CASE ~CallConnects
    <2>1. call # "none" \/ UNCHANGED call
      BY <1>4 DEF Calls, EngineAccepts, EngineRefuses, SilenceFile, EngineFinishes,
                  ClipPlays, CallEnds, Silence, Announcement
    <2>2. HasLocale'
      BY <1>2, <2>1 DEF CallTyped, HasLocale
    <2>3. CallTypes'
      <3> USE <1>1 DEF CallTyped, CallTypes, Sound
      <3>1. CASE EngineAccepts
        BY <3>1 DEF EngineAccepts, Text, Hooked
      <3>2. CASE EngineRefuses
        <4>1. call' \in {"failed", "ready", "wait"} /\ unreachable' \in BOOLEAN
          BY <3>2 DEF EngineRefuses, Answer
        <4>2. synthesis' \in BOOLEAN /\ UNCHANGED engine
          BY <3>2 DEF EngineRefuses, Hooked
        <4>3. clip' = clip \/ clip' = [clip EXCEPT ![locale] = "silent"]
          BY <3>2 DEF EngineRefuses
        <4> QED  BY <4>1, <4>2, <4>3
      <3>3. CASE SilenceFile     BY <3>3 DEF SilenceFile
      <3>4. CASE EngineFinishes  BY <3>4 DEF EngineFinishes
      <3>5. CASE ClipPlays
        <4>1. call' \in Sound
          BY <3>5 DEF ClipPlays, Clip, HasLocale
        <4> QED  BY <3>5, <4>1 DEF ClipPlays
      <3>6. CASE CallEnds        BY <3>6 DEF CallEnds
      <3> QED  BY <1>4, <3>1, <3>2, <3>3, <3>4, <3>5, <3>6 DEF Calls
    <2> QED  BY <2>2, <2>3 DEF CallTyped
  <1> QED  BY <1>3, <1>4

(* Before the installation has ended there is no call.                     *)
LEMMA InstallsAreQuiet ==
  ASSUME Silence, AnyInstall PROVE UNCHANGED dialerVars /\ call = "none"
  BY DEF AnyInstall, onPackageReady, NewDexHelper, hookPublicTts, Search, SearchFaults, close,
         Silence, Announcement

LEMMA AnyNextIsTyped == CallTyped /\ Silence /\ [AnyNext]_hookVars => CallTyped'
  <1> SUFFICES ASSUME CallTyped, Silence, [AnyNext]_hookVars PROVE CallTyped'  OBVIOUS
  <1> USE DEF CallTyped, CallTypes, HasLocale
  <1>1. CASE AnyInstall
    BY <1>1, InstallsAreQuiet DEF dialerVars, callVars
  <1>2. CASE Calls               BY <1>2, CallsAreTyped
  <1>3. CASE DialerDies          BY <1>3 DEF DialerDies, Sound
  <1>4. CASE UNCHANGED hookVars
    <2>1. UNCHANGED locale
      BY <1>4 DEF hookVars, installVars, dialerVars, locale, Hooked
    <2> QED  BY <1>4, <2>1 DEF hookVars, dialerVars, callVars
  <1> QED  BY <1>1, <1>2, <1>3, <1>4 DEF AnyNext

-----------------------------------------------------------------------------
(* What a step does to the clips.                                          *)
LEMMA CallsAddNoSpeech ==
  ASSUME Silence, clip \in [Locale -> Sound], Calls PROVE AddsNoSpeech
  <1>1. CASE UNCHANGED clip  BY <1>1 DEF AddsNoSpeech
  <1>2. CASE clip' = [clip EXCEPT ![locale] = "silent"]  BY <1>2 DEF AddsNoSpeech
  <1>3. CASE EngineFinishes
    <2>1. CASE UNCHANGED clip  BY <2>1 DEF AddsNoSpeech
    <2>2. CASE clip' = [clip EXCEPT ![locale] = engine]
      <3> SUFFICES ASSUME Enabling # {} PROVE AddsNoSpeech  BY DEF AddsNoSpeech
      <3>1. engine # "speech"  BY DEF Silence, FailSafe, Announcement
      <3> QED  BY <2>2, <3>1 DEF AddsNoSpeech
    <2> QED  BY <1>3, <2>1, <2>2 DEF EngineFinishes
  <1> QED
    BY <1>1, <1>2, <1>3 DEF Calls, CallConnects, EngineAccepts, EngineRefuses, SilenceFile,
                            ClipPlays, CallEnds

LEMMA AnyNextAddsNoSpeech ==
  CallTyped /\ Silence /\ [AnyNext]_hookVars => AddsNoSpeech
  <1> SUFFICES ASSUME CallTyped, Silence, [AnyNext]_hookVars PROVE AddsNoSpeech  OBVIOUS
  <1>1. CASE Calls
    BY <1>1, CallsAddNoSpeech DEF CallTyped, CallTypes
  <1>2. CASE AnyInstall \/ DialerDies \/ UNCHANGED hookVars
    <2>1. UNCHANGED clip
      BY <1>2, InstallsAreQuiet DEF DialerDies, hookVars, dialerVars, callVars
    <2> QED  BY <2>1 DEF AddsNoSpeech
  <1> QED  BY <1>1, <1>2 DEF AnyNext

(* Forced recordings add no speech to the device, whatever the engine      *)
(* answers and when (Module.java:65-120).                                  *)
THEOREM NoSpeech == HooksSpec => NoSpeechIsMade
  BY InitIsSilent, InitCallTyped, HooksNextIsAny, AnyNextKeepsSilence, AnyNextIsTyped,
     AnyNextAddsNoSpeech, PTL DEF HooksSpec, NoSpeechIsMade

-----------------------------------------------------------------------------
(* Whom the dialer waits for changes only during its calls.                *)
LEMMA InitIsCompleted == HooksInit => SomeoneCompletes
  BY DEF HooksInit, SomeoneCompletes

LEMMA CallsAreCompleted ==
  ASSUME SomeoneCompletes, CallTyped, Calls PROVE SomeoneCompletes'
  <1> USE DEF SomeoneCompletes
  <1>1. CASE CallConnects    BY <1>1 DEF CallConnects
  <1>2. CASE EngineAccepts   BY <1>2 DEF EngineAccepts, Text
  <1>3. CASE EngineRefuses
    <2>1. call' = "wait" => unreachable'  BY <1>3 DEF EngineRefuses, Answer
    <2> QED  BY <2>1
  <1>4. CASE SilenceFile     BY <1>4 DEF SilenceFile
  <1>5. CASE EngineFinishes  BY <1>5 DEF EngineFinishes
  <1>6. CASE ClipPlays
    <2>1. call' # "wait"
      BY <1>6 DEF ClipPlays, Clip, CallTyped, CallTypes, HasLocale, Sound
    <2> QED  BY <2>1
  <1>7. CASE CallEnds        BY <1>7 DEF CallEnds
  <1> QED  BY <1>1, <1>2, <1>3, <1>4, <1>5, <1>6, <1>7 DEF Calls

LEMMA AnyNextIsCompleted ==
  SomeoneCompletes /\ CallTyped /\ Silence /\ [AnyNext]_hookVars => SomeoneCompletes'
  <1> SUFFICES ASSUME SomeoneCompletes, CallTyped, Silence, [AnyNext]_hookVars
               PROVE  SomeoneCompletes'
    OBVIOUS
  <1>1. CASE Calls  BY <1>1, CallsAreCompleted
  <1>2. CASE AnyInstall \/ DialerDies \/ UNCHANGED hookVars
    BY <1>2, InstallsAreQuiet DEF SomeoneCompletes, DialerDies, hookVars, dialerVars, callVars
  <1> QED  BY <1>1, <1>2 DEF AnyNext

(* A dialer that was told SUCCESS is told the end too, but for a listener  *)
(* out of reach (Module.java:78-94).                                       *)
THEOREM Completion == HooksSpec => []SomeoneCompletes
  BY InitIsSilent, InitCallTyped, InitIsCompleted, HooksNextIsAny, AnyNextKeepsSilence,
     AnyNextIsTyped, AnyNextIsCompleted, PTL DEF HooksSpec

-----------------------------------------------------------------------------
(* With answers in Result all is of its type.                              *)
InstallTypes ==
    /\ pc \in {"idle", "load", "tts", "search", "close", "done", "died"}
    /\ next \in 1..Len(Wanted)
    /\ silenced \in BOOLEAN
    /\ hooks \subseteq [of : {Wanted[n] : n \in 1..Len(Wanted)}, method : Method]
    /\ log \in {"none", "aborted", "failed", "ready"}
    /\ native \subseteq Gate

LEMMA SearchIsTyped ==
  ASSUME InstallTypes, NEW r \in Result, Search(r) PROVE InstallTypes'
  <1> USE Lengths DEF InstallTypes, Steps
  <1>1. UNCHANGED silenced /\ UNCHANGED native
    BY DEF Search, dialerVars
  <1>2. /\ pc' \in {pc, "close"} /\ next' \in 1..Len(Wanted)
        /\ log' \in {log, "aborted", "ready", "failed"}
    <2>1. CASE Proceed(next, r)
      <3>1. next = 9 \/ After(next, r) \in 1..9  BY AfterIsAStep
      <3> QED  BY <2>1, <3>1, PlayBeepIsSecond DEF Proceed
    <2>2. CASE Fail("close") /\ UNCHANGED next  BY <2>2 DEF Fail
    <2> QED  BY <2>1, <2>2 DEF Search
  <1>3. hooks' \subseteq [of : {Wanted[n] : n \in 1..Len(Wanted)}, method : Method]
    <2>1. CASE UNCHANGED hooks  BY <2>1
    <2>2. CASE r.kind = "method" /\ hooks' = hooks \cup {[of |-> Wanted[next], method |-> r.method]}
      <3>1. r.method \in Method  BY <2>2 DEF Result
      <3> QED  BY <2>2, <3>1
    <2> QED  BY <2>1, <2>2 DEF Search
  <1> QED  BY <1>1, <1>2, <1>3

LEMMA HooksNextIsTyped == InstallTypes /\ [HooksNext]_hookVars => InstallTypes'
  <1> SUFFICES ASSUME InstallTypes, [HooksNext]_hookVars PROVE InstallTypes'  OBVIOUS
  <1> USE DEF InstallTypes
  <1>1. CASE onPackageReady  BY <1>1 DEF onPackageReady, dialerVars
  <1>2. ASSUME NEW t, NewDexHelper(t) PROVE InstallTypes'
    BY <1>2 DEF NewDexHelper, Fail, dialerVars
  <1>3. CASE hookPublicTts   BY <1>3 DEF hookPublicTts, Fail, dialerVars
  <1>4. ASSUME NEW r \in Result, Search(r) PROVE InstallTypes'
    BY <1>4, SearchIsTyped
  <1>5. CASE close \/ SearchFaults
    BY <1>5 DEF close, SearchFaults, dialerVars
  <1>6. CASE Calls
    BY <1>6 DEF Calls, CallConnects, EngineAccepts, EngineRefuses, SilenceFile,
                EngineFinishes, ClipPlays, CallEnds, installVars
  <1>7. CASE DialerDies
    <2>1. 1 \in 1..Len(Wanted)  BY Lengths
    <2> QED  BY <1>7, <2>1 DEF DialerDies
  <1>8. CASE UNCHANGED hookVars
    BY <1>8 DEF hookVars, installVars, dialerVars
  <1> QED  BY <1>1, <1>2, <1>3, <1>4, <1>5, <1>6, <1>7, <1>8 DEF HooksNext, Installs

(* Type correctness, for every set of methods and locales.                 *)
THEOREM HooksAreTyped == HooksSpec => []TypeOK
  <1>1. HooksInit => InstallTypes
    <2>1. 1 \in 1..Len(Wanted)  BY Lengths
    <2> QED  BY <2>1 DEF HooksInit, InstallTypes
  <1>2. InstallTypes /\ CallTyped => TypeOK
    BY DEF InstallTypes, CallTyped, CallTypes, TypeOK
  <1> QED  BY <1>1, <1>2, InitIsSilent, InitCallTyped, HooksNextIsAny, AnyNextKeepsSilence,
              AnyNextIsTyped, HooksNextIsTyped, PTL DEF HooksSpec

-----------------------------------------------------------------------------
(* The same for the process: its steps are steps of the hooks, or leave    *)
(* them as they are.                                                       *)

LEMMA LoadingLeavesHooks == Next => AnyNext \/ UNCHANGED hookVars
  BY DEF Next, Install, Restart, AnyNext, AnyInstall

LEMMA VarsHoldHooks == UNCHANGED vars => UNCHANGED hookVars
  BY DEF vars

LEMMA InstallationIsHooks ==
  /\ Init => HooksInit
  /\ [Next]_vars => [AnyNext]_hookVars
  BY LoadingLeavesHooks, VarsHoldHooks DEF Init

(* No gate of the dialer is forced open without the silence, whatever is   *)
(* loaded from wherever (Module.java:38-49; wrapper.cc:357-446).           *)
THEOREM InstallationFailsSafe == Spec => []FailSafe
  <1>1. Silence => FailSafe  BY DEF Silence
  <1> QED  BY <1>1, InstallationIsHooks, InitIsSilent, AnyNextKeepsSilence, PTL DEF Spec

(* Nor is speech added to the device by a forced recording.                *)
THEOREM InstallationMakesNoSpeech == Spec => NoSpeechIsMade
  BY InstallationIsHooks, InitIsSilent, InitCallTyped, AnyNextKeepsSilence, AnyNextIsTyped,
     AnyNextAddsNoSpeech, PTL DEF Spec, NoSpeechIsMade

(* And the dialer's announcement is completed.                             *)
THEOREM InstallationCompletes == Spec => []SomeoneCompletes
  BY InstallationIsHooks, InitIsSilent, InitCallTyped, InitIsCompleted, AnyNextKeepsSilence,
     AnyNextIsTyped, AnyNextIsCompleted, PTL DEF Spec

-----------------------------------------------------------------------------
(* What is loaded.                                                         *)

LEMMA ElementsAreTyped ==
  ASSUME device \in DOMAIN Device
  PROVE  Elements \in Seq(Element \cup {None})
  BY DevicesAreTyped DEF Elements

(* None is no dex file, all else is.                                       *)
ImagesIn(D, from) == [dex : D \ {None}, from : {from}]
LEMMA ImagesAre ==
  ASSUME NEW D, NEW dexes \in Seq(D), NEW from
  PROVE  /\ Images(dexes, from) \in Seq(ImagesIn(D, from))
         /\ Range(Images(dexes, from)) = ImagesIn(Range(dexes), from)
  <1> DEFINE S == [dex : D \ {None}, from : {from}]
             Of(i) == IF dexes[i] = None THEN <<>> ELSE <<[dex |-> dexes[i], from |-> from]>>
             h == [i \in 1..Len(dexes) |-> Of(i)]
  <1>1. Len(dexes) \in Nat /\ DOMAIN dexes = 1..Len(dexes) /\ \A i \in 1..Len(dexes) : dexes[i] \in D
    OBVIOUS
  <1>2. \A i \in 1..Len(dexes) : /\ Of(i) \in Seq(S)
                                 /\ Range(Of(i)) = [dex : {dexes[i]} \ {None}, from : {from}]
    <2> SUFFICES ASSUME NEW i \in 1..Len(dexes)
                 PROVE  /\ Of(i) \in Seq(S)
                        /\ Range(Of(i)) = [dex : {dexes[i]} \ {None}, from : {from}]
      OBVIOUS
    <2>1. CASE dexes[i] = None
      <3>1. Of(i) = <<>> /\ Range(<<>>) = {}
        BY <2>1 DEF Range
      <3>2. [dex : {dexes[i]} \ {None}, from : {from}] = {}
        BY <2>1
      <3> QED  BY <3>1, <3>2
    <2>2. CASE dexes[i] # None
      <3> DEFINE x == [dex |-> dexes[i], from |-> from]
      <3>1. x \in S
        BY <1>1, <2>2
      <3>2. Of(i) = <<x>>
        BY <2>2
      <3>3. <<x>> \in Seq(S) /\ Range(<<x>>) = {x}
        BY <3>1 DEF Range
      <3>4. {dexes[i]} \ {None} = {dexes[i]}
        BY <2>2
      <3>5. \A y \in [dex : {dexes[i]}, from : {from}] : y = x
        OBVIOUS
      <3>6. x \in [dex : {dexes[i]}, from : {from}]
        OBVIOUS
      <3>7. [dex : {dexes[i]} \ {None}, from : {from}] = {x}
        BY <3>4, <3>5, <3>6
      <3> HIDE DEF x
      <3> QED  BY <3>2, <3>3, <3>7
    <2> QED  BY <2>1, <2>2
  <1> HIDE DEF Of
  <1>3. h \in Seq(Seq(S)) /\ Len(h) = Len(dexes) /\ \A i \in 1..Len(h) : h[i] = Of(i)
    <2>1. \A i \in 1..Len(dexes) : Of(i) \in Seq(S)
      BY <1>2
    <2> HIDE DEF S
    <2> QED  BY <1>1, <2>1
  <1>4. Images(dexes, from) = FlattenSeq(h)
    BY DEF Images, Of
  <1> HIDE DEF h
  <1>5. /\ Images(dexes, from) \in Seq(S)
        /\ Range(Images(dexes, from)) = UNION {Range(h[i]) : i \in 1..Len(h)}
    BY <1>3, <1>4, Flattened
  <1>6. UNION {Range(h[i]) : i \in 1..Len(h)} = [dex : Range(dexes) \ {None}, from : {from}]
    <2>1. ASSUME NEW x \in UNION {Range(h[i]) : i \in 1..Len(h)}
          PROVE  x \in [dex : Range(dexes) \ {None}, from : {from}]
      <3>1. PICK i \in 1..Len(h) : x \in Range(h[i])
        OBVIOUS
      <3>2. x \in [dex : {dexes[i]} \ {None}, from : {from}]
        BY <1>2, <1>3, <3>1
      <3>3. dexes[i] \in Range(dexes)
        BY <1>1, <1>3 DEF Range
      <3> QED  BY <3>2, <3>3
    <2>2. ASSUME NEW x \in [dex : Range(dexes) \ {None}, from : {from}]
          PROVE  x \in UNION {Range(h[i]) : i \in 1..Len(h)}
      <3>1. PICK i \in 1..Len(dexes) : x.dex = dexes[i]
        BY <1>1 DEF Range
      <3>2. x \in [dex : {dexes[i]} \ {None}, from : {from}]
        BY <3>1
      <3>3. i \in 1..Len(h) /\ x \in Range(h[i])
        BY <1>2, <1>3, <3>2
      <3> QED  BY <3>3
    <2> QED  BY <2>1, <2>2
  <1> QED  BY <1>5, <1>6 DEF ImagesIn

-----------------------------------------------------------------------------
(* The zip file.                                                           *)

(* The headers come in the order of the file, and an entry behind one with *)
(* a descriptor is lost.                                                   *)
LEMMA OpenIs ==
  ASSUME NEW zip \in Seq(ZipEntry)
  PROVE  /\ Open(zip) \in Seq(ZipEntry) /\ Len(Open(zip)) <= Len(zip)
         /\ \A i \in 1..Len(Open(zip)) : Open(zip)[i] = zip[i]
         /\ \A k \in 1..Len(zip) : (\A i \in 1..(k - 1) : zip[i].sized) => k \in 1..Len(Open(zip))
  <1> DEFINE I == {i \in 1..Len(zip) : ~zip[i].sized}
  <1>1. Len(zip) \in Nat
    OBVIOUS
  <1>2. CASE I = {}
    <2>1. SelectInSeq(zip, LAMBDA e : ~e.sized) = 0
      BY <1>2 DEF SelectInSeq
    <2>2. Open(zip) = zip
      BY <2>1 DEF Open
    <2> QED  BY <1>1, <2>2
  <1>3. CASE I # {}
    <2> DEFINE u == Min(I)
    <2>1. I \subseteq Nat
      BY <1>1
    <2>2. u \in I
      BY <1>3, <2>1, LeastOf
    <2>3. u \in 1..Len(zip) /\ ~zip[u].sized
      BY <2>2
    <2>4. SelectInSeq(zip, LAMBDA e : ~e.sized) = u
      BY <1>3 DEF SelectInSeq
    <2> HIDE DEF u, I
    <2>5. Open(zip) = SubSeq(zip, 1, u)
      BY <2>3, <2>4 DEF Open
    <2>6. /\ SubSeq(zip, 1, u) \in Seq(ZipEntry) /\ Len(SubSeq(zip, 1, u)) = u
          /\ \A i \in 1..u : SubSeq(zip, 1, u)[i] = zip[i]
      BY <1>1, <2>3
    <2>7. ASSUME NEW k \in 1..Len(zip), \A i \in 1..(k - 1) : zip[i].sized PROVE k \in 1..u
      BY <1>1, <2>3, <2>7
    <2> QED  BY <1>1, <2>3, <2>5, <2>6, <2>7
  <1> QED  BY <1>2, <1>3

LEMMA FindIs ==
  ASSUME NEW zip \in Seq(ZipEntry), NEW n
  PROVE  /\ Find(zip, n) # None => Find(zip, n) \in Range(zip) /\ Find(zip, n).name = n
         /\ \A k \in 1..Len(Open(zip)) :
                zip[k].name = n =>
                    /\ Find(zip, n) # None
                    /\ (\A j \in 1..(k - 1) : zip[j].name # n) => Find(zip, n) = zip[k]
  <1> DEFINE entries == Open(zip)
             I == {i \in 1..Len(entries) : entries[i].name = n}
  <1>1. Len(zip) \in Nat /\ Len(entries) \in Nat /\ Len(entries) <= Len(zip) /\ DOMAIN zip = 1..Len(zip)
    BY OpenIs
  <1>2. \A i \in 1..Len(entries) : entries[i] = zip[i] /\ i \in 1..Len(zip) /\ zip[i] \in ZipEntry
    BY <1>1, OpenIs
  <1>3. CASE I = {}
    <2>1. SelectInSeq(entries, LAMBDA e : e.name = n) = 0
      BY <1>3 DEF SelectInSeq
    <2>2. Find(zip, n) = None
      BY <2>1 DEF Find
    <2> QED  BY <1>2, <1>3, <2>2
  <1>4. CASE I # {}
    <2> DEFINE f == Min(I)
    <2>1. I \subseteq Nat
      BY <1>1
    <2>2. f \in I /\ \A y \in I : f <= y
      BY <1>4, <2>1, LeastOf
    <2>3. f \in 1..Len(entries) /\ entries[f].name = n
      BY <2>2
    <2>4. SelectInSeq(entries, LAMBDA e : e.name = n) = f
      BY <1>4 DEF SelectInSeq
    <2>5. \A k \in 1..Len(entries) : zip[k].name = n => f <= k
      BY <1>2, <2>2
    <2> HIDE DEF f, I
    <2>6. Find(zip, n) = entries[f]
      BY <2>3, <2>4 DEF Find
    <2>7. Find(zip, n) = zip[f] /\ zip[f] \in ZipEntry /\ zip[f].name = n
      BY <1>2, <2>3, <2>6
    <2>8. Find(zip, n) \in Range(zip) /\ Find(zip, n) # None
      BY <1>1, <1>2, <2>3, <2>7, DevicesAreTyped DEF Range
    <2>9. ASSUME NEW k \in 1..Len(entries), zip[k].name = n, \A j \in 1..(k - 1) : zip[j].name # n
          PROVE  f = k
      <3>1. f <= k /\ f \notin 1..(k - 1)
        BY <2>5, <2>7, <2>9
      <3> QED  BY <1>1, <2>3, <3>1
    <2> QED  BY <2>7, <2>8, <2>9
  <1> QED  BY <1>3, <1>4

(* The numbers of the classes files are names of as many entries.          *)
LEMMA AsManyEntries ==
  ASSUME NEW zip \in Seq(ZipEntry), NEW n \in Nat,
         \A j \in 1..n : \E i \in 1..Len(zip) : zip[i].name = j
  PROVE  n <= Len(zip)
  <1> DEFINE at1 == [j \in 1..n |-> CHOOSE i \in 1..Len(zip) : zip[i].name = j]
  <1>1. \A j \in 1..n : at1[j] \in 1..Len(zip) /\ zip[at1[j]].name = j
    OBVIOUS
  <1>2. at1 \in [1..n -> 1..Len(zip)]
    BY <1>1
  <1>3. \A i, j \in 1..n : at1[i] = at1[j] => i = j
    BY <1>1
  <1> HIDE DEF at1
  <1>4. /\ IsFiniteSet(1..n) /\ Cardinality(1..n) = n
        /\ IsFiniteSet(1..Len(zip)) /\ Cardinality(1..Len(zip)) = Len(zip)
    <2>1. Len(zip) \in Nat
      OBVIOUS
    <2>2. \A k \in Nat : IsFiniteSet(1..k) /\ Cardinality(1..k) = k
      BY FS_Interval
    <2> QED  BY <2>1, <2>2
  <1>5. at1 \in Injection(1..n, 1..Len(zip))
    BY <1>2, <1>3 DEF Injection, IsInjective
  <1> QED  BY <1>4, <1>5, FS_Injection

LEMMA ClassesAre ==
  ASSUME NEW zip \in Seq(ZipEntry)
  PROVE  /\ Classes(zip) \in Seq({x.dex : x \in ToSet(zip)} \cup {None})
         /\ \A k \in 1..Len(zip) : IsReached(zip, k) => zip[k].dex \in Range(Classes(zip))
  <1>1. Len(zip) \in Nat /\ DOMAIN zip = 1..Len(zip) /\ Range(zip) = ToSet(zip)
    BY DEF Range, ToSet
  <1>2. ASSUME NEW n \in 1..Len(zip), Find(zip, n) # None
        PROVE  Find(zip, n).dex \in {x.dex : x \in ToSet(zip)}
    BY <1>1, <1>2, FindIs
  <1>3. Classes(zip) \in Seq({x.dex : x \in ToSet(zip)} \cup {None})
    <2> DEFINE V(n) == IF (\A k \in 1..n : Find(zip, k) # None) /\ uncompress(Find(zip, n))
                       THEN Find(zip, n).dex ELSE None
               S == {x.dex : x \in ToSet(zip)} \cup {None}
    <2>1. \A n \in 1..Len(zip) : V(n) \in S
      <3> SUFFICES ASSUME NEW n \in 1..Len(zip) PROVE V(n) \in S
        OBVIOUS
      <3>1. n \in 1..n
        OBVIOUS
      <3> QED  BY <1>2, <3>1
    <2>2. Classes(zip) = [n \in 1..Len(zip) |-> V(n)]
      BY DEF Classes
    <2> HIDE DEF V, S
    <2>3. Classes(zip) \in Seq(S)
      BY <1>1, <2>1, <2>2
    <2> QED  BY <2>3 DEF S
  <1>4. ASSUME NEW k \in 1..Len(zip), IsReached(zip, k)
        PROVE  zip[k].dex \in Range(Classes(zip))
    <2> DEFINE n == zip[k].name
    <2>1. /\ zip[k] \in ZipEntry /\ n \in Nat \ {0} /\ k \in Nat
          /\ zip[k].sized /\ zip[k].intact /\ zip[k].method \in {0, 8}
      <3>1. zip[k] \in ZipEntry
        OBVIOUS
      <3>2. k \in 1..k
        OBVIOUS
      <3> QED  BY <1>4, <3>1, <3>2 DEF IsReached, ZipEntry
    <2>2. \A j \in 1..(n - 1) : \E i \in 1..Len(zip) :
              zip[i].name = j /\ \A l \in 1..(i - 1) : zip[l].sized
      BY <1>1, <1>4 DEF IsReached
    <2>3. \A l \in 1..(k - 1) : zip[l].sized
      BY <1>4, <2>1 DEF IsReached
    <2>4. k \in 1..Len(Open(zip)) /\ Find(zip, n) = zip[k]
      <3>1. k \in 1..Len(Open(zip))
        BY <2>3, OpenIs
      <3>2. \A j \in 1..(k - 1) : zip[j].name # n
        BY <1>4 DEF IsReached
      <3> QED  BY <3>1, <3>2, FindIs
    <2>5. \A j \in 1..n : Find(zip, j) # None
      <3> SUFFICES ASSUME NEW j \in 1..n PROVE Find(zip, j) # None
        OBVIOUS
      <3>1. CASE j = n
        BY <2>4, <3>1, FindIs
      <3>2. CASE j # n
        <4>1. j \in 1..(n - 1)
          BY <2>1, <3>2
        <4>2. PICK i \in 1..Len(zip) : zip[i].name = j /\ \A l \in 1..(i - 1) : zip[l].sized
          BY <2>2, <4>1
        <4>3. i \in 1..Len(Open(zip))
          BY <4>2, OpenIs
        <4> QED  BY <4>2, <4>3, FindIs
      <3> QED  BY <3>1, <3>2
    <2>6. n <= Len(zip)
      <3>1. \A j \in 1..n : \E i \in 1..Len(zip) : zip[i].name = j
        <4> SUFFICES ASSUME NEW j \in 1..n PROVE \E i \in 1..Len(zip) : zip[i].name = j
          OBVIOUS
        <4>1. CASE j = n
          BY <4>1
        <4>2. CASE j # n
          <5>1. j \in 1..(n - 1)
            BY <2>1, <4>2
          <5> QED  BY <2>2, <5>1
        <4> QED  BY <4>1, <4>2
      <3> QED  BY <2>1, <3>1, AsManyEntries
    <2>7. uncompress(Find(zip, n))
      BY <2>1, <2>4 DEF uncompress
    <2>8. n \in 1..Len(zip)
      BY <1>1, <2>1, <2>6
    <2>9. Classes(zip)[n] = zip[k].dex
      BY <2>4, <2>5, <2>7, <2>8 DEF Classes
    <2>10. DOMAIN Classes(zip) = 1..Len(zip)
      BY DEF Classes
    <2> QED  BY <2>8, <2>9, <2>10 DEF Range
  <1> QED  BY <1>3, <1>4

-----------------------------------------------------------------------------
(* Each image once.                                                        *)

LEMMA ClassesAreOnce ==
  ASSUME NEW zip \in Seq(ZipEntry), OnceEach([k \in DOMAIN zip |-> zip[k].dex]),
         NEW i \in 1..Len(zip), NEW j \in 1..Len(zip),
         Classes(zip)[i] = Classes(zip)[j], Classes(zip)[i] # None
  PROVE  i = j
  <1>1. DOMAIN zip = 1..Len(zip) /\ \A k \in 1..Len(zip) : zip[k] \in ZipEntry
    OBVIOUS
  <1>2. ASSUME NEW n \in 1..Len(zip), Classes(zip)[n] # None
        PROVE  \E k \in 1..Len(zip) : zip[k].dex = Classes(zip)[n] /\ zip[k].name = n
    <2>1. /\ \A k \in 1..n : Find(zip, k) # None
          /\ Classes(zip)[n] = Find(zip, n).dex
      BY <1>2 DEF Classes
    <2>2. n \in 1..n
      OBVIOUS
    <2>3. Find(zip, n) \in Range(zip) /\ Find(zip, n).name = n
      BY <2>1, <2>2, FindIs
    <2> QED  BY <1>1, <2>1, <2>3 DEF Range
  <1>3. PICK k \in 1..Len(zip) : zip[k].dex = Classes(zip)[i] /\ zip[k].name = i
    BY <1>2
  <1>4. PICK l \in 1..Len(zip) : zip[l].dex = Classes(zip)[j] /\ zip[l].name = j
    BY <1>2
  <1>5. zip[k].dex \in DOMAIN DexFile
    BY <1>1, <1>3 DEF ZipEntry
  <1>6. k = l
    BY <1>1, <1>3, <1>4, <1>5 DEF OnceEach
  <1> QED  BY <1>3, <1>4, <1>6

LEMMA ReverseIsOnce ==
  ASSUME NEW D, NEW s \in Seq(D),
         \A i, j \in 1..Len(s) : s[i] = s[j] /\ s[i] # None => i = j
  PROVE  /\ Len(Reverse(s)) = Len(s)
         /\ \A i, j \in 1..Len(s) :
                Reverse(s)[i] = Reverse(s)[j] /\ Reverse(s)[i] # None => i = j
  <1>1. Len(s) \in Nat
    OBVIOUS
  <1>2. DOMAIN Reverse(s) = 1..Len(s) /\ \A i \in 1..Len(s) : Reverse(s)[i] = s[(Len(s) - i) + 1]
    BY DEF Reverse
  <1>3. Len(Reverse(s)) = Len(s)
    <2>1. Reverse(s) \in Seq(D)
      BY ReverseIs
    <2> QED  BY <1>1, <1>2, <2>1
  <1>4. \A i \in 1..Len(s) : (Len(s) - i) + 1 \in 1..Len(s)
    BY <1>1
  <1> SUFFICES ASSUME NEW i \in 1..Len(s), NEW j \in 1..Len(s),
                      Reverse(s)[i] = Reverse(s)[j], Reverse(s)[i] # None
               PROVE  i = j
    BY <1>3
  <1>5. (Len(s) - i) + 1 = (Len(s) - j) + 1
    BY <1>2, <1>4
  <1> QED  BY <1>1, <1>5

LEMMA ImagesAreOnce ==
  ASSUME NEW D, NEW dexes \in Seq(D), NEW from,
         \A i, j \in 1..Len(dexes) : dexes[i] = dexes[j] /\ dexes[i] # None => i = j
  PROVE  IsInjective(Images(dexes, from))
  <1> DEFINE S == [dex : D \ {None}, from : {from}]
             Of(i) == IF dexes[i] = None THEN <<>> ELSE <<[dex |-> dexes[i], from |-> from]>>
             h == [i \in 1..Len(dexes) |-> Of(i)]
  <1>1. Len(dexes) \in Nat /\ \A i \in 1..Len(dexes) : dexes[i] \in D
    OBVIOUS
  <1>2. ASSUME NEW i \in 1..Len(dexes)
        PROVE  /\ Of(i) \in Seq(S) /\ IsInjective(Of(i))
               /\ \A x \in Range(Of(i)) : x.dex = dexes[i] /\ dexes[i] # None
    <2>1. CASE dexes[i] = None
      <3>1. Of(i) = <<>> /\ DOMAIN <<>> = {}
        BY <2>1
      <3> QED  BY <3>1 DEF Range, IsInjective
    <2>2. CASE dexes[i] # None
      <3> DEFINE x == [dex |-> dexes[i], from |-> from]
      <3>1. x \in S /\ x.dex = dexes[i]
        BY <1>1, <2>2
      <3>2. Of(i) = <<x>>
        BY <2>2
      <3> HIDE DEF x, S
      <3>3. <<x>> \in Seq(S) /\ Range(<<x>>) = {x} /\ DOMAIN <<x>> = {1}
        BY <3>1 DEF Range
      <3> QED  BY <2>2, <3>1, <3>2, <3>3 DEF IsInjective
    <2> QED  BY <2>1, <2>2
  <1> HIDE DEF Of
  <1>3. h \in Seq(Seq(S)) /\ Len(h) = Len(dexes) /\ \A i \in 1..Len(h) : h[i] = Of(i)
    <2>1. \A i \in 1..Len(dexes) : Of(i) \in Seq(S)
      BY <1>2
    <2> HIDE DEF S
    <2> QED  BY <1>1, <2>1
  <1>4. Images(dexes, from) = FlattenSeq(h)
    BY DEF Images, Of
  <1> HIDE DEF h, S
  <1>5. \A i \in 1..Len(h) : IsInjective(h[i])
    BY <1>2, <1>3
  <1>6. ASSUME NEW i \in 1..Len(h), NEW j \in 1..Len(h), i # j
        PROVE  Range(h[i]) \cap Range(h[j]) = {}
    <2> SUFFICES ASSUME NEW x \in Range(Of(i)), x \in Range(Of(j)) PROVE FALSE
      BY <1>3
    <2>1. x.dex = dexes[i] /\ x.dex = dexes[j] /\ dexes[i] # None
      BY <1>2, <1>3
    <2> QED  BY <1>3, <1>6, <2>1
  <1> QED  BY <1>3, <1>4, <1>5, <1>6, FlatInjective

-----------------------------------------------------------------------------
(* One element.                                                            *)

LEMMA InMemoryIs ==
  ASSUME NEW e \in Element
  PROVE  /\ InMemory(e) \in Seq([dex : ToSet(e.dexes) \ {None, Compact}, from : {"memory"}])
         /\ ~InMemoryAll(e) => InMemory(e) = <<>>
         /\ InMemoryAll(e) => /\ InMemory(e) # <<>>
                              /\ \A d \in ToSet(e.dexes) \ {None} :
                                     \E x \in Range(InMemory(e)) : x.dex = d
  <1> DEFINE D == ToSet(e.dexes)
  <1>1. e.dexes \in Seq(D)
    BY DEF Element, ToSet
  <1>2. CASE e.oat \/ Compact \in D
    <2>1. InMemory(e) = <<>> /\ ~InMemoryAll(e)
      BY <1>2 DEF InMemory, InMemoryAll
    <2> QED  BY <2>1
  <1>3. CASE ~(e.oat \/ Compact \in D)
    <2>1. InMemory(e) = Images(Reverse(e.dexes), "memory")
      BY <1>3 DEF InMemory
    <2>2. Reverse(e.dexes) \in Seq(D) /\ Range(Reverse(e.dexes)) = D
      BY <1>1, ReverseIs
    <2> DEFINE s == InMemory(e)
    <2>3. s \in Seq(ImagesIn(D, "memory")) /\ Range(s) = ImagesIn(D, "memory")
      BY <2>1, <2>2, ImagesAre
    <2>4. ImagesIn(D, "memory") = [dex : D \ {None, Compact}, from : {"memory"}]
      <3>1. D \ {None} = D \ {None, Compact}
        BY <1>3
      <3> QED  BY <3>1 DEF ImagesIn
    <2>5. InMemoryAll(e) <=> D \ {None} # {}
      <3>1. InMemoryAll(e) <=> D # {None} /\ e.dexes # <<>>
        BY <1>3 DEF InMemoryAll
      <3>2. e.dexes = <<>> <=> D = {}
        <4>1. D = Range(e.dexes)
          BY DEF ToSet, Range
        <4> QED  BY <1>1, <4>1, EmptyIs
      <3> QED  BY <3>1, <3>2
    <2>6. ASSUME NEW d \in D \ {None} PROVE \E x \in Range(s) : x.dex = d
      <3>1. [dex |-> d, from |-> "memory"] \in Range(s)
        BY <2>3 DEF ImagesIn
      <3> QED  BY <3>1
    <2>7. D \ {None} = {} => Range(s) = {}
      BY <2>3 DEF ImagesIn
    <2>8. D \ {None} # {} => Range(s) # {}
      BY <2>6
    <2> HIDE DEF s, D
    <2>9. s = <<>> <=> Range(s) = {}
      BY <2>3, EmptyIs
    <2>10. /\ s \in Seq([dex : D \ {None, Compact}, from : {"memory"}])
           /\ ~InMemoryAll(e) => s = <<>>
           /\ InMemoryAll(e) => s # <<>> /\ \A d \in D \ {None} : \E x \in Range(s) : x.dex = d
      BY <2>3, <2>4, <2>5, <2>6, <2>7, <2>8, <2>9
    <2> QED  BY <2>10 DEF s, D
  <1> QED  BY <1>2, <1>3

LEMMA FromFileIs ==
  ASSUME NEW e \in Element
  PROVE  /\ FromFile(e.file) \in Seq([dex : DexesOf(e), from : {"file"}])
         /\ \A d \in DexesOf(e) : ~InMemoryAll(e) /\ CanBeHad(e, d) =>
                \E x \in Range(FromFile(e.file)) : x.dex = d
  <1>1. CASE e.file \in {None, Unmappable}
    <2>1. FromFile(e.file) = <<>>
      BY <1>1 DEF FromFile, MemMap
    <2> QED  BY <1>1, <2>1 DEF CanBeHad
  <1>2. CASE e.file \notin {None, Unmappable} /\ "raw" \in DOMAIN e.file
    <2>1. e.file \in [raw : DOMAIN DexFile]
      BY <1>2 DEF Element, File
    <2>2. ~InZip(e)
      BY <2>1 DEF InZip
    <2> DEFINE r == e.file.raw
    <2>3. r \in DOMAIN DexFile /\ r # None
      BY <2>1, DevicesAreTyped
    <2>4. r \in DexesOf(e)
      BY <1>2, <2>2 DEF DexesOf
    <2> DEFINE one == <<r>>
    <2>5. FromFile(e.file) = Images(one, "file")
      BY <1>2 DEF FromFile, MemMap
    <2>6. one \in Seq({r}) /\ Range(one) = {r}
      BY DEF Range
    <2> HIDE DEF r, one
    <2>7. /\ FromFile(e.file) \in Seq(ImagesIn({r}, "file"))
          /\ Range(FromFile(e.file)) = ImagesIn({r}, "file")
      <3> DEFINE D == {r}
      <3>1. one \in Seq(D) /\ Range(one) = D
        BY <2>6
      <3> HIDE DEF D
      <3>2. /\ Images(one, "file") \in Seq(ImagesIn(D, "file"))
            /\ Range(Images(one, "file")) = ImagesIn(Range(one), "file")
        BY <3>1, ImagesAre
      <3> QED  BY <2>5, <3>1, <3>2 DEF D
    <2>8. \A d \in DexesOf(e) : ~InMemoryAll(e) /\ CanBeHad(e, d) => d = r
      BY <2>2 DEF CanBeHad, r
    <2>9. [dex |-> r, from |-> "file"] \in Range(FromFile(e.file))
      BY <2>3, <2>7 DEF ImagesIn
    <2>10. ImagesIn({r}, "file") \subseteq [dex : DexesOf(e), from : {"file"}]
      BY <2>4 DEF ImagesIn
    <2>11. FromFile(e.file) \in Seq([dex : DexesOf(e), from : {"file"}])
      BY <2>7, <2>10, InLarger
    <2> QED  BY <2>8, <2>9, <2>11
  <1>3. CASE e.file \notin {None, Unmappable} /\ "raw" \notin DOMAIN e.file
    <2>1. e.file \in [zip : Seq(ZipEntry)]
      BY <1>3 DEF Element, File
    <2>2. InZip(e)
      BY <1>3, <2>1 DEF InZip
    <2> DEFINE zip == e.file.zip
               Z == {x.dex : x \in ToSet(zip)}
    <2>3. zip \in Seq(ZipEntry)
      BY <2>1
    <2>4. Z \ {None} \subseteq DexesOf(e)
      BY <1>3, <2>2 DEF DexesOf
    <2>5. FromFile(e.file) = Images(Classes(zip), "file")
      BY <1>3 DEF FromFile, MemMap
    <2>6. \A d \in DexesOf(e) : ~InMemoryAll(e) /\ CanBeHad(e, d) =>
              \E k \in 1..Len(zip) : zip[k].dex = d /\ IsReached(zip, k)
      BY <2>2, <2>3 DEF CanBeHad
    <2> HIDE DEF zip
    <2>7. Classes(zip) \in Seq(Z \cup {None})
      BY <2>3, ClassesAre
    <2>8. \A d \in DexesOf(e) : ~InMemoryAll(e) /\ CanBeHad(e, d) => d \in Range(Classes(zip))
      BY <2>3, <2>6, ClassesAre
    <2> HIDE DEF Z
    <2>9. /\ FromFile(e.file) \in Seq(ImagesIn(Z \cup {None}, "file"))
          /\ Range(FromFile(e.file)) = ImagesIn(Range(Classes(zip)), "file")
      BY <2>5, <2>7, ImagesAre
    <2>10. ImagesIn(Z \cup {None}, "file") \subseteq [dex : DexesOf(e), from : {"file"}]
      BY <2>4 DEF ImagesIn
    <2>11. FromFile(e.file) \in Seq([dex : DexesOf(e), from : {"file"}])
      BY <2>9, <2>10, InLarger
    <2>12. \A d \in DexesOf(e) : d # None
      BY <2>2, DevicesAreTyped DEF DexesOf
    <2>13. ASSUME NEW d \in DexesOf(e), ~InMemoryAll(e), CanBeHad(e, d)
           PROVE  \E x \in Range(FromFile(e.file)) : x.dex = d
      <3>1. [dex |-> d, from |-> "file"] \in Range(FromFile(e.file))
        BY <2>8, <2>9, <2>12, <2>13 DEF ImagesIn
      <3> QED  BY <3>1
    <2> QED  BY <2>11, <2>13
  <1> QED  BY <1>1, <1>2, <1>3

(* Of an element the dex files on the device are read and no others, and   *)
(* all of them that can be had.                                            *)
LEMMA ImagesOfIs ==
  ASSUME NEW e \in Element \cup {None}
  PROVE  /\ e = None => ImagesOf(e) = <<>>
         /\ e # None => /\ ImagesOf(e) \in Seq([dex : DexesOf(e), from : {"memory", "file"}])
                        /\ \A d \in DexesOf(e) : CanBeHad(e, d) =>
                               \E x \in Range(ImagesOf(e)) : x.dex = d
  <1>1. CASE e = None
    BY <1>1 DEF ImagesOf
  <1>2. CASE e # None
    <2>1. e \in Element
      BY <1>2
    <2>2. CASE InMemoryAll(e)
      <3>1. ImagesOf(e) = InMemory(e)
        BY <1>2, <2>1, <2>2, InMemoryIs DEF ImagesOf
      <3>3. ImagesOf(e) \in Seq([dex : DexesOf(e), from : {"memory", "file"}])
        <4> DEFINE A == [dex : ToSet(e.dexes) \ {None, Compact}, from : {"memory"}]
                   B == [dex : DexesOf(e), from : {"memory", "file"}]
        <4>1. InMemory(e) \in Seq(A)
          BY <2>1, InMemoryIs
        <4>2. A \subseteq B
          BY DEF DexesOf
        <4> HIDE DEF A, B
        <4>3. InMemory(e) \in Seq(B)
          BY <4>1, <4>2, InLarger
        <4> QED  BY <3>1, <4>3 DEF B
      <3>4. \A d \in DexesOf(e) : CanBeHad(e, d) => d \in ToSet(e.dexes)
        BY <2>2 DEF CanBeHad
      <3>5. \A d \in DexesOf(e) : d # None
        BY <2>1, DevicesAreTyped DEF DexesOf, Element, File, InZip
      <3>6. \A d \in ToSet(e.dexes) \ {None} : \E x \in Range(InMemory(e)) : x.dex = d
        BY <2>1, <2>2, InMemoryIs
      <3> QED  BY <1>2, <3>1, <3>3, <3>4, <3>5, <3>6
    <2>3. CASE ~InMemoryAll(e)
      <3>1. ImagesOf(e) = FromFile(e.file)
        BY <1>2, <2>1, <2>3, InMemoryIs DEF ImagesOf
      <3>2. [dex : DexesOf(e), from : {"file"}] \subseteq [dex : DexesOf(e), from : {"memory", "file"}]
        OBVIOUS
      <3>3. FromFile(e.file) \in Seq([dex : DexesOf(e), from : {"file"}])
        BY <2>1, FromFileIs
      <3>4. FromFile(e.file) \in Seq([dex : DexesOf(e), from : {"memory", "file"}])
        BY <3>2, <3>3, InLarger
      <3> QED  BY <1>2, <2>1, <2>3, <3>1, <3>4, FromFileIs
    <2> QED  BY <2>2, <2>3
  <1> QED  BY <1>1, <1>2

(* Images that differ in their dex files.                                  *)
Apart(s) == \A i, j \in DOMAIN s : s[i].dex = s[j].dex => i = j

LEMMA FromOnePlace ==
  ASSUME NEW D, NEW from, NEW s \in Seq([dex : D, from : {from}]), IsInjective(s)
  PROVE  Apart(s)
  <1> DEFINE S == [dex : D, from : {from}]
  <1>1. \A x, y \in S : x.dex = y.dex => x = y
    OBVIOUS
  <1> HIDE DEF S
  <1>2. s \in Seq(S)
    BY DEF S
  <1>3. \A i \in DOMAIN s : s[i] \in S
    BY <1>2
  <1> QED  BY <1>1, <1>3 DEF Apart, IsInjective

LEMMA ApartTogether ==
  ASSUME NEW S, NEW s \in Seq(S), NEW t \in Seq(S), Apart(s), Apart(t),
         \A x \in Range(s), y \in Range(t) : x.dex # y.dex
  PROVE  Apart(s \o t)
  <1>1. /\ Len(s) \in Nat /\ Len(t) \in Nat
        /\ DOMAIN s = 1..Len(s) /\ DOMAIN t = 1..Len(t)
        /\ DOMAIN (s \o t) = 1..(Len(s) + Len(t))
    OBVIOUS
  <1>2. ASSUME NEW i \in 1..(Len(s) + Len(t))
        PROVE  \/ i \in 1..Len(s) /\ (s \o t)[i] = s[i] /\ s[i] \in Range(s)
               \/ /\ i \notin 1..Len(s) /\ i - Len(s) \in 1..Len(t)
                  /\ (s \o t)[i] = t[i - Len(s)] /\ t[i - Len(s)] \in Range(t)
    <2>1. CASE i <= Len(s)
      BY <1>1, <2>1 DEF Range
    <2>2. CASE i > Len(s)
      <3>1. i - Len(s) \in 1..Len(t) /\ (s \o t)[i] = t[i - Len(s)]
        BY <1>1, <2>2
      <3> QED  BY <1>1, <2>2, <3>1 DEF Range
    <2> QED  BY <1>1, <2>1, <2>2
  <1> SUFFICES ASSUME NEW i \in 1..(Len(s) + Len(t)), NEW j \in 1..(Len(s) + Len(t)),
                      (s \o t)[i].dex = (s \o t)[j].dex
               PROVE  i = j
    BY <1>1 DEF Apart
  <1>3. CASE i \in 1..Len(s) /\ j \in 1..Len(s)
    BY <1>1, <1>2, <1>3 DEF Apart
  <1>4. CASE i \notin 1..Len(s) /\ j \notin 1..Len(s)
    <2>1. i - Len(s) \in 1..Len(t) /\ j - Len(s) \in 1..Len(t)
          /\ t[i - Len(s)].dex = t[j - Len(s)].dex
      BY <1>2, <1>4
    <2>2. i - Len(s) = j - Len(s)
      BY <1>1, <2>1 DEF Apart
    <2> QED  BY <1>1, <2>2
  <1>5. CASE i \in 1..Len(s) /\ j \notin 1..Len(s)
    <2>1. (s \o t)[i] \in Range(s) /\ (s \o t)[j] \in Range(t)
      BY <1>2, <1>5
    <2> QED  BY <2>1
  <1>6. CASE i \notin 1..Len(s) /\ j \in 1..Len(s)
    <2>1. (s \o t)[i] \in Range(t) /\ (s \o t)[j] \in Range(s)
      BY <1>2, <1>6
    <2> QED  BY <2>1
  <1> QED  BY <1>3, <1>4, <1>5, <1>6

(* Of an element each dex file is read once: those in the cookie or those  *)
(* in the file, never both.                                                *)
LEMMA InMemoryIsApart ==
  ASSUME NEW e \in Element, OnceEach(e.dexes)
  PROVE  Apart(InMemory(e))
  <1> DEFINE D == ToSet(e.dexes)
  <1>1. e.dexes \in Seq(DOMAIN DexFile \cup {None, Compact}) /\ e.dexes \in Seq(D)
    BY DEF Element, ToSet
  <1>2. CASE e.oat \/ Compact \in D
    <2>1. InMemory(e) = <<>> /\ DOMAIN <<>> = {}
      BY <1>2 DEF InMemory
    <2> QED  BY <2>1 DEF Apart
  <1>3. CASE ~(e.oat \/ Compact \in D)
    <2>1. InMemory(e) = Images(Reverse(e.dexes), "memory")
      BY <1>3 DEF InMemory
    <2>2. \A i, j \in 1..Len(e.dexes) : e.dexes[i] = e.dexes[j] /\ e.dexes[i] # None => i = j
      <3> SUFFICES ASSUME NEW i \in 1..Len(e.dexes), NEW j \in 1..Len(e.dexes),
                          e.dexes[i] = e.dexes[j], e.dexes[i] # None
                   PROVE  i = j
        OBVIOUS
      <3>1. DOMAIN e.dexes = 1..Len(e.dexes) /\ e.dexes[i] \in DOMAIN DexFile \cup {None, Compact}
        BY <1>1
      <3>2. e.dexes[i] \in D
        BY <3>1 DEF ToSet
      <3> QED  BY <1>3, <3>1, <3>2 DEF OnceEach
    <2> HIDE DEF D
    <2>3. Reverse(e.dexes) \in Seq(D)
      BY <1>1, ReverseIs
    <2>4. /\ Len(Reverse(e.dexes)) = Len(e.dexes)
          /\ \A i, j \in 1..Len(e.dexes) :
                 Reverse(e.dexes)[i] = Reverse(e.dexes)[j] /\ Reverse(e.dexes)[i] # None => i = j
      BY <1>1, <2>2, ReverseIsOnce
    <2>5. IsInjective(InMemory(e))
      BY <2>1, <2>3, <2>4, ImagesAreOnce
    <2>6. InMemory(e) \in Seq([dex : D \ {None}, from : {"memory"}])
      BY <2>1, <2>3, ImagesAre DEF ImagesIn
    <2> QED  BY <2>5, <2>6, FromOnePlace
  <1> QED  BY <1>2, <1>3

LEMMA FromFileIsApart ==
  ASSUME NEW e \in Element,
         InZip(e) => OnceEach([k \in DOMAIN e.file.zip |-> e.file.zip[k].dex])
  PROVE  Apart(FromFile(e.file))
  <1>1. CASE e.file \in {None, Unmappable}
    <2>1. FromFile(e.file) = <<>> /\ DOMAIN <<>> = {}
      BY <1>1 DEF FromFile, MemMap
    <2> QED  BY <2>1 DEF Apart
  <1>2. CASE e.file \notin {None, Unmappable}
    <2>1. FromFile(e.file) \in Seq([dex : DexesOf(e), from : {"file"}])
      BY FromFileIs
    <2>2. IsInjective(FromFile(e.file))
      <3>1. CASE "raw" \in DOMAIN e.file
        <4> DEFINE D == {e.file.raw}
                   one == <<e.file.raw>>
        <4>1. FromFile(e.file) = Images(one, "file")
          BY <1>2, <3>1 DEF FromFile, MemMap
        <4>2. one \in Seq(D) /\ Len(one) = 1
          OBVIOUS
        <4> HIDE DEF D, one
        <4>3. \A i, j \in 1..Len(one) : i = j
          BY <4>2
        <4> QED  BY <4>1, <4>2, <4>3, ImagesAreOnce
      <3>2. CASE "raw" \notin DOMAIN e.file
        <4>1. e.file \in [zip : Seq(ZipEntry)]
          BY <1>2, <3>2 DEF Element, File
        <4>2. InZip(e)
          BY <1>2, <4>1 DEF InZip
        <4> DEFINE zip == e.file.zip
        <4>3. zip \in Seq(ZipEntry) /\ OnceEach([k \in DOMAIN zip |-> zip[k].dex])
          BY <4>1, <4>2
        <4>4. FromFile(e.file) = Images(Classes(zip), "file")
          BY <1>2, <3>2 DEF FromFile, MemMap
        <4> HIDE DEF zip
        <4> DEFINE D == {x.dex : x \in ToSet(zip)} \cup {None}
        <4>5. Classes(zip) \in Seq(D)
          BY <4>3, ClassesAre
        <4>6. Len(Classes(zip)) = Len(zip)
          <5>1. DOMAIN Classes(zip) = 1..Len(zip) /\ Len(zip) \in Nat
            BY <4>3 DEF Classes
          <5> HIDE DEF D
          <5> QED  BY <4>5, <5>1
        <4>7. \A i, j \in 1..Len(Classes(zip)) :
                  Classes(zip)[i] = Classes(zip)[j] /\ Classes(zip)[i] # None => i = j
          BY <4>3, <4>6, ClassesAreOnce
        <4> HIDE DEF D
        <4> QED  BY <4>4, <4>5, <4>7, ImagesAreOnce
      <3> QED  BY <3>1, <3>2
    <2> QED  BY <2>1, <2>2, FromOnePlace
  <1> QED  BY <1>1, <1>2

LEMMA ImagesOfIsApart ==
  ASSUME NEW e \in Element, OnceEach(e.dexes),
         InZip(e) => OnceEach([k \in DOMAIN e.file.zip |-> e.file.zip[k].dex])
  PROVE  Apart(ImagesOf(e))
  <1>1. e # None
    BY DevicesAreTyped
  <1> QED  BY <1>1, InMemoryIsApart, FromFileIsApart DEF ImagesOf

-----------------------------------------------------------------------------
(* The searches.                                                           *)

LEMMA AllDexesAreDexes ==
  ASSUME device \in DOMAIN Device
  PROVE  AllDexes \subseteq DOMAIN DexFile
  <1> SUFFICES ASSUME NEW e \in Paths, NEW d \in DexesOf(e) PROVE d \in DOMAIN DexFile
    BY DEF AllDexes
  <1>1. e \in Element
    <2>1. Elements \in Seq(Element \cup {None})
      BY ElementsAreTyped
    <2>2. ToSet(Elements) \subseteq Element \cup {None}
      BY <2>1 DEF ToSet
    <2> QED  BY <2>2 DEF Paths
  <1>2. ToSet(e.dexes) \subseteq DOMAIN DexFile \cup {None, Compact}
    BY <1>1 DEF Element, ToSet
  <1>3. CASE e.file \in {None, Unmappable}
    BY <1>2, <1>3 DEF DexesOf
  <1>4. CASE e.file \notin {None, Unmappable} /\ e.file \in [raw : DOMAIN DexFile]
    <2>1. ~InZip(e)
      BY <1>4 DEF InZip
    <2>2. DexesOf(e) = (ToSet(e.dexes) \ {None, Compact}) \cup {e.file.raw}
      BY <1>4, <2>1 DEF DexesOf
    <2> QED  BY <1>2, <1>4, <2>2
  <1>5. CASE e.file \notin {None, Unmappable} /\ e.file \in [zip : Seq(ZipEntry)]
    <2>1. InZip(e)
      BY <1>5 DEF InZip
    <2>2. DexesOf(e) = (ToSet(e.dexes) \ {None, Compact}) \cup ({x.dex : x \in ToSet(e.file.zip)} \ {None})
      BY <1>5, <2>1 DEF DexesOf
    <2>3. e.file.zip \in Seq(ZipEntry)
      BY <1>5
    <2>4. \A x \in ToSet(e.file.zip) : x \in ZipEntry
      BY <2>3 DEF ToSet
    <2>5. \A x \in ZipEntry : x.dex \in DOMAIN DexFile \cup {None}
      BY DEF ZipEntry
    <2> QED  BY <1>2, <2>2, <2>4, <2>5
  <1> QED  BY <1>1, <1>3, <1>4, <1>5 DEF Element, File

LEMMA RefsArePairs ==
  ASSUME NEW code, NEW i
  PROVE  /\ \A x \in ScanRefs(code, i) : x = <<x[1], x[2]>>
         /\ \A x \in ParseRefs(code, i) : x = <<x[1], x[2]>>
  <1>1. \A x \in ScanRefs(code, i) : x = <<x[1], x[2]>>
    BY DEF ScanRefs
  <1>2. \A x \in ParseRefs(code, i) : x = <<x[1], x[2]>>
    BY DEF ParseRefs
  <1> QED  BY <1>1, <1>2

LEMMA RefsOfKind ==
  ASSUME NEW code, NEW id
  PROVE  /\ \A kinds : id \in ScanRefsOfKind(code, kinds) <=>
                \E k \in kinds : \E i \in ScanVisits(code) : <<k, id>> \in ScanRefs(code, i)
         /\ \A kind : id \in ParseRefsOfKind(code, kind) <=>
                \E i \in ParseVisits(code) : <<kind, id>> \in ParseRefs(code, i)
  <1>1. ASSUME NEW kinds
        PROVE  id \in ScanRefsOfKind(code, kinds) <=>
                   \E k \in kinds : \E i \in ScanVisits(code) : <<k, id>> \in ScanRefs(code, i)
    <2>1. ASSUME id \in ScanRefsOfKind(code, kinds)
          PROVE  \E k \in kinds : \E i \in ScanVisits(code) : <<k, id>> \in ScanRefs(code, i)
      <3>1. PICK x \in ScanMethodRefs(code) : x[1] \in kinds /\ x[2] = id
        BY <2>1 DEF ScanRefsOfKind
      <3>2. PICK i \in ScanVisits(code) : x \in ScanRefs(code, i)
        BY DEF ScanMethodRefs
      <3>3. x = <<x[1], x[2]>>
        BY <3>2, RefsArePairs
      <3> QED  BY <3>1, <3>2, <3>3
    <2>2. ASSUME NEW k \in kinds, NEW i \in ScanVisits(code), <<k, id>> \in ScanRefs(code, i)
          PROVE  id \in ScanRefsOfKind(code, kinds)
      <3>1. <<k, id>> \in ScanMethodRefs(code)
        BY <2>2 DEF ScanMethodRefs
      <3>2. <<k, id>>[1] = k /\ <<k, id>>[2] = id
        OBVIOUS
      <3> QED  BY <3>1, <3>2 DEF ScanRefsOfKind
    <2> QED  BY <2>1, <2>2
  <1>2. ASSUME NEW kind
        PROVE  id \in ParseRefsOfKind(code, kind) <=>
                   \E i \in ParseVisits(code) : <<kind, id>> \in ParseRefs(code, i)
    <2>1. ASSUME id \in ParseRefsOfKind(code, kind)
          PROVE  \E i \in ParseVisits(code) : <<kind, id>> \in ParseRefs(code, i)
      <3>1. PICK i \in ParseVisits(code) : \E x \in ParseRefs(code, i) : x[1] = kind /\ x[2] = id
        BY <2>1 DEF ParseRefsOfKind
      <3>2. PICK x \in ParseRefs(code, i) : x[1] = kind /\ x[2] = id
        BY <3>1
      <3>3. x = <<x[1], x[2]>>
        BY RefsArePairs
      <3> QED  BY <3>2, <3>3
    <2>2. ASSUME NEW i \in ParseVisits(code), <<kind, id>> \in ParseRefs(code, i)
          PROVE  id \in ParseRefsOfKind(code, kind)
      <3>1. <<kind, id>>[1] = kind /\ <<kind, id>>[2] = id
        OBVIOUS
      <3> QED  BY <2>2, <3>1 DEF ParseRefsOfKind
    <2> QED  BY <2>1, <2>2
  <1> QED  BY <1>1, <1>2

(* The scan of a method and the parser's walk over it find the same.       *)
LEMMA SameRefs ==
  ASSUME NEW code, IsCode(code)
  PROVE  /\ ScanRefsOfKind(code, {"string"}) = ParseRefsOfKind(code, "StringRef")
         /\ ScanRefsOfKind(code, {"get", "set"}) = ParseRefsOfKind(code, "FieldRef")
         /\ ScanRefsOfKind(code, {"invoke"}) \subseteq ParseRefsOfKind(code, "MethodRef")
  <1>1. ScanVisits(code) = ParseVisits(code)
    BY VisitsAgree
  <1>2. \A id : id \in ScanRefsOfKind(code, {"string"}) <=> id \in ParseRefsOfKind(code, "StringRef")
    <2> TAKE id
    <2>1. \A i : <<"string", id>> \in ScanRefs(code, i) <=> <<"StringRef", id>> \in ParseRefs(code, i)
      BY StringsAgree
    <2>2. id \in ScanRefsOfKind(code, {"string"})
            <=> \E i \in ScanVisits(code) : <<"string", id>> \in ScanRefs(code, i)
      <3> DEFINE K == {"string"}
      <3> HIDE DEF K
      <3>1. id \in ScanRefsOfKind(code, K)
              <=> \E k \in K : \E i \in ScanVisits(code) : <<k, id>> \in ScanRefs(code, i)
        BY RefsOfKind
      <3> QED  BY <3>1 DEF K
    <2>3. id \in ParseRefsOfKind(code, "StringRef")
            <=> \E i \in ParseVisits(code) : <<"StringRef", id>> \in ParseRefs(code, i)
      BY RefsOfKind
    <2> QED  BY <1>1, <2>1, <2>2, <2>3
  <1>3. \A id : id \in ScanRefsOfKind(code, {"get", "set"}) <=> id \in ParseRefsOfKind(code, "FieldRef")
    <2> TAKE id
    <2>1. \A i : \/ <<"get", id>> \in ScanRefs(code, i)
                 \/ <<"set", id>> \in ScanRefs(code, i)
                 <=> <<"FieldRef", id>> \in ParseRefs(code, i)
      BY FieldsAgree
    <2>2. id \in ScanRefsOfKind(code, {"get", "set"})
            <=> \E i \in ScanVisits(code) : \/ <<"get", id>> \in ScanRefs(code, i)
                                            \/ <<"set", id>> \in ScanRefs(code, i)
      <3> DEFINE K == {"get", "set"}
      <3> HIDE DEF K
      <3>1. id \in ScanRefsOfKind(code, K)
              <=> \E k \in K : \E i \in ScanVisits(code) : <<k, id>> \in ScanRefs(code, i)
        BY RefsOfKind
      <3> QED  BY <3>1 DEF K
    <2>3. id \in ParseRefsOfKind(code, "FieldRef")
            <=> \E i \in ParseVisits(code) : <<"FieldRef", id>> \in ParseRefs(code, i)
      BY RefsOfKind
    <2> QED  BY <1>1, <2>1, <2>2, <2>3
  <1>4. \A id : id \in ScanRefsOfKind(code, {"invoke"}) => id \in ParseRefsOfKind(code, "MethodRef")
    <2> TAKE id
    <2>1. \A i : <<"invoke", id>> \in ScanRefs(code, i) => <<"MethodRef", id>> \in ParseRefs(code, i)
      BY CallsAreParsed
    <2>2. id \in ScanRefsOfKind(code, {"invoke"})
            <=> \E i \in ScanVisits(code) : <<"invoke", id>> \in ScanRefs(code, i)
      <3> DEFINE K == {"invoke"}
      <3> HIDE DEF K
      <3>1. id \in ScanRefsOfKind(code, K)
              <=> \E k \in K : \E i \in ScanVisits(code) : <<k, id>> \in ScanRefs(code, i)
        BY RefsOfKind
      <3> QED  BY <3>1 DEF K
    <2>3. id \in ParseRefsOfKind(code, "MethodRef")
            <=> \E i \in ParseVisits(code) : <<"MethodRef", id>> \in ParseRefs(code, i)
      BY RefsOfKind
    <2> QED  BY <1>1, <2>1, <2>2, <2>3
  <1> QED  BY <1>2, <1>3, <1>4

LEMMA MethodAt ==
  ASSUME NEW d \in DOMAIN DexFile
  PROVE  /\ DOMAIN Methods(d) = 1..Len(Methods(d)) /\ Len(Methods(d)) \in Nat
         /\ \A k \in DOMAIN Methods(d) : Methods(d)[k] \in MethodsOf(d)
  <1>1. Methods(d) \in Seq(MethodIn(d))
    BY DexFilesAreTyped DEF Methods
  <1> QED  BY <1>1 DEF MethodsOf, ToSet

(* The strings a method is found by are those of its source.               *)
LEMMA UsesIsTruth ==
  ASSUME NEW d \in DOMAIN DexFile, NEW k \in DOMAIN Methods(d), NEW s
  PROVE  Uses(d, k, s) <=> s \in Methods(d)[k].truth
  <1> DEFINE m == Methods(d)[k]
             strings == DexFile[d].strings
             R == ParseRefsOfKind(m.code, "StringRef")
  <1>1. m \in MethodsOf(d)
    BY MethodAt
  <1>2. /\ IsCode(m.code) /\ R \subseteq 0..(Len(strings) - 1)
        /\ m.truth = {strings[i + 1] : i \in R}
    BY <1>1, CodeIsOfTheSource
  <1>3. strings \in Seq(STRING)
    BY DexFilesAreTyped
  <1>4. Len(strings) \in Nat /\ DOMAIN strings = 1..Len(strings)
    BY <1>3
  <1>5. Scanned[d][k] = ScanMethodRefs(m.code)
    BY DEF Scanned
  <1>6. \A id : <<"string", id>> \in ScanMethodRefs(m.code) <=> id \in R
    <2> TAKE id
    <2>1. <<"string", id>> \in ScanMethodRefs(m.code)
            <=> \E i \in ParseVisits(m.code) : <<"StringRef", id>> \in ParseRefs(m.code, i)
      BY <1>2, MethodStringsAgree
    <2> QED  BY <2>1, RefsOfKind
  <1>7. Uses(d, k, s) <=> \E i \in 1..Len(strings) : strings[i] = s /\ i - 1 \in R
    BY <1>4, <1>5, <1>6 DEF Uses
  <1> HIDE DEF R, strings, m
  <1>8. ASSUME NEW i \in 1..Len(strings), strings[i] = s, i - 1 \in R
        PROVE  s \in m.truth
    <2>1. (i - 1) + 1 = i
      BY <1>4
    <2> QED  BY <1>2, <1>8, <2>1
  <1>9. ASSUME NEW i \in R, strings[i + 1] = s
        PROVE  \E j \in 1..Len(strings) : strings[j] = s /\ j - 1 \in R
    <2>1. i + 1 \in 1..Len(strings) /\ (i + 1) - 1 = i
      BY <1>2, <1>4
    <2> QED  BY <1>9, <2>1
  <1> QED  BY <1>2, <1>7, <1>8, <1>9 DEF m

(* What is read is on the device.                                          *)
From == {"memory", "file", "garbage"}
LoadInv ==
    /\ device \in DOMAIN Device
    /\ at \in Nat
    /\ images \in Seq([dex : AllDexes, from : From])

LEMMA ImageAt ==
  ASSUME LoadInv
  PROVE  /\ DOMAIN images = 1..Len(images) /\ Len(images) \in Nat
         /\ \A i \in 1..Len(images) : /\ images[i] \in ToSet(images)
                                      /\ images[i].dex \in AllDexes
                                      /\ images[i].dex \in DOMAIN DexFile
  <1>1. images \in Seq([dex : AllDexes, from : From])
    BY DEF LoadInv
  <1>2. DOMAIN images = 1..Len(images) /\ Len(images) \in Nat
    BY <1>1
  <1>3. \A i \in 1..Len(images) : images[i] \in [dex : AllDexes, from : From]
    <2> DEFINE S == [dex : AllDexes, from : From]
    <2>1. images \in Seq(S)
      BY <1>1
    <2> HIDE DEF S
    <2>2. \A i \in 1..Len(images) : images[i] \in S
      BY <2>1
    <2> QED  BY <2>2 DEF S
  <1>4. \A i \in 1..Len(images) : images[i] \in ToSet(images)
    BY <1>2 DEF ToSet
  <1>5. AllDexes \subseteq DOMAIN DexFile
    BY AllDexesAreDexes DEF LoadInv
  <1> QED  BY <1>2, <1>3, <1>4, <1>5

(* A method is decoded as one of its namesakes, on the device.             *)
LEMMA DecodedIsNamesake ==
  ASSUME LoadInv, NEW x \in 1..Len(images), IsReadable(images[x]),
         NEW m \in MethodsOf(images[x].dex)
  PROVE  \E d \in AllDexes : /\ d \in DOMAIN DexFile
                             /\ Decoded(m) \in MethodsOf(d) /\ AreNamesakes(m, Decoded(m))
  <1> DEFINE I == {i \in 1..Len(images) : IsReadable(images[i]) /\ Namesakes(images[i].dex, m) # {}}
             i0 == Min(I)
             d == images[i0].dex
             N == Namesakes(d, m)
  <1>1. x \in I
    <2>1. images[x].dex \in DOMAIN DexFile
      BY ImageAt
    <2>2. PICK k \in DOMAIN Methods(images[x].dex) : Methods(images[x].dex)[k] = m
      BY DEF MethodsOf, ToSet
    <2>3. k \in Namesakes(images[x].dex, m)
      BY <2>2 DEF Namesakes, AreNamesakes
    <2> QED  BY <2>3
  <1>2. i0 \in I
    <2>1. I \subseteq Nat
      BY ImageAt
    <2> HIDE DEF I
    <2> QED  BY <1>1, <2>1, LeastOf
  <1>3. SelectInSeq(images, LAMBDA y : IsReadable(y) /\ Namesakes(y.dex, m) # {}) = i0
    BY <1>1 DEF SelectInSeq
  <1>4. i0 \in 1..Len(images) /\ N # {}
    BY <1>2
  <1> HIDE DEF i0, I
  <1>5. Decoded(m) = Methods(d)[Max(N)]
    BY <1>3 DEF Decoded
  <1>6. d \in AllDexes /\ d \in DOMAIN DexFile
    BY <1>4, ImageAt
  <1> HIDE DEF d
  <1>7. Max(N) \in N
    <2>1. N \subseteq 1..Len(Methods(d)) /\ Len(Methods(d)) \in Nat
      BY <1>6, MethodAt DEF Namesakes
    <2> HIDE DEF N
    <2>2. N \subseteq 0..Len(Methods(d))
      BY <2>1
    <2> QED  BY <1>4, <2>1, <2>2, GreatestOf
  <1>8. Max(N) \in DOMAIN Methods(d) /\ AreNamesakes(m, Methods(d)[Max(N)])
    BY <1>7 DEF Namesakes
  <1>9. Methods(d)[Max(N)] \in MethodsOf(d)
    BY <1>6, <1>8, MethodAt
  <1> QED  BY <1>5, <1>6, <1>8, <1>9

Hits(s) == {i \in 1..Len(images) : IsReadable(images[i]) /\ HitsIn(images[i].dex, s) # {}}

LEMMA FirstHitIs ==
  ASSUME LoadInv, NEW s
  PROVE  /\ Hits(s) = {} => findByString(s) = Nothing
         /\ Hits(s) # {} =>
                \E x \in Hits(s) : \E m \in MethodsOf(images[x].dex) :
                    /\ s \in m.truth
                    /\ findByString(s) = IF Decoded(m).decodes = "method"
                                         THEN [kind |-> "method", method |-> Signature(Decoded(m))]
                                         ELSE Throws
  <1> DEFINE sel == SelectInSeq(images, LAMBDA y : IsReadable(y) /\ HitsIn(y.dex, s) # {})
  <1>1. CASE Hits(s) = {}
    <2>1. sel = 0
      BY <1>1 DEF SelectInSeq, Hits
    <2> HIDE DEF sel
    <2>2. findByString(s) = Nothing
      BY <2>1 DEF findByString, sel
    <2> QED  BY <1>1, <2>2
  <1>2. CASE Hits(s) # {}
    <2> DEFINE x == Min(Hits(s))
               d == images[x].dex
               m == Methods(d)[Min(HitsIn(d, s))]
    <2>1. x \in Hits(s)
      <3>1. Hits(s) \subseteq Nat
        BY DEF Hits
      <3> QED  BY <1>2, <3>1, LeastOf
    <2>2. sel = x
      BY <1>2 DEF SelectInSeq, Hits
    <2> HIDE DEF x
    <2>3. x \in 1..Len(images) /\ x # 0 /\ HitsIn(d, s) # {}
      BY <2>1, ImageAt DEF Hits
    <2>4. d \in DOMAIN DexFile
      BY <2>3, ImageAt
    <2>5. findByString(s) = IF Decoded(m).decodes = "method"
                            THEN [kind |-> "method", method |-> Signature(Decoded(m))]
                            ELSE Throws
      BY <2>2, <2>3 DEF findByString, decodeMethodIndex
    <2>6. Min(HitsIn(d, s)) \in HitsIn(d, s)
      <3>1. HitsIn(d, s) \subseteq Nat
        BY <2>4, MethodAt DEF HitsIn
      <3> QED  BY <2>3, <3>1, LeastOf
    <2> HIDE DEF d
    <2>7. Min(HitsIn(d, s)) \in DOMAIN Methods(d) /\ Uses(d, Min(HitsIn(d, s)), s)
      BY <2>6 DEF HitsIn
    <2>8. m \in MethodsOf(d) /\ s \in m.truth
      BY <2>4, <2>7, MethodAt, UsesIsTruth
    <2> HIDE DEF m
    <2> QED  BY <1>2, <2>1, <2>5, <2>8 DEF d
  <1> QED  BY <1>1, <1>2

LEMMA FoundIsResult ==
  ASSUME LoadInv, NEW s PROVE findByString(s) \in Result
  <1>1. Nothing \in Result /\ Throws \in Result
    BY DEF Nothing, Throws, Result
  <1>2. CASE Hits(s) = {}
    BY <1>1, <1>2, FirstHitIs
  <1>3. CASE Hits(s) # {}
    <2>1. PICK x \in Hits(s) : \E m \in MethodsOf(images[x].dex) :
              findByString(s) = IF Decoded(m).decodes = "method"
                                THEN [kind |-> "method", method |-> Signature(Decoded(m))]
                                ELSE Throws
      BY <1>3, FirstHitIs
    <2>2. PICK m \in MethodsOf(images[x].dex) :
              findByString(s) = IF Decoded(m).decodes = "method"
                                THEN [kind |-> "method", method |-> Signature(Decoded(m))]
                                ELSE Throws
      BY <2>1
    <2>3. PICK d \in AllDexes : d \in DOMAIN DexFile /\ Decoded(m) \in MethodsOf(d)
      <3>1. x \in 1..Len(images) /\ IsReadable(images[x])
        BY DEF Hits
      <3> QED  BY <3>1, DecodedIsNamesake
    <2> DEFINE n == Decoded(m)
    <2> HIDE DEF n
    <2>4. Signature(n) \in Method
      BY <2>3, DexFilesAreTyped DEF n
    <2>5. [kind |-> "method", method |-> Signature(n)] \in Result
      BY <2>4 DEF Result
    <2> QED  BY <1>1, <2>2, <2>5 DEF n
  <1> QED  BY <1>2, <1>3

(* A search finds nothing, a method that there is, or throws; with an      *)
(* image that cannot be read, whatever.                                    *)
LEMMA AnswersAre ==
  ASSUME LoadInv, NEW s, NEW r \in Answers(s)
  PROVE  /\ r \in Result
         /\ r.kind = "method" /\ AllReadable =>
                \E d \in AllDexes : \E m \in MethodsOf(d) :
                    s \in m.truth /\ AreNamesakes(m, r.method)
         /\ r.kind = "none" /\ AllReadable => \A x \in ToSet(images) : HitsIn(x.dex, s) = {}
  <1>1. Nothing \in Result /\ Throws \in Result /\ Nothing.kind = "none" /\ Throws.kind = "throws"
    BY DEF Nothing, Throws, Result
  <1>2. CASE ~AllReadable
    <2>1. findByString(s) = r \/ r \in Result
      BY DEF Answers
    <2> QED  BY <1>2, <2>1, FoundIsResult
  <1>5. CASE AllReadable /\ r # findByString(s)
    BY <1>5 DEF Answers
  <1>3. CASE r = findByString(s) /\ Hits(s) = {}
    <2>1. r = Nothing
      BY <1>3, FirstHitIs
    <2>2. AllReadable => \A x \in ToSet(images) : HitsIn(x.dex, s) = {}
      <3> SUFFICES ASSUME AllReadable, NEW i \in 1..Len(images) PROVE HitsIn(images[i].dex, s) = {}
        BY ImageAt DEF ToSet
      <3>1. IsReadable(images[i])
        BY ImageAt DEF AllReadable
      <3> QED  BY <1>3, <3>1 DEF Hits
    <2> QED  BY <1>1, <2>1, <2>2
  <1>4. CASE r = findByString(s) /\ Hits(s) # {}
    <2>0. PICK x \in Hits(s) : \E m \in MethodsOf(images[x].dex) :
              /\ s \in m.truth
              /\ r = IF Decoded(m).decodes = "method"
                     THEN [kind |-> "method", method |-> Signature(Decoded(m))]
                     ELSE Throws
      BY <1>4, FirstHitIs
    <2>1. PICK m \in MethodsOf(images[x].dex) :
              /\ s \in m.truth
              /\ r = IF Decoded(m).decodes = "method"
                     THEN [kind |-> "method", method |-> Signature(Decoded(m))]
                     ELSE Throws
      BY <2>0
    <2>2. CASE Decoded(m).decodes # "method"
      BY <1>1, <2>1, <2>2
    <2>3. CASE Decoded(m).decodes = "method"
      <3>1. x \in 1..Len(images) /\ IsReadable(images[x])
        BY DEF Hits
      <3>2. PICK d \in AllDexes : /\ d \in DOMAIN DexFile
                                  /\ Decoded(m) \in MethodsOf(d) /\ AreNamesakes(m, Decoded(m))
        BY <3>1, DecodedIsNamesake
      <3> DEFINE n == Decoded(m)
      <3> HIDE DEF n
      <3>3. Signature(n) \in Method
        BY <3>2, DexFilesAreTyped DEF n
      <3>4. r = [kind |-> "method", method |-> Signature(n)]
        BY <2>1, <2>3 DEF n
      <3>5. r \in Result /\ r.kind = "method" /\ r.method = Signature(n)
        BY <3>3, <3>4 DEF Result
      <3>6. AreNamesakes(m, Signature(n))
        BY <3>2 DEF AreNamesakes, Signature, n
      <3>7. images[x].dex \in AllDexes
        BY <3>1, ImageAt
      <3> QED  BY <2>1, <3>5, <3>6, <3>7
    <2> QED  BY <2>2, <2>3
  <1> QED  BY <1>2, <1>3, <1>4, <1>5

-----------------------------------------------------------------------------
(* The loading, step by step: once an element has been looked at, what can *)
(* be had of it is there.                                                  *)
Has(d) == \E i \in ToSet(images) : i.dex = d
LoadDone ==
    /\ token = "set" => at = Len(Elements) + 2
    /\ pc \in {"tts", "search", "close"} => at = Len(Elements) + 2
    /\ pc \in {"idle", "load", "tts", "search", "close"} =>
           \A n \in 1..Len(Elements) : n < at =>
               \A x \in Range(ImagesOf(Elements[n])) : Has(x.dex)

LEMMA SameDevice ==
  ASSUME UNCHANGED device
  PROVE  Elements' = Elements /\ Paths' = Paths /\ AllDexes' = AllDexes
  <1>1. Elements' = Elements
    BY DEF Elements
  <1>2. Paths' = Paths
    BY <1>1 DEF Paths
  <1> QED  BY <1>1, <1>2 DEF AllDexes

LEMMA ElementAt ==
  ASSUME LoadInv
  PROVE  /\ Len(Elements) \in Nat /\ DOMAIN Elements = 1..Len(Elements)
         /\ \A n \in 1..Len(Elements) : Elements[n] \in Element \cup {None}
  <1>1. Elements \in Seq(Element \cup {None})
    BY ElementsAreTyped DEF LoadInv
  <1> DEFINE S == Element \cup {None}
  <1> HIDE DEF S
  <1>2. Elements \in Seq(S)
    BY <1>1 DEF S
  <1>3. Len(Elements) \in Nat /\ DOMAIN Elements = 1..Len(Elements) /\ \A n \in 1..Len(Elements) : Elements[n] \in S
    BY <1>2
  <1> QED  BY <1>3 DEF S

LEMMA LoadElementKeeps ==
  ASSUME LoadInv, LoadDone, pc = "load", LoadElement, UNCHANGED hookVars
  PROVE  LoadInv' /\ LoadDone'
  <1> DEFINE S == [dex : AllDexes, from : From]
             e == Elements[at]
             s == ImagesOf(e)
  <1>1. /\ device' = device /\ token' = token /\ pc' = "load" /\ at' = at + 1
        /\ images' = images \o s /\ at \in 1..Len(Elements)
    BY DEF LoadElement, hookVars, installVars
  <1>2. Elements' = Elements /\ AllDexes' = AllDexes
    BY <1>1, SameDevice
  <1>3. Len(Elements) \in Nat /\ e \in Element \cup {None} /\ images \in Seq(S) /\ at \in Nat
    BY <1>1, ElementAt DEF LoadInv
  <1>4. s \in Seq(S)
    <2>1. CASE e = None
      <3>1. s = <<>>
        BY <1>3, <2>1, ImagesOfIs
      <3> HIDE DEF S, s
      <3> QED  BY <3>1
    <2>2. CASE e # None
      <3> DEFINE T == [dex : DexesOf(e), from : {"memory", "file"}]
      <3>1. s \in Seq(T)
        BY <1>3, <2>2, ImagesOfIs
      <3>2. e \in Paths
        BY <1>1, <2>2, ElementAt DEF Paths, ToSet
      <3>3. T \subseteq S
        BY <3>2 DEF AllDexes, From
      <3> HIDE DEF T, S, s
      <3> QED  BY <3>1, <3>3, InLarger
    <2> QED  BY <2>1, <2>2
  <1> HIDE DEF s
  <1>5. images' \in Seq(S) /\ Range(images') = Range(images) \cup Range(s)
    <2> HIDE DEF S
    <2> QED  BY <1>1, <1>3, <1>4, RangeOfConcat
  <1>6. LoadInv'
    BY <1>1, <1>2, <1>3, <1>5 DEF LoadInv
  <1>7. ToSet(images') = ToSet(images) \cup Range(s)
    BY <1>5 DEF ToSet, Range
  <1>8. ASSUME NEW n \in 1..Len(Elements), n < at + 1, NEW x \in Range(ImagesOf(Elements[n]))
        PROVE  \E i \in ToSet(images') : i.dex = x.dex
    <2>1. CASE n = at
      BY <1>7, <1>8, <2>1 DEF s
    <2>2. CASE n # at
      <3>1. n < at
        BY <1>3, <1>8, <2>2
      <3>2. Has(x.dex)
        BY <1>8, <3>1 DEF LoadDone
      <3> QED  BY <1>7, <3>2 DEF Has
    <2> QED  BY <2>1, <2>2
  <1>9. token' # "set"
    BY <1>1, <1>3 DEF LoadDone
  <1> QED  BY <1>1, <1>2, <1>6, <1>8, <1>9 DEF LoadDone, Has

LEMMA MakeHandlerKeeps ==
  ASSUME LoadInv, LoadDone, pc = "load", MakeHandler, UNCHANGED hookVars
  PROVE  LoadInv' /\ LoadDone'
  <1> DEFINE S == [dex : AllDexes, from : From]
  <1>1. /\ device' = device /\ pc' = "load" /\ at' = at + 1 /\ at = Len(Elements) + 1
    BY DEF MakeHandler, hookVars, installVars
  <1>2. Elements' = Elements /\ AllDexes' = AllDexes
    BY <1>1, SameDevice
  <1>3. Len(Elements) \in Nat /\ images \in Seq(S) /\ at \in Nat
    BY ElementAt DEF LoadInv
  <1>4. DOMAIN images = 1..Len(images) /\ \A i \in 1..Len(images) : images[i] \in S
    <2> HIDE DEF S
    <2> QED  BY <1>3
  <1>5. images' \in Seq(S) /\ \A i \in ToSet(images) : \E j \in ToSet(images') : j.dex = i.dex
    <2>1. CASE UNCHANGED images
      <3> HIDE DEF S
      <3> QED  BY <1>3, <2>1
    <2>2. CASE images' = [i \in DOMAIN images |->
                    IF Contained(DexFile[images[i].dex].header) THEN images[i]
                    ELSE [images[i] EXCEPT !.from = "garbage"]]
      <3> DEFINE V(i) == IF Contained(DexFile[images[i].dex].header) THEN images[i]
                         ELSE [images[i] EXCEPT !.from = "garbage"]
      <3>1. \A i \in 1..Len(images) : V(i) \in S /\ V(i).dex = images[i].dex
        <4> SUFFICES ASSUME NEW i \in 1..Len(images) PROVE V(i) \in S /\ V(i).dex = images[i].dex
          OBVIOUS
        <4>1. images[i] \in S
          BY <1>4
        <4>2. [images[i] EXCEPT !.from = "garbage"] \in S /\ [images[i] EXCEPT !.from = "garbage"].dex = images[i].dex
          BY <4>1 DEF From
        <4> QED  BY <4>1, <4>2
      <3>2. images' = [i \in 1..Len(images) |-> V(i)] /\ Len(images) \in Nat
        BY <1>3, <1>4, <2>2
      <3> HIDE DEF V
      <3>3. images' \in Seq(S)
        <4> HIDE DEF S
        <4> QED  BY <3>1, <3>2
      <3>4. DOMAIN images' = 1..Len(images) /\ \A i \in 1..Len(images) : images'[i].dex = images[i].dex
        BY <3>1, <3>2
      <3>5. \A i \in 1..Len(images) : images'[i] \in ToSet(images')
        BY <3>4 DEF ToSet
      <3>6. ASSUME NEW i \in ToSet(images) PROVE \E j \in ToSet(images') : j.dex = i.dex
        <4>1. PICK k \in 1..Len(images) : i = images[k]
          BY <1>4 DEF ToSet
        <4> QED  BY <3>4, <3>5, <4>1
      <3> QED  BY <3>3, <3>6
    <2> QED  BY <2>1, <2>2 DEF MakeHandler
  <1>6. LoadInv'
    BY <1>1, <1>2, <1>3, <1>5 DEF LoadInv
  <1>7. at' = Len(Elements) + 2
    BY <1>1, <1>3
  <1>8. ASSUME NEW n \in 1..Len(Elements), NEW x \in Range(ImagesOf(Elements[n]))
        PROVE  Has(x.dex)'
    <2>1. n < at
      BY <1>1, <1>3
    <2>2. Has(x.dex)
      BY <2>1 DEF LoadDone
    <2> QED  BY <1>5, <2>2 DEF Has
  <1> QED  BY <1>1, <1>2, <1>6, <1>7, <1>8 DEF LoadDone

LEMMA LoadKeeps ==
  ASSUME LoadInv, LoadDone, pc = "load", Load, UNCHANGED hookVars
  PROVE  LoadInv' /\ LoadDone'
  <1>1. CASE BeginLoad
    <2>1. /\ device' = device /\ images' = images /\ token = "null" /\ at = 0
          /\ \/ at' = 1 /\ token' = token
             \/ at' = at /\ token' \in {"threw", "died"}
      BY <1>1 DEF BeginLoad
    <2>2. Elements' = Elements /\ AllDexes' = AllDexes /\ pc' = "load"
      BY <2>1, SameDevice DEF hookVars, installVars
    <2>3. LoadInv'
      BY <2>1, <2>2 DEF LoadInv
    <2>4. \A n \in 1..Len(Elements) : ~(n < at')
      BY <2>1
    <2> QED  BY <2>1, <2>2, <2>3, <2>4 DEF LoadDone
  <1> QED  BY <1>1, LoadElementKeeps, MakeHandlerKeeps DEF Load

-----------------------------------------------------------------------------
(* What the searches leave: each string looked for is hooked, or nothing   *)
(* refers to it, or some image is none.                                    *)
Spelling == "withinCallRecordingGeofence"
Answered(s) ==
    \/ Hooked(s) \/ ~AllReadable
    \/ \A x \in ToSet(images) : HitsIn(x.dex, s) = {}
Searched ==
    /\ pc = "search" => \A n \in Steps : n < next /\ Wanted[n] # Spelling => Answered(Wanted[n])
    /\ pc = "close" /\ log = "ready" =>
           \A n \in Steps : Wanted[n] # Spelling => Answered(Wanted[n])

InstallInv == LoadInv /\ LoadDone /\ HooksAreReferenced /\ Searched

LEMMA SameImages ==
  ASSUME UNCHANGED images
  PROVE  AllReadable' = AllReadable /\ \A d, s : HitsIn(d, s)' = HitsIn(d, s)
  <1>1. AllReadable' = AllReadable
    BY DEF AllReadable
  <1>2. \A t : IsNamed(t)' = IsNamed(t)
    BY DEF IsNamed
  <1>3. \A p : Known(p)' = Known(p)
    BY <1>2 DEF Known, SelectInSeq
  <1>4. \A m, shape : IsMethodMatch(m, shape)' = IsMethodMatch(m, shape)
    BY <1>2, <1>3 DEF IsMethodMatch
  <1>5. \A d, s : HitsIn(d, s)' = HitsIn(d, s)
    BY <1>4 DEF HitsIn
  <1> QED  BY <1>1, <1>5

LEMMA AnsweredStays ==
  ASSUME UNCHANGED images, hooks \subseteq hooks', NEW s, Answered(s)
  PROVE  Answered(s)'
  <1>1. Hooked(s) => Hooked(s)'
    BY DEF Hooked
  <1> QED  BY <1>1, SameImages DEF Answered

(* Steps of the installation that leave what is loaded as it is.           *)
LEMMA LoadStays ==
  ASSUME LoadInv, LoadDone, UNCHANGED loadVars,
         pc' \in {"tts", "search", "close"} => at = Len(Elements) + 2,
         pc \notin {"idle", "load", "tts", "search", "close"} =>
             pc' \notin {"idle", "load", "tts", "search", "close"}
  PROVE  LoadInv' /\ LoadDone'
  <1>1. device' = device /\ at' = at /\ images' = images /\ token' = token
    BY DEF loadVars
  <1>2. Elements' = Elements /\ AllDexes' = AllDexes
    BY <1>1, SameDevice
  <1>3. LoadInv'
    BY <1>1, <1>2 DEF LoadInv
  <1>4. \A d : Has(d)' = Has(d)
    BY <1>1 DEF Has
  <1> QED  BY <1>1, <1>2, <1>3, <1>4 DEF LoadDone

LEMMA ReferencesStay ==
  ASSUME HooksAreReferenced, UNCHANGED device, hooks' \subseteq hooks
  PROVE  HooksAreReferenced'
  <1>1. AllDexes' = AllDexes
    BY SameDevice
  <1> QED  BY <1>1 DEF HooksAreReferenced, AllContained

(* Only an image with tables outside it cannot be read.                    *)
Outside == \A i \in DOMAIN images :
    IsReadable(images[i]) \/ ~Contained(DexFile[images[i].dex].header)

LEMMA ContainedIsReadable ==
  ASSUME LoadInv, Outside, AllContained PROVE AllReadable
  <1>1. ASSUME NEW i \in DOMAIN images PROVE IsReadable(images[i])
    <2>1. images[i].dex \in AllDexes
      BY ImageAt
    <2> QED  BY <2>1 DEF Outside, AllContained
  <1> QED  BY <1>1 DEF AllReadable, ToSet

LEMMA LoadElementKeepsOutside ==
  ASSUME LoadInv, Outside, LoadElement PROVE Outside'
  <1> DEFINE R == {"memory", "file"}
             S == [dex : AllDexes, from : From]
             e == Elements[at]
             s == ImagesOf(e)
             Fine(x) == IsReadable(x) \/ ~Contained(DexFile[x.dex].header)
  <1>1. images' = images \o s /\ at \in 1..Len(Elements)
    BY DEF LoadElement
  <1>2. e \in Element \cup {None} /\ images \in Seq(S)
    BY <1>1, ElementAt DEF LoadInv
  <1>3. \A x \in [dex : DexesOf(e), from : R] : Fine(x)
    BY DEF IsReadable
  <1>4. \E T : s \in Seq(T) /\ \A x \in T : Fine(x)
    <2>1. CASE e = None
      <3>1. s = <<>>
        BY <1>2, <2>1, ImagesOfIs
      <3>2. s \in Seq({})
        BY <3>1
      <3> QED  BY <3>2
    <2>2. CASE e # None
      <3>1. s \in Seq([dex : DexesOf(e), from : R])
        BY <1>2, <2>2, ImagesOfIs
      <3> QED  BY <1>3, <3>1
    <2> QED  BY <2>1, <2>2
  <1>5. PICK T : s \in Seq(T) /\ \A x \in T : Fine(x)
    BY <1>4
  <1>6. \A i \in DOMAIN images : Fine(images[i])
    BY DEF Outside
  <1> HIDE DEF s, S, Fine
  <1>7. /\ Len(images) \in Nat /\ DOMAIN images = 1..Len(images)
        /\ Len(s) \in Nat /\ DOMAIN s = 1..Len(s) /\ \A i \in 1..Len(s) : s[i] \in T
    BY <1>2, <1>5
  <1>8. /\ DOMAIN images' = 1..(Len(images) + Len(s))
        /\ \A i \in 1..(Len(images) + Len(s)) :
               images'[i] = IF i <= Len(images) THEN images[i] ELSE s[i - Len(images)]
    BY <1>1, <1>2, <1>5
  <1>9. ASSUME NEW i \in DOMAIN images' PROVE Fine(images'[i])
    <2>1. CASE i <= Len(images)
      <3>1. i \in DOMAIN images /\ images'[i] = images[i]
        BY <1>7, <1>8, <2>1
      <3> QED  BY <1>6, <3>1
    <2>2. CASE ~(i <= Len(images))
      <3>1. i - Len(images) \in 1..Len(s) /\ images'[i] = s[i - Len(images)]
        BY <1>7, <1>8, <2>2
      <3> QED  BY <1>5, <1>7, <3>1
    <2> QED  BY <2>1, <2>2
  <1> QED  BY <1>9 DEF Outside, Fine, IsReadable

LEMMA OutsideStep == LoadInv /\ Outside /\ [Next]_vars => Outside'
  <1> SUFFICES ASSUME LoadInv, Outside, [Next]_vars PROVE Outside'
    OBVIOUS
  <1>1. CASE UNCHANGED images
    BY <1>1 DEF Outside, IsReadable
  <1>2. CASE LoadElement
    BY <1>2, LoadElementKeepsOutside
  <1>3. CASE MakeHandler /\ ~UNCHANGED images
    <2>1. images' = [i \in DOMAIN images |->
                    IF Contained(DexFile[images[i].dex].header) THEN images[i]
                    ELSE [images[i] EXCEPT !.from = "garbage"]]
      BY <1>3 DEF MakeHandler
    <2>2. ASSUME NEW i \in DOMAIN images
          PROVE  IsReadable(images'[i]) \/ ~Contained(DexFile[images'[i].dex].header)
      <3>1. CASE Contained(DexFile[images[i].dex].header)
        BY <2>1, <3>1 DEF Outside
      <3>2. CASE ~Contained(DexFile[images[i].dex].header)
        <4>1. images'[i] = [images[i] EXCEPT !.from = "garbage"]
          BY <2>1, <3>2
        <4>2. images[i] \in [dex : AllDexes, from : From]
          <5> DEFINE S == [dex : AllDexes, from : From]
          <5>1. images \in Seq(S)
            BY DEF LoadInv
          <5> HIDE DEF S
          <5>2. images[i] \in S
            BY <5>1
          <5> QED  BY <5>2 DEF S
        <4>3. images'[i].dex = images[i].dex
          BY <4>1, <4>2
        <4> QED  BY <3>2, <4>3
      <3> QED  BY <3>1, <3>2
    <2> QED  BY <2>1, <2>2 DEF Outside, IsReadable
  <1>4. CASE images' = <<>>
    <2>1. DOMAIN images' = {}
      BY <1>4
    <2> QED  BY <2>1 DEF Outside
  <1>5. \/ UNCHANGED images \/ LoadElement \/ MakeHandler \/ images' = <<>>
    BY DEF Next, Install, Restart, closex, Load, BeginLoad, vars, loadVars
  <1> QED  BY <1>1, <1>2, <1>3, <1>4, <1>5

LEMMA OutsideInit == Init => Outside
  <1>1. Init => DOMAIN images = {}
    BY DEF Init, loadInit
  <1> QED  BY <1>1 DEF Outside

LEMMA SearchKeeps ==
  ASSUME InstallInv, Outside, Silence, NEW s, s = Wanted[next], NEW r \in Answers(s), Search(r),
         UNCHANGED loadVars
  PROVE  InstallInv'
  <1>1. /\ pc = "search" /\ pc' \in {"search", "close"} /\ next \in Steps
        /\ device' = device /\ images' = images
    BY DEF Search, Proceed, Fail, Silence, Order, loadVars
  <1>2. LoadInv' /\ LoadDone'
    BY <1>1, LoadStays DEF InstallInv, LoadDone
  <1>3. /\ r.kind = "method" /\ AllReadable =>
               \E d \in AllDexes : \E m \in MethodsOf(d) :
                   s \in m.truth /\ AreNamesakes(m, r.method)
        /\ r.kind = "none" /\ AllReadable => \A x \in ToSet(images) : HitsIn(x.dex, s) = {}
    BY AnswersAre DEF InstallInv
  <1>4. HooksAreReferenced'
    <2>1. CASE UNCHANGED hooks
      BY <1>1, <2>1, ReferencesStay DEF InstallInv
    <2>2. CASE r.kind = "method" /\ hooks' = hooks \cup {[of |-> s, method |-> r.method]}
      <3>1. AllDexes' = AllDexes
        BY <1>1, SameDevice
      <3>2. ASSUME AllContained, NEW h \in hooks'
            PROVE  \E d \in AllDexes : \E m \in MethodsOf(d) : h.of \in m.truth /\ AreNamesakes(m, h.method)
        <4>1. CASE h \in hooks
          BY <3>2, <4>1 DEF InstallInv, HooksAreReferenced
        <4>2. CASE h = [of |-> s, method |-> r.method]
          BY <1>3, <2>2, <3>2, <4>2, ContainedIsReadable DEF InstallInv
        <4> QED  BY <2>2, <4>1, <4>2
      <3> QED  BY <3>1, <3>2 DEF HooksAreReferenced, AllContained
    <2> QED  BY <2>1, <2>2 DEF Search
  <1>5. Searched'
    <2>1. CASE r.kind \in {"none", "method"} /\ Proceed(next, r)
      <3>1. hooks \subseteq hooks' /\ (r.kind = "method" => Hooked(s)')
        <4>1. CASE r.kind = "none"
          BY <4>1 DEF Search
        <4>2. CASE r.kind = "method"
          <5>1. hooks' = hooks \cup {[of |-> s, method |-> r.method]}
            BY <4>2 DEF Search
          <5>2. [of |-> s, method |-> r.method].of = s
            OBVIOUS
          <5> QED  BY <5>1, <5>2 DEF Hooked
        <4> QED  BY <2>1, <4>1, <4>2
      <3>2. Answered(s)'
        <4>1. CASE r.kind = "method"
          BY <3>1, <4>1 DEF Answered
        <4>2. CASE r.kind = "none"
          <5>1. Answered(s)
            BY <1>3, <4>2 DEF Answered
          <5> QED  BY <1>1, <3>1, <5>1, AnsweredStays
        <4> QED  BY <2>1, <4>1, <4>2
      <3>3. \A n \in Steps : n < next /\ Wanted[n] # Spelling => Answered(Wanted[n])'
        <4> SUFFICES ASSUME NEW n \in Steps, n < next, Wanted[n] # Spelling PROVE Answered(Wanted[n])'
          OBVIOUS
        <4>1. Answered(Wanted[n])
          BY <1>1 DEF InstallInv, Searched
        <4> QED  BY <1>1, <3>1, <4>1, AnsweredStays
      <3>4. CASE pc' = "search"
        <4>1. next' = After(next, r)
          BY <1>1, <2>1, <3>4 DEF Proceed
        <4>2. \A n \in Steps : n < next' => n < next \/ n = next \/ Wanted[n] = Spelling
          <5>1. CASE next' = next + 1
            BY <1>1, <5>1 DEF Steps
          <5>2. CASE next' # next + 1
            <6>1. Wanted[next] = "withinCallRecordingGeoFence" /\ next' = next + 2
              BY <4>1, <5>2 DEF After
            <6>2. next = 6 /\ Wanted[7] = Spelling
              BY <1>1, <6>1 DEF Wanted, Steps, Spelling
            <6> QED  BY <6>1, <6>2 DEF Steps
          <5> QED  BY <5>1, <5>2
        <4>3. \A n \in Steps : n < next' /\ Wanted[n] # Spelling => Answered(Wanted[n])'
          BY <3>2, <3>3, <4>2
        <4> QED  BY <3>4, <4>3 DEF Searched
      <3>5. CASE pc' = "close"
        <4>1. log' = "ready" => next = 9
          BY <1>1, <2>1, <3>5, Lengths DEF Proceed
        <4>2. log' = "ready" => \A n \in Steps : n < next \/ n = next
          BY <4>1 DEF Steps
        <4>3. log' = "ready" => \A n \in Steps : Wanted[n] # Spelling => Answered(Wanted[n])'
          BY <3>2, <3>3, <4>2
        <4> QED  BY <3>5, <4>3 DEF Searched
      <3> QED  BY <1>1, <3>4, <3>5
    <2>2. CASE Fail("close")
      BY <2>2 DEF Fail, Searched
    <2> QED  BY <2>1, <2>2 DEF Search
  <1> QED  BY <1>2, <1>4, <1>5 DEF InstallInv

LEMMA OthersKeep ==
  ASSUME InstallInv, Silence, UNCHANGED loadVars,
         \/ onPackageReady \/ (NewDexHelper(token) /\ Loaded) \/ hookPublicTts
         \/ SearchFaults \/ Calls \/ UNCHANGED hookVars
  PROVE  InstallInv'
  <1> USE DEF InstallInv
  <1>1. hooks' = hooks /\ images' = images /\ device' = device
    BY DEF onPackageReady, NewDexHelper, hookPublicTts, SearchFaults, Calls, CallConnects, EngineAccepts,
           EngineRefuses, SilenceFile, EngineFinishes, ClipPlays, CallEnds, hookVars, installVars, loadVars
  <1>2. HooksAreReferenced'
    BY <1>1, ReferencesStay
  <1>3. CASE onPackageReady
    <2>1. pc = "idle" /\ pc' \in {"load", "done"}
      BY <1>3 DEF onPackageReady
    <2>2. LoadInv' /\ LoadDone'
      BY <2>1, LoadStays
    <2> QED  BY <1>2, <2>1, <2>2 DEF Searched
  <1>4. CASE NewDexHelper(token) /\ Loaded
    <2>1. pc = "load" /\ pc' \in {"tts", "done", "died"} /\ (pc' = "tts" => token \in {"set", "null"})
      BY <1>4 DEF NewDexHelper, Fail
    <2>2. pc' = "tts" => at = Len(Elements) + 2
      BY <1>4, <2>1 DEF Loaded, LoadDone
    <2>3. LoadInv' /\ LoadDone'
      BY <2>1, <2>2, LoadStays
    <2> QED  BY <1>2, <2>1, <2>3 DEF Searched
  <1>5. CASE hookPublicTts
    <2>1. pc = "tts" /\ pc' \in {"search", "close"} /\ (pc' = "close" => log' = "failed") /\ next' = next
      BY <1>5 DEF hookPublicTts, Fail
    <2>2. at = Len(Elements) + 2
      BY <2>1 DEF LoadDone
    <2>3. LoadInv' /\ LoadDone'
      BY <2>1, <2>2, LoadStays
    <2>4. next' = 1
      BY <2>1 DEF Silence, Order, Before
    <2>5. \A n \in Steps : ~(n < next')
      BY <2>4 DEF Steps
    <2> QED  BY <1>2, <2>1, <2>3, <2>5 DEF Searched
  <1>6. CASE Calls \/ UNCHANGED hookVars
    <2>1. pc' = pc /\ log' = log /\ next' = next
      BY <1>6 DEF Calls, CallConnects, EngineAccepts, EngineRefuses,
           SilenceFile, EngineFinishes, ClipPlays, CallEnds, hookVars, installVars
    <2>2. LoadInv' /\ LoadDone'
      BY <2>1, LoadStays DEF LoadDone
    <2>3. \A s : Answered(s) => Answered(s)'
      BY <1>1, AnsweredStays
    <2> QED  BY <1>2, <2>1, <2>2, <2>3 DEF Searched
  <1>7. CASE SearchFaults
    <2>1. pc = "search" /\ pc' = "died"
      BY <1>7 DEF SearchFaults
    <2>2. LoadInv' /\ LoadDone'
      BY <2>1, LoadStays
    <2> QED  BY <1>2, <2>1, <2>2 DEF Searched
  <1> QED  BY <1>3, <1>4, <1>5, <1>6, <1>7

LEMMA EndsKeep ==
  ASSUME InstallInv, (close /\ closex) \/ Restart
  PROVE  InstallInv'
  <1> USE DEF InstallInv
  <1>1. /\ device' = device /\ images' = <<>> /\ token' = "null"
        /\ \/ pc' = "done" /\ at' = at /\ hooks' = hooks
           \/ pc' = "idle" /\ at' = 0 /\ hooks' = {}
    BY DEF close, closex, Restart, DialerDies
  <1>2. Elements' = Elements /\ AllDexes' = AllDexes
    BY <1>1, SameDevice
  <1>3. LoadInv'
    <2> DEFINE S == [dex : AllDexes, from : From]
    <2> HIDE DEF S
    <2>1. <<>> \in Seq(S)
      OBVIOUS
    <2> QED  BY <1>1, <1>2, <2>1 DEF LoadInv, S
  <1>4. LoadDone'
    <2>1. pc' = "idle" => \A n \in 1..Len(Elements) : ~(n < at')
      BY <1>1
    <2> QED  BY <1>1, <1>2, <2>1 DEF LoadDone
  <1>5. HooksAreReferenced'
    BY <1>1, ReferencesStay
  <1>6. Searched'
    BY <1>1 DEF Searched
  <1> QED  BY <1>3, <1>4, <1>5, <1>6

LEMMA InstallInvStep == InstallInv /\ Outside /\ Silence /\ [Next]_vars => InstallInv'
  <1> SUFFICES ASSUME InstallInv, Outside, Silence, [Next]_vars PROVE InstallInv'
    OBVIOUS
  <1>1. CASE onPackageReady /\ UNCHANGED loadVars
    BY <1>1, OthersKeep
  <1>2. CASE pc = "load" /\ Load /\ UNCHANGED hookVars
    <2>1. LoadInv' /\ LoadDone'
      BY <1>2, LoadKeeps DEF InstallInv
    <2>2. hooks' = hooks /\ pc' = "load" /\ device' = device
      BY <1>2 DEF Load, BeginLoad, LoadElement, MakeHandler, hookVars, installVars
    <2>3. HooksAreReferenced'
      BY <2>2, ReferencesStay DEF InstallInv
    <2> QED  BY <2>1, <2>2, <2>3 DEF InstallInv, Searched
  <1>3. CASE Loaded /\ NewDexHelper(token) /\ UNCHANGED loadVars
    BY <1>3, OthersKeep
  <1>4. CASE hookPublicTts /\ UNCHANGED loadVars
    BY <1>4, OthersKeep
  <1>5. ASSUME NEW r \in Answers(Wanted[next]), Search(r), UNCHANGED loadVars PROVE InstallInv'
    <2>1. PICK s : s = Wanted[next]
      OBVIOUS
    <2> QED  BY <1>5, <2>1, SearchKeeps
  <1>6. CASE (close /\ closex) \/ Restart
    BY <1>6, EndsKeep
  <1>7. CASE Calls /\ UNCHANGED loadVars
    BY <1>7, OthersKeep
  <1>8. CASE UNCHANGED vars
    BY <1>8, OthersKeep DEF vars
  <1>9. CASE SearchFaults /\ UNCHANGED loadVars
    BY <1>9, OthersKeep
  <1> QED  BY <1>1, <1>2, <1>3, <1>4, <1>5, <1>6, <1>7, <1>8, <1>9 DEF Next, Install

LEMMA InstallInvInit == Init => InstallInv
  <1> SUFFICES ASSUME Init PROVE InstallInv
    OBVIOUS
  <1> USE DEF Init, loadInit, HooksInit
  <1>1. LoadInv
    <2> DEFINE S == [dex : AllDexes, from : From]
    <2> HIDE DEF S
    <2>1. <<>> \in Seq(S)
      OBVIOUS
    <2> QED  BY <2>1 DEF LoadInv, S
  <1>2. LoadDone
    <2>1. \A n \in 1..Len(Elements) : ~(n < at)
      OBVIOUS
    <2> QED  BY <2>1 DEF LoadDone
  <1> QED  BY <1>1, <1>2 DEF InstallInv, HooksAreReferenced, Searched

LEMMA InstallAlways == Spec => [](InstallInv /\ Silence)
  <1>1. InstallInv => LoadInv
    BY DEF InstallInv
  <1> QED  BY <1>1, InstallInvInit, InstallInvStep, OutsideInit, OutsideStep, InstallationIsHooks,
              InitIsSilent, AnyNextKeepsSilence, PTL DEF Spec

(* The process does what the hooks may do: a search answers one of the     *)
(* results.                                                                *)
LEMMA StepIsHooks == InstallInv /\ [Next]_vars => [HooksNext]_hookVars
  <1> SUFFICES ASSUME InstallInv, [Next]_vars PROVE [HooksNext]_hookVars
    OBVIOUS
  <1>1. ASSUME NEW r \in Answers(Wanted[next]), Search(r) PROVE HooksNext
    <2>1. PICK s : s = Wanted[next]
      OBVIOUS
    <2>2. r \in Result
      BY <1>1, <2>1, AnswersAre DEF InstallInv
    <2> QED  BY <1>1, <2>2 DEF HooksNext, Installs
  <1>2. ASSUME NewDexHelper(token) PROVE HooksNext
    <2>1. token \in {"set", "null", "threw", "died"}
      BY <1>2 DEF NewDexHelper
    <2> QED  BY <1>2, <2>1 DEF HooksNext, Installs
  <1>3. CASE Next
    BY <1>1, <1>2, <1>3 DEF Next, Install, Restart, HooksNext, Installs
  <1>4. CASE UNCHANGED vars
    BY <1>4 DEF vars
  <1> QED  BY <1>3, <1>4

(* The process implements the specification of the hooks: for every device *)
(* and every dex file, the searches answer what Hooks lets them answer     *)
(* (Module.java:52-63; wrapper.cc:754-784).                                *)
THEOREM InstallationImplementsHooks == Spec => HooksSpec
  BY InstallAlways, StepIsHooks, InstallationIsHooks, PTL DEF Spec, HooksSpec

(* So the variables of the hooks keep their types in the process.          *)
THEOREM InstallationIsTyped == Spec => []TypeOK
  BY InstallationImplementsHooks, HooksAreTyped, PTL

(* Whatever is hooked for a string on a device whose dex files keep their  *)
(* tables within their images: the source of the method, or of one of the  *)
(* same name and number of parameters, refers to it (Module.java:56;       *)
(* dex_helper.cc:178-278).                                                 *)
THEOREM HooksReferToTheirStrings == Spec => []HooksAreReferenced
  BY InstallAlways, PTL DEF InstallInv

(* The two walks find the same in all code on any device (dex_helper.cc:   *)
(* 178-278; reader.cc:878-939).                                            *)
THEOREM WalksAgree == Spec => []WalkersAgree
  <1>1. InstallInv => WalkersAgree
    <2> SUFFICES ASSUME InstallInv, NEW d \in AllDexes, NEW m \in MethodsOf(d)
                 PROVE  /\ ScanVisits(m.code) = ParseVisits(m.code)
                        /\ ScanRefsOfKind(m.code, {"string"}) = ParseRefsOfKind(m.code, "StringRef")
                        /\ ScanRefsOfKind(m.code, {"get", "set"}) = ParseRefsOfKind(m.code, "FieldRef")
                        /\ ScanRefsOfKind(m.code, {"invoke"}) \subseteq ParseRefsOfKind(m.code, "MethodRef")
                        /\ {DexFile[d].strings[i + 1] : i \in ScanRefsOfKind(m.code, {"string"})} = m.truth
      BY DEF WalkersAgree
    <2>1. d \in DOMAIN DexFile
      BY AllDexesAreDexes DEF InstallInv, LoadInv
    <2>2. /\ IsCode(m.code)
          /\ m.truth = {DexFile[d].strings[i + 1] : i \in ParseRefsOfKind(m.code, "StringRef")}
      BY <2>1, CodeIsOfTheSource
    <2>3. ScanVisits(m.code) = ParseVisits(m.code)
      BY <2>2, VisitsAgree
    <2>4. /\ ScanRefsOfKind(m.code, {"string"}) = ParseRefsOfKind(m.code, "StringRef")
          /\ ScanRefsOfKind(m.code, {"get", "set"}) = ParseRefsOfKind(m.code, "FieldRef")
          /\ ScanRefsOfKind(m.code, {"invoke"}) \subseteq ParseRefsOfKind(m.code, "MethodRef")
      BY <2>2, SameRefs
    <2> QED  BY <2>2, <2>3, <2>4
  <1> QED  BY <1>1, InstallAlways, PTL

-----------------------------------------------------------------------------
(* What is read comes from the elements looked at so far, so an element    *)
(* adds no dex file that is there already.                                 *)
ReadOnce ==
    /\ Apart(images)
    /\ \A x \in ToSet(images) : \E n \in 1..Len(Elements) :
           n < at /\ Elements[n] # None /\ x.dex \in DexesOf(Elements[n])

LEMMA PlacesDiffer ==
  ASSUME LoadInv, NEW n \in 1..Len(Elements), Elements[n] # None
  PROVE  /\ Apart(ImagesOf(Elements[n]))
         /\ \A m \in 1..Len(Elements) :
                m # n /\ Elements[m] # None =>
                    DexesOf(Elements[m]) \cap DexesOf(Elements[n]) = {}
  <1>1. DOMAIN Elements = 1..Len(Elements) /\ Elements[n] \in Element
    BY ElementAt
  <1>2. Device[device].elements # None /\ Elements = Device[device].elements
    BY <1>1 DEF Elements
  <1>3. device \in DOMAIN Device
    BY DEF LoadInv
  <1> DEFINE e == Elements[n]
  <1>4. /\ OnceEach(e.dexes)
        /\ InZip(e) => OnceEach([k \in DOMAIN e.file.zip |-> e.file.zip[k].dex])
        /\ \A m \in 1..Len(Elements) :
               m # n /\ Elements[m] # None => DexesOf(Elements[m]) \cap DexesOf(e) = {}
    BY <1>1, <1>2, <1>3, DexesAreInOnePlace
  <1>5. e \in Element
    BY <1>1
  <1> HIDE DEF e
  <1>6. Apart(ImagesOf(e))
    BY <1>4, <1>5, ImagesOfIsApart
  <1> QED  BY <1>4, <1>6 DEF e

LEMMA LoadElementReadsOnce ==
  ASSUME LoadInv, ReadOnce, LoadElement
  PROVE  ReadOnce'
  <1> DEFINE S == [dex : AllDexes, from : From]
             e == Elements[at]
             s == ImagesOf(e)
  <1>1. /\ device' = device /\ at' = at + 1
        /\ images' = images \o s /\ at \in 1..Len(Elements)
    BY DEF LoadElement
  <1>2. Elements' = Elements
    BY <1>1, SameDevice
  <1>3. Len(Elements) \in Nat /\ e \in Element \cup {None} /\ images \in Seq(S) /\ at \in Nat
    BY <1>1, ElementAt DEF LoadInv
  <1>4. CASE e = None
    <2>1. s = <<>>
      BY <1>3, <1>4, ImagesOfIs
    <2>2. images' = images
      <3> HIDE DEF S, s
      <3> QED  BY <1>1, <1>3, <2>1
    <2>3. \A n \in 1..Len(Elements) : n < at => n < at + 1
      BY <1>3
    <2> QED  BY <1>1, <1>2, <2>2, <2>3 DEF ReadOnce
  <1>5. CASE e # None
    <2>1. s \in Seq([dex : DexesOf(e), from : {"memory", "file"}])
      BY <1>3, <1>5, ImagesOfIs
    <2>2. \A y \in Range(s) : y.dex \in DexesOf(e)
      <3> DEFINE T == [dex : DexesOf(e), from : {"memory", "file"}]
      <3>1. \A y \in T : y.dex \in DexesOf(e)
        OBVIOUS
      <3> HIDE DEF T
      <3>2. s \in Seq(T)
        BY <2>1 DEF T
      <3> HIDE DEF s
      <3>3. \A y \in Range(s) : y \in T
        BY <3>2 DEF Range
      <3> QED  BY <3>1, <3>3
    <2>3. s \in Seq(S)
      <3> DEFINE T == [dex : DexesOf(e), from : {"memory", "file"}]
      <3>1. e \in Paths
        BY <1>1, <1>5, ElementAt DEF Paths, ToSet
      <3>2. T \subseteq S
        BY <3>1 DEF AllDexes, From
      <3>3. s \in Seq(T)
        BY <2>1
      <3> HIDE DEF T, S, s
      <3> QED  BY <3>2, <3>3, InLarger
    <2>4. /\ Apart(s)
          /\ \A m \in 1..Len(Elements) :
                 m # at /\ Elements[m] # None => DexesOf(Elements[m]) \cap DexesOf(e) = {}
      BY <1>1, <1>5, PlacesDiffer
    <2> HIDE DEF s, S
    <2>5. ASSUME NEW x \in Range(images), NEW y \in Range(s) PROVE x.dex # y.dex
      <3>1. PICK m \in 1..Len(Elements) :
                m < at /\ Elements[m] # None /\ x.dex \in DexesOf(Elements[m])
        BY DEF ReadOnce, ToSet, Range
      <3>2. m # at
        BY <1>3, <3>1
      <3> QED  BY <2>2, <2>4, <3>1, <3>2
    <2>6. Apart(images \o s)
      BY <1>3, <2>3, <2>4, <2>5, ApartTogether DEF ReadOnce
    <2>7. Range(images \o s) = Range(images) \cup Range(s)
      BY <1>3, <2>3, RangeOfConcat
    <2>8. ASSUME NEW x \in Range(images \o s)
          PROVE  \E n \in 1..Len(Elements) :
                     n < at + 1 /\ Elements[n] # None /\ x.dex \in DexesOf(Elements[n])
      <3>1. CASE x \in Range(images)
        <4>1. PICK n \in 1..Len(Elements) :
                  n < at /\ Elements[n] # None /\ x.dex \in DexesOf(Elements[n])
          BY <3>1 DEF ReadOnce, ToSet, Range
        <4>2. n < at + 1
          BY <1>3, <4>1
        <4> QED  BY <4>1, <4>2
      <3>2. CASE x \in Range(s)
        <4>1. at < at + 1
          BY <1>3
        <4> QED  BY <1>1, <1>5, <2>2, <3>2, <4>1
      <3> QED  BY <2>7, <2>8, <3>1, <3>2
    <2> QED  BY <1>1, <1>2, <2>6, <2>8 DEF ReadOnce, ToSet, Range
  <1> QED  BY <1>4, <1>5

LEMMA MakeHandlerReadsOnce ==
  ASSUME LoadInv, ReadOnce, MakeHandler
  PROVE  ReadOnce'
  <1> DEFINE S == [dex : AllDexes, from : From]
  <1>1. device' = device /\ at' = at + 1 /\ at = Len(Elements) + 1
    BY DEF MakeHandler
  <1>2. Elements' = Elements /\ Len(Elements) \in Nat /\ images \in Seq(S)
    BY <1>1, SameDevice, ElementAt DEF LoadInv
  <1>3. DOMAIN images = 1..Len(images) /\ \A i \in 1..Len(images) : images[i] \in S
    <2> HIDE DEF S
    <2> QED  BY <1>2
  <1>4. DOMAIN images' = DOMAIN images /\ \A i \in DOMAIN images : images'[i].dex = images[i].dex
    <2>1. CASE UNCHANGED images
      BY <2>1
    <2>2. CASE images' = [i \in DOMAIN images |->
                    IF Contained(DexFile[images[i].dex].header) THEN images[i]
                    ELSE [images[i] EXCEPT !.from = "garbage"]]
      <3> SUFFICES ASSUME NEW i \in DOMAIN images PROVE images'[i].dex = images[i].dex
        BY <2>2
      <3>1. images[i] \in S
        BY <1>3
      <3>2. [images[i] EXCEPT !.from = "garbage"].dex = images[i].dex
        BY <3>1
      <3> QED  BY <2>2, <3>2
    <2> QED  BY <2>1, <2>2 DEF MakeHandler
  <1>5. Apart(images)'
    BY <1>4 DEF ReadOnce, Apart
  <1>6. ASSUME NEW i \in DOMAIN images
        PROVE  \E n \in 1..Len(Elements) :
                   n < at + 1 /\ Elements[n] # None /\ images[i].dex \in DexesOf(Elements[n])
    <2>1. PICK n \in 1..Len(Elements) :
              n < at /\ Elements[n] # None /\ images[i].dex \in DexesOf(Elements[n])
      BY DEF ReadOnce, ToSet
    <2>2. n < at + 1
      BY <1>1, <1>2, <2>1
    <2> QED  BY <2>1, <2>2
  <1> QED  BY <1>1, <1>2, <1>4, <1>5, <1>6 DEF ReadOnce, ToSet

LEMMA NothingReadOnce ==
  ASSUME images = <<>> PROVE ReadOnce
  <1>1. DOMAIN images = {}
    OBVIOUS
  <1> QED  BY <1>1 DEF ReadOnce, Apart, ToSet

LEMMA ReadOnceInit == Init => ReadOnce
  BY NothingReadOnce DEF Init, loadInit

LEMMA ReadOnceStep == LoadInv /\ ReadOnce /\ [Next]_vars => ReadOnce'
  <1> SUFFICES ASSUME LoadInv, ReadOnce, [Next]_vars PROVE ReadOnce'
    OBVIOUS
  <1>1. CASE UNCHANGED loadVars
    <2>1. Elements' = Elements
      BY <1>1, SameDevice DEF loadVars
    <2> QED  BY <1>1, <2>1 DEF loadVars, ReadOnce, Apart, ToSet
  <1>2. CASE BeginLoad
    <2>1. /\ device' = device /\ images' = images /\ at = 0
          /\ at' = 1 \/ at' = at
      BY <1>2 DEF BeginLoad
    <2>2. Elements' = Elements
      BY <2>1, SameDevice
    <2>3. \A n \in 1..Len(Elements) : n < at => n < at'
      BY <2>1
    <2> QED  BY <2>1, <2>2, <2>3 DEF ReadOnce, Apart, ToSet
  <1>3. CASE LoadElement
    BY <1>3, LoadElementReadsOnce
  <1>4. CASE MakeHandler
    BY <1>4, MakeHandlerReadsOnce
  <1>5. CASE closex \/ Restart
    <2>1. images' = <<>>
      BY <1>5 DEF closex, Restart
    <2>2. DOMAIN images' = {}
      BY <2>1
    <2> QED  BY <2>2 DEF ReadOnce, Apart, ToSet
  <1> QED  BY <1>1, <1>2, <1>3, <1>4, <1>5 DEF Next, Install, Load, vars

(* No dex file on any device is read from memory and again from the file   *)
(* it came from, nor twice from either (wrapper.cc:357-446).               *)
THEOREM NoDexIsReadTwice == Spec => []NoDexTwice
  <1>1. ReadOnce => NoDexTwice
    BY DEF ReadOnce, Apart, NoDexTwice
  <1>2. InstallInv => LoadInv
    BY DEF InstallInv
  <1> QED  BY <1>1, <1>2, ReadOnceInit, ReadOnceStep, InstallAlways, PTL DEF Spec

-----------------------------------------------------------------------------
(* A type that is named nowhere does not hide the method that is looked    *)
(* for, unless it is the first of the parameters.                          *)
LEMMA WantedMatches ==
  ASSUME NEW s, NEW m, Wants(m, s),
         s = "getSupportedLocaleFromCountryCode" => IsNamed("Map")
  PROVE  IsMethodMatch(m, ShapeOf(s))
  <1> DEFINE shape == ShapeOf(s)
  <1>1. /\ shape.ret \in {Free, m.ret} /\ shape.shorty \in {Free, Shorty(m)}
        /\ shape.count \in {Free, Len(m.params)} /\ shape.params \in {<<>>, m.params}
    BY DEF Wants
  <1>2. CASE shape.params = <<>>
    BY <1>1, <1>2 DEF IsMethodMatch
  <1>3. CASE shape.params # <<>>
    <2> DEFINE p == <<"Map", "String">>
               I == {i \in 1..Len(p) : ~IsNamed(p[i])}
    <2>1. shape.params = p /\ IsNamed("Map")
      BY <1>3 DEF ShapeOf, Shape
    <2>2. m.params = p
      BY <1>1, <1>3, <2>1
    <2>3. MatchesParams(m, Known(p))
      <3>1. CASE IsNamed("String")
        <4>1. I = {}
          BY <2>1, <3>1
        <4>2. Known(p) = p
          BY <4>1 DEF Known, SelectInSeq
        <4> QED  BY <2>2, <4>2 DEF MatchesParams
      <3>2. CASE ~IsNamed("String")
        <4>1. I = {2}
          BY <2>1, <3>2
        <4>2. Min({2}) = 2
          <5>1. {2} \subseteq Nat /\ {2} # {}
            OBVIOUS
          <5>2. Min({2}) \in {2}
            BY <5>1, LeastOf
          <5> QED  BY <5>2
        <4>3. SelectInSeq(p, LAMBDA t : ~IsNamed(t)) = 2
          BY <4>1, <4>2 DEF SelectInSeq
        <4>4. Known(p) = Append(SubSeq(p, 1, 1), Free)
          <5> DEFINE n == SelectInSeq(p, LAMBDA t : ~IsNamed(t))
          <5> HIDE DEF p
          <5>1. Known(p) = IF n = 0 THEN p ELSE Append(SubSeq(p, 1, n - 1), Free)
            BY DEF Known
          <5>2. n = 2
            BY <4>3
          <5> HIDE DEF n
          <5> QED  BY <5>1, <5>2
        <4>5. p \in Seq({"Map", "String", Free}) /\ Len(p) = 2 /\ p[1] = "Map"
          OBVIOUS
        <4>6. /\ SubSeq(p, 1, 1) \in Seq({"Map", "String", Free})
              /\ Len(SubSeq(p, 1, 1)) = 1 /\ SubSeq(p, 1, 1)[1] = "Map"
          <5> HIDE DEF p
          <5> QED  BY <4>5
        <4>7. Len(Known(p)) = 2 /\ Known(p)[1] = "Map" /\ Known(p)[2] = Free
          BY <4>4, <4>6
        <4> QED  BY <2>2, <4>7 DEF MatchesParams
      <3> QED  BY <3>1, <3>2
    <2> QED  BY <1>1, <2>1, <2>3 DEF IsMethodMatch
  <1> QED  BY <1>2, <1>3

(* A gate that is there and not hooked has one of the known causes: its    *)
(* dex file cannot be had, one is read outside its image, or the search    *)
(* for the locale was emptied (wrapper.cc:357-446; Module.java:129-169).   *)
THEOREM MissesHaveACause == Spec => []MissHasACause
  <1>1. InstallInv => MissHasACause
    <2> SUFFICES ASSUME InstallInv, pc = "close", log = "ready",
                        NEW s \in ToSet(Wanted) \ {Spelling}, ~Hooked(s), AllReadable,
                        s = "getSupportedLocaleFromCountryCode" => IsNamed("Map"),
                        NEW e \in Paths, NEW d \in DexesOf(e), CanBeHad(e, d),
                        NEW m \in MethodsOf(d), Wants(m, s)
                 PROVE  FALSE
      BY DEF MissHasACause, Spelling
    <2>1. PICK n \in Steps : s = Wanted[n]
      BY Lengths DEF ToSet, Steps, Wanted
    <2>2. \A x \in ToSet(images) : HitsIn(x.dex, s) = {}
      BY <2>1 DEF InstallInv, Searched, Answered
    <2>3. PICK k \in 1..Len(Elements) : Elements[k] = e /\ e \in Element
      BY ElementAt DEF InstallInv, Paths, ToSet
    <2>4. k < at
      BY ElementAt DEF InstallInv, LoadDone
    <2>5. \A x \in Range(ImagesOf(Elements[k])) : Has(x.dex)
      BY <2>4 DEF InstallInv, LoadDone
    <2>6. PICK x \in Range(ImagesOf(Elements[k])) : x.dex = d
      BY <2>3, ImagesOfIs DEF Paths
    <2>7. Has(d)
      BY <2>5, <2>6
    <2>8. HitsIn(d, s) = {}
      BY <2>2, <2>7 DEF Has
    <2>9. d \in DOMAIN DexFile
      BY AllDexesAreDexes DEF InstallInv, LoadInv, AllDexes
    <2>10. PICK j \in DOMAIN Methods(d) : Methods(d)[j] = m
      BY DEF MethodsOf, ToSet
    <2>11. Uses(d, j, s)
      BY <2>9, <2>10, UsesIsTruth DEF Wants
    <2>12. IsMethodMatch(m, ShapeOf(s))
      BY WantedMatches
    <2> QED  BY <2>8, <2>10, <2>11, <2>12 DEF HitsIn
  <1> QED  BY <1>1, InstallAlways, PTL
=============================================================================
