------------------------------- MODULE DexHelper -------------------------------
(***************************************************************************)
(* dex_helper.cc and its JNI wrapper: questions about the methods of some  *)
(* dex files.  A question scans the code of as few methods as it needs and *)
(* keeps what it saw in caches that later questions use; methods, classes  *)
(* and fields are named to the caller by indices into tables that grow     *)
(* with the questions.  One thread asks; a step is one pass of a loop.     *)
(*                                                                         *)
(* A dex file is a record of sorted strings, type descriptors, fields and  *)
(* methods; ids are positions, counted from 1.  The code of a method is    *)
(* the sequence of its instructions that ScanMethod looks at, each a pair  *)
(* of "string", "get", "put" or "invoke" and an id of the same file.       *)
(***************************************************************************)
EXTENDS Naturals, SequencesExt, TLC

CONSTANTS
    Image,        \* the dex files
    Side(_, _),   \* where string s sorts: "before", "in" or "after" the
                  \* strings that start with p
    Question,     \* the questions of a run
    NamedClass, NamedField, NamedMethod,  \* what the caller encodes: Java's names
    None,         \* size_t(-1): any type, any count, no index
    Absent, Wild  \* kNoIndex and uint32_t(-2)

Dex          == 1..Len(Image)
Strings(d)   == 1..Len(Image[d].strings)
Types(d)     == 1..Len(Image[d].types)
Fields(d)    == 1..Len(Image[d].fields)
Methods(d)   == 1..Len(Image[d].methods)
Method(d, m) == Image[d].methods[m]
Field(d, f)  == Image[d].fields[f]
Name(d, t)   == Image[d].types[t]
Operand == [d \in Dex |->
    ({"string"} \X Strings(d)) \cup ({"get", "put"} \X Fields(d))
    \cup ({"invoke"} \X Methods(d))]

(* Each string and each type of a dex file is there once.                  *)
ASSUME ImageIsWellFormed ==
    /\ Len(Image) \in Nat
    /\ \A d \in Dex :
          /\ Len(Image[d].strings) \in Nat
          /\ \A s, o \in Strings(d) : Image[d].strings[s] = Image[d].strings[o] => s = o
          /\ \A t, u \in Types(d) : Name(d, t) = Name(d, u) => t = u
          /\ Len(Image[d].types) \in Nat /\ Len(Image[d].fields) \in Nat
          /\ Len(Image[d].methods) \in Nat
          /\ \A m \in Methods(d) : Method(d, m).code \in Seq(Operand[d])
ASSUME MarksAreNoIds ==
    /\ None \notin Nat /\ Absent \notin Nat /\ Wild \notin Nat
    /\ None # Absent /\ None # Wild /\ Absent # Wild
(* class_indices_[size_t(-1)] would be read for a contained type of -1.    *)
ASSUME QuestionsAreTyped ==
    /\ None \notin Question
    /\ \A x \in Question : /\ x.order \in Seq(Nat) /\ x.first \in BOOLEAN
                           /\ x.params \in Seq(Nat \cup {None}) /\ x.contains \in Seq(Nat)

VARIABLES
    open,       \* the token is not 0
    scanned,    \* searched_methods_
    cache,      \* string_, getting_, setting_ and invoked_cache_
    methodIdx, classIdx, fieldIdx,   \* index -> dex -> id
    pc, q,      \* the question being answered and how far it is
    todo,       \* the dex files left to visit
    pending,    \* ids found in Head(todo) and not answered yet
    out,        \* the indices answered
    hits,       \* history: <<dex, id>> of what is answered
    told        \* history: first answers to exact string questions

(* The elements of a sequence that are in S, in their order.               *)
Those(s, S) ==
    FlattenSeq([i \in 1..Len(s) |-> IF s[i] \in S THEN <<s[i]>> ELSE <<>>])

tables == <<methodIdx, classIdx, fieldIdx>>
caches == <<scanned, cache>>
asking == <<pc, q, todo, pending, out, hits>>
vars   == <<open, caches, tables, asking, told>>

TypeOK ==
    /\ open \in BOOLEAN
    /\ \A d \in Dex : scanned[d] \subseteq Methods(d)
    /\ \A d \in Dex : \A k \in Operand[d] : cache[d][k] \in Seq(Methods(d))
    /\ \A i \in 1..Len(methodIdx) : \A d \in Dex :
          methodIdx[i][d] \in Methods(d) \cup {Absent}
    /\ \A i \in 1..Len(classIdx) : \A d \in Dex :
          classIdx[i][d] \in Types(d) \cup {Absent}
    /\ \A i \in 1..Len(fieldIdx) : \A d \in Dex :
          fieldIdx[i][d] \in Fields(d) \cup {Absent}
    /\ pc \in {"idle", "full", "visit", "scan", "collect", "emit", "reply"}
    /\ q \in Question \cup {None}
    /\ todo \in Seq(Dex) /\ Len(out) = Len(hits)

(* A new DexHelper: nothing is scanned and nothing named.                  *)
Blank == /\ scanned = [d \in Dex |-> {}]
         /\ cache = [d \in Dex |-> [k \in Operand[d] |-> <<>>]]
         /\ methodIdx = <<>> /\ classIdx = <<>> /\ fieldIdx = <<>>

Init ==
    /\ open \in BOOLEAN /\ Blank
    /\ pc = "idle" /\ q = None /\ todo = <<>> /\ pending = <<>>
    /\ out = <<>> /\ hits = <<>>
    /\ told = [x \in Question |-> None]

-----------------------------------------------------------------------------
(* What is in the image.                                                   *)

Uses(d, m, k) == k \in Range(Method(d, m).code)

(* Types and fields of a name: at most one of each in a dex file.  Methods *)
(* of a class, a name and a number of parameters: what CreateMethodIndex   *)
(* takes for one and the same, since its test of the parameters' types     *)
(* goes on with the next parameter instead of the next candidate.          *)
ClassNamed(c) == [d \in Dex |-> {t \in Types(d) : Name(d, t) = c}]
FieldNamed(n) ==
    [d \in Dex |-> {f \in Fields(d) :
        n = [class |-> Name(d, Field(d, f).class), name |-> Field(d, f).name]}]
KeyOf(d, m) == [class |-> Name(d, Method(d, m).class), name |-> Method(d, m).name,
                count |-> Len(Method(d, m).params)]
MethodNamed(n) == [d \in Dex |-> {m \in Methods(d) : KeyOf(d, m) = n}]

(* CreateMethodIndex, CreateClassIndex, CreateFieldIndex: the index of the *)
(* first candidate that has one, from dex file `from` on; else a new row   *)
(* with the last candidate of each file; None if there is no candidate.    *)
Marked(idx, cands, d) ==
    {c \in cands[d] : \E i \in 1..Len(idx) : idx[i][d] = c}
(* Mutant: the new row is not filled with kNoIndex first.                  *)
RowOfZeros(cands, from) ==
    [d \in Dex |-> IF d < from \/ cands[d] = {} THEN 0 ELSE Max(cands[d])]
Row(cands, from) ==
    [d \in Dex |-> IF d < from \/ cands[d] = {} THEN Absent ELSE Max(cands[d])]
KnownAs(idx, cands, from) ==
    LET d == Min({e \in Dex : e >= from /\ Marked(idx, cands, e) # {}})
    IN CHOOSE i \in 1..Len(idx) : idx[i][d] = Min(Marked(idx, cands, d))
IsKnown(idx, cands, from) ==
    \E d \in Dex : d >= from /\ Marked(idx, cands, d) # {}
IsNowhere(cands, from) == \A d \in Dex : d >= from => cands[d] = {}

Index(idx, cands, from) ==
    IF IsKnown(idx, cands, from) THEN KnownAs(idx, cands, from)
    ELSE IF IsNowhere(cands, from) THEN None ELSE Len(idx) + 1
(* Mutants: no look at rev_method_indices_ before a new row; a look at the  *)
(* first dex file only.                                                    *)
GrownUnlessFirst(idx, cands, from) ==
    IF Marked(idx, cands, from) # {} \/ IsNowhere(cands, from) THEN idx
    ELSE Append(idx, Row(cands, from))
GrownAlways(idx, cands, from) ==
    IF IsNowhere(cands, from) THEN idx ELSE Append(idx, Row(cands, from))
Grown(idx, cands, from) ==
    IF IsKnown(idx, cands, from) \/ IsNowhere(cands, from) THEN idx
    ELSE Append(idx, Row(cands, from))

-----------------------------------------------------------------------------
(* Which methods a question is about.                                      *)

IsClassIndex(i) == i \in 1..Len(classIdx)
Leading(s) == Max({0} \cup {n \in 1..Len(s) :
                            \A i \in 1..n : IsClassIndex(s[i])})

(* ConvertParameters: both lists end before the first type that was never  *)
(* named; "any type" is kept and ends the list as well, and an unknown     *)
(* type also drops the list of contained types.                            *)
ParamIds(d, x) ==
    LET n == Leading(x.params)
    IN [i \in 1..n |-> classIdx[x.params[i]][d]]
       \o (IF n < Len(x.params) /\ x.params[n + 1] = None THEN <<Wild>> ELSE <<>>)
ContainedIds(d, x) ==
    LET n == Leading(x.params)
    IN IF n < Len(x.params) /\ x.params[n + 1] # None THEN {}
       ELSE {classIdx[x.contains[i]][d] : i \in 1..Leading(x.contains)}

Fits(i, d, t) == i = None \/ classIdx[i][d] = t

(* IsMethodMatch                                                           *)
IsMethodMatch(d, m, x) ==
    LET p == Method(d, m).params
        given == ParamIds(d, x)
    IN /\ Fits(x.class, d, Method(d, m).class)
       /\ Fits(x.ret, d, Method(d, m).ret)
       /\ x.shorty \in {"", Method(d, m).shorty}
       /\ x.count \in {None, Len(p)}
       /\ given # <<>> =>
             /\ Len(given) = Len(p)
             /\ \A i \in 1..Len(p) : given[i] \in {Wild, p[i]}
       /\ ContainedIds(d, x) \subseteq Range(p)

(* FindPrefixStringId and FindPrefixStringIdExact: a prefix is not found   *)
(* when no string sorts after it, although strings may start with it.      *)
StringsFound(d, x) ==
    {s \in Strings(d) : IF x.prefix THEN Side(Image[d].strings[s], x.of) = "in"
                        ELSE Image[d].strings[s] = x.of}
(* Strings are sorted, so that those with a prefix lie together.           *)
ASSUME StringsAreSorted ==
    \A d \in Dex : \A x \in Question : x.prefix =>
        \A s, o \in StringsFound(d, x) : s..o \subseteq StringsFound(d, x)
StringSearchable(d, x) ==
    IF x.prefix
    THEN \E s \in Strings(d) : Side(Image[d].strings[s], x.of) = "after"
    ELSE StringsFound(d, x) # {}

(* What the question looks for in dex file d, or that d can be passed by.  *)
Target(d, x) ==
    CASE x.kind \in {"invoking", "invoked"} -> methodIdx[x.of][d]
      [] x.kind \in {"getting", "setting"}  -> fieldIdx[x.of][d]
      [] OTHER                              -> classIdx[x.of][d]
PassedBy(d, x) == IF x.kind = "string" THEN ~StringSearchable(d, x)
                  ELSE Target(d, x) = Absent
Instruction(x) == CASE x.kind = "invoked" -> "invoke"
                    [] x.kind = "getting" -> "get"
                    [] x.kind = "setting" -> "put"
Sought(d, x) ==
    IF x.kind = "string"
    THEN [i \in 1..Cardinality(StringsFound(d, x)) |->
            <<"string", Min(StringsFound(d, x)) + i - 1>>]
    ELSE << <<Instruction(x), Target(d, x)>> >>

(* Mutant: methods cached by other questions are taken as they are.        *)
CachedUnfiltered(d, x) ==
    FlattenSeq([i \in DOMAIN Sought(d, x) |-> cache[d][Sought(d, x)[i]]])
(* The methods that the caches give for the question, in their order.      *)
Cached(d, x) ==
    Those(FlattenSeq([i \in DOMAIN Sought(d, x) |-> cache[d][Sought(d, x)[i]]]),
          {m \in Methods(d) : IsMethodMatch(d, m, x)})

GetPriority(x) == IF x.order = <<>> THEN [d \in Dex |-> d]
                  ELSE Those(x.order, Dex)

-----------------------------------------------------------------------------
(* Scanning.                                                               *)

Times(d, m, k) == Cardinality({i \in DOMAIN Method(d, m).code :
                               Method(d, m).code[i] = k})

(* Mutants: the newest method first; and a scan that ends where it found   *)
(* the string asked for.                                                   *)
ScanToFront(d, m) ==
    /\ scanned' = [scanned EXCEPT ![d] = @ \cup {m}]
    /\ cache' = [cache EXCEPT ![d] = [k \in Operand[d] |->
                    [i \in 1..Times(d, m, k) |-> m] \o cache[d][k]]]
ScanUntilFound(d, m) ==
    LET code == Method(d, m).code
        seen == IF q # None /\ q.kind = "string"
                THEN {i \in DOMAIN code : \A j \in 1..(i - 1) :
                        code[j] \notin Range(Sought(d, q))}
                ELSE DOMAIN code
    IN /\ scanned' = [scanned EXCEPT ![d] = @ \cup {m}]
       /\ cache' = [cache EXCEPT ![d] = [k \in Operand[d] |->
            cache[d][k] \o
            [i \in 1..Cardinality({j \in seen : code[j] = k}) |-> m]]]

(* ScanMethod of a method that was not scanned yet: one entry in the       *)
(* caches for every instruction.                                           *)
ScanMethod(d, m) ==
    /\ scanned' = [scanned EXCEPT ![d] = @ \cup {m}]
    /\ cache' = [cache EXCEPT ![d] = [k \in Operand[d] |->
                    cache[d][k] \o [i \in 1..Times(d, m, k) |-> m]]]

-----------------------------------------------------------------------------
(* A question is put.                                                      *)

Begin(x, named) ==
    /\ pc = "idle" /\ open
    /\ q' = x
    /\ pc' = (IF named THEN "visit" ELSE "reply")
    /\ todo' = (IF named THEN GetPriority(x) ELSE <<>>)
    /\ UNCHANGED <<open, caches, tables, pending, out, hits, told>>

ShapeNamed(x) == \A i \in {x.ret, x.class} : i = None \/ IsClassIndex(i)

FindMethodUsingString(x) == Begin(x, ShapeNamed(x))
FindMethodInvoking(x) ==
    Begin(x, x.of \in 1..Len(methodIdx) /\ ShapeNamed(x))
FindMethodInvoked(x) ==
    Begin(x, x.of \in 1..Len(methodIdx) /\ ShapeNamed(x))
FindMethodGettingField(x) ==
    Begin(x, x.of \in 1..Len(fieldIdx) /\ ShapeNamed(x))
FindMethodSettingField(x) ==
    Begin(x, x.of \in 1..Len(fieldIdx) /\ ShapeNamed(x))
FindField(x) == Begin(x, IsClassIndex(x.of))

(* The natives of wrapper.cc: a closed helper answers nothing; null lists  *)
(* and a null shorty are the empty ones; the answer is copied to a long[]. *)
NoHandler(x) ==
    /\ pc = "idle" /\ ~open
    /\ q' = x /\ pc' = "reply"
    /\ UNCHANGED <<open, caches, tables, todo, pending, out, hits, told>>

findMethodUsingString(x) ==
    x.kind = "string" /\ (NoHandler(x) \/ FindMethodUsingString(x))
findMethodInvoking(x) ==
    x.kind = "invoking" /\ (NoHandler(x) \/ FindMethodInvoking(x))
findMethodInvoked(x) ==
    x.kind = "invoked" /\ (NoHandler(x) \/ FindMethodInvoked(x))
findMethodGettingField(x) ==
    x.kind = "getting" /\ (NoHandler(x) \/ FindMethodGettingField(x))
findMethodSettingField(x) ==
    x.kind = "setting" /\ (NoHandler(x) \/ FindMethodSettingField(x))
findField(x) == x.kind = "field" /\ (NoHandler(x) \/ FindField(x))

Ask(x) ==
    \/ findMethodUsingString(x) \/ findMethodInvoking(x) \/ findMethodInvoked(x)
    \/ findMethodGettingField(x) \/ findMethodSettingField(x) \/ findField(x)

-----------------------------------------------------------------------------
(* The loop over the dex files; d is the one visited.                      *)

Searches == q.kind \in {"string", "invoked", "getting", "setting"}

Visiting(d) == pc = "visit" /\ todo # <<>> /\ d = Head(todo)

PassBy(d) ==
    /\ Visiting(d) /\ PassedBy(d, q)
    /\ todo' = Tail(todo)
    /\ UNCHANGED <<open, caches, tables, pc, q, pending, out, hits, told>>

(* `if (find_first)`: what was scanned before may be enough.               *)
AnswerFromCache(d) ==
    /\ Visiting(d) /\ ~PassedBy(d, q)
    /\ Searches /\ q.first /\ Cached(d, q) # <<>>
    /\ pending' = <<Head(Cached(d, q))>> /\ pc' = "emit"
    /\ UNCHANGED <<open, caches, tables, q, todo, out, hits, told>>

StartScan(d) ==
    /\ Visiting(d) /\ ~PassedBy(d, q)
    /\ Searches /\ (q.first => Cached(d, q) = <<>>)
    /\ pc' = "scan"
    /\ UNCHANGED <<open, caches, tables, q, todo, pending, out, hits, told>>

Unscanned(d) == {m \in Methods(d) \ scanned[d] : IsMethodMatch(d, m, q)}

(* Mutant: the first method of the right shape ends the scan.              *)
EnoughAtOnce(d, m) == q.first
(* When a search for the first one stops scanning: a string, when the      *)
(* method just scanned uses it; else, when the cache of the target holds   *)
(* anything, methods of another shape included.                            *)
Enough(d, m) ==
    q.first /\ IF q.kind = "string"
               THEN \E k \in Range(Sought(d, q)) : Uses(d, m, k)
               ELSE cache'[d][Sought(d, q)[1]] # <<>>

ScanNext(d) ==
    /\ pc = "scan" /\ d = Head(todo) /\ Unscanned(d) # {}
    /\ LET m == Min(Unscanned(d))
       IN ScanMethod(d, m) /\ pc' = IF Enough(d, m) THEN "collect" ELSE "scan"
    /\ UNCHANGED <<open, tables, q, todo, pending, out, hits, told>>

Collect(d) ==
    /\ pc \in {"scan", "collect"} /\ d = Head(todo)
    /\ pc = "scan" => Unscanned(d) = {}
    /\ pending' = Cached(d, q) /\ pc' = "emit"
    /\ UNCHANGED <<open, caches, tables, q, todo, out, hits, told>>

(* FindMethodInvoking: the callees of one method (invoking_cache_).        *)
Callees(d, m) ==
    LET calls == Those(Method(d, m).code, {"invoke"} \X Methods(d))
    IN [i \in DOMAIN calls |-> calls[i][2]]
CollectCallees(d) ==
    /\ Visiting(d) /\ ~PassedBy(d, q) /\ q.kind = "invoking"
    /\ IF Target(d, q) \in scanned[d] THEN UNCHANGED caches
       ELSE ScanMethod(d, Target(d, q))
    /\ pending' = Those(Callees(d, Target(d, q)),
                        {m \in Methods(d) : IsMethodMatch(d, m, q)})
    /\ pc' = "emit"
    /\ UNCHANGED <<open, tables, q, todo, out, hits, told>>

(* FindField: the fields of a type (declaring_cache_).                     *)
CollectFields(d) ==
    /\ Visiting(d) /\ ~PassedBy(d, q) /\ q.kind = "field"
    /\ pending' = Those([f \in Fields(d) |-> f],
                        {f \in Fields(d) : Field(d, f).type = Target(d, q)})
    /\ pc' = "emit"
    /\ UNCHANGED <<open, caches, tables, q, todo, out, hits, told>>

(* An id becomes an index: of a method by its name in all dex files, of a  *)
(* field by its name in the file where it was found and those after it.    *)
Emit(d) ==
    /\ pc = "emit" /\ pending # <<>> /\ d = Head(todo)
    /\ LET id == Head(pending)
           found == MethodNamed(KeyOf(d, id))
           fields == FieldNamed([class |-> Name(d, Field(d, id).class),
                                 name |-> Field(d, id).name])
       IN /\ hits' = Append(hits, <<d, id>>)
          /\ IF q.kind = "field"
             THEN /\ out' = Append(out, Index(fieldIdx, fields, d))
                  /\ fieldIdx' = Grown(fieldIdx, fields, d)
                  /\ UNCHANGED methodIdx
             ELSE /\ out' = Append(out, Index(methodIdx, found, 1))
                  /\ methodIdx' = Grown(methodIdx, found, 1)
                  /\ UNCHANGED fieldIdx
    /\ pending' = Tail(pending)
    /\ pc' = IF q.first THEN "reply" ELSE "emit"
    /\ UNCHANGED <<open, caches, classIdx, q, todo, told>>

NextDex(d) ==
    /\ pc = "emit" /\ pending = <<>> /\ d = Head(todo)
    /\ todo' = Tail(todo) /\ pc' = "visit"
    /\ UNCHANGED <<open, caches, tables, q, pending, out, hits, told>>

Visit(d) ==
    \/ PassBy(d) \/ AnswerFromCache(d) \/ StartScan(d) \/ ScanNext(d)
    \/ Collect(d) \/ CollectCallees(d) \/ CollectFields(d) \/ Emit(d) \/ NextDex(d)

Finish ==
    /\ pc = "visit" /\ todo = <<>> /\ pc' = "reply"
    /\ UNCHANGED <<open, caches, tables, q, todo, pending, out, hits, told>>

(* The shape asked for cannot change any more: all its types are named.    *)
Definite(x) ==
    \A i \in Range(x.params) \cup Range(x.contains) : i = None \/ IsClassIndex(i)

Reply ==
    /\ pc = "reply" /\ pc' = "idle"
    /\ told' = IF /\ out # <<>> /\ q.kind = "string" /\ q.first /\ ~q.prefix
                  /\ Definite(q) /\ told[q] = None
               THEN [told EXCEPT ![q] = hits[1]] ELSE told
    /\ q' = None /\ todo' = <<>> /\ pending' = <<>> /\ out' = <<>> /\ hits' = <<>>
    /\ UNCHANGED <<open, caches, tables>>

-----------------------------------------------------------------------------
(* The other operations.                                                   *)

(* DecodeMethod, DecodeClass, DecodeField: what an index stands for in the  *)
(* first dex file that has it.                                             *)
FirstWith(row) == Min({d \in Dex : row[d] # Absent})
DecodeMethod(i) ==
    LET d == FirstWith(methodIdx[i]) IN <<d, methodIdx[i][d]>>
DecodeClass(i) ==
    LET d == FirstWith(classIdx[i]) IN Name(d, classIdx[i][d])
DecodeField(i) ==
    LET d == FirstWith(fieldIdx[i])
        f == Field(d, fieldIdx[i][d])
    IN [class |-> Name(d, f.class), name |-> f.name]

(* The types are told by their descriptors; a class has its own, a         *)
(* primitive type a letter, and void is taken for a class.                 *)
Primitive == "boolean" :> "Z" @@ "byte" :> "B" @@ "short" :> "S" @@ "char" :> "C"
             @@ "int" :> "I" @@ "long" :> "J" @@ "float" :> "F" @@ "double" :> "D"
GetClassDescriptor(c) == IF c \in DOMAIN Primitive THEN Primitive[c] ELSE c

encodeClassIndex(c) ==
    /\ pc = "idle" /\ open
    /\ classIdx' = Grown(classIdx, ClassNamed(GetClassDescriptor(c)), 1)
    /\ UNCHANGED <<open, caches, methodIdx, fieldIdx, asking, told>>
encodeFieldIndex(n) ==
    /\ pc = "idle" /\ open
    /\ fieldIdx' = Grown(fieldIdx, FieldNamed([n EXCEPT !.class = GetClassDescriptor(@)]), 1)
    /\ UNCHANGED <<open, caches, methodIdx, classIdx, asking, told>>
encodeMethodIndex(n) ==
    /\ pc = "idle" /\ open
    /\ methodIdx' = Grown(methodIdx, MethodNamed([n EXCEPT !.class = GetClassDescriptor(@)]), 1)
    /\ UNCHANGED <<open, caches, classIdx, fieldIdx, asking, told>>

(* CreateFullCache: every method of every file that is not scanned yet.    *)
createFullCache ==
    /\ pc = "idle" /\ open
    /\ pc' = "full"
    /\ UNCHANGED <<open, caches, tables, q, todo, pending, out, hits, told>>
ScanAny ==
    /\ pc = "full"
    /\ IF \A d \in Dex : scanned[d] = Methods(d)
       THEN pc' = "idle" /\ UNCHANGED caches
       ELSE LET d == Min({e \in Dex : scanned[e] # Methods(e)})
            IN ScanMethod(d, Min(Methods(d) \ scanned[d])) /\ UNCHANGED pc
    /\ UNCHANGED <<open, tables, q, todo, pending, out, hits, told>>

(* closex, by the caller and again by finalize: `delete handler`.          *)
close ==
    /\ pc = "idle"
    /\ open' = FALSE
    /\ scanned' = [d \in Dex |-> {}]
    /\ cache' = [d \in Dex |-> [k \in Operand[d] |-> <<>>]]
    /\ methodIdx' = <<>> /\ classIdx' = <<>> /\ fieldIdx' = <<>>
    /\ told' = [x \in Question |-> None]
    /\ UNCHANGED asking

Next ==
    \/ \E x \in Question : Ask(x)
    \/ \E d \in Dex : Visit(d)
    \/ Finish \/ Reply
    \/ \E c \in NamedClass : encodeClassIndex(c)
    \/ \E n \in NamedField : encodeFieldIndex(n)
    \/ \E n \in NamedMethod : encodeMethodIndex(n)
    \/ createFullCache \/ ScanAny \/ close

Spec == Init /\ [][Next]_vars

-----------------------------------------------------------------------------
(* Properties.                                                             *)

(* The caches say neither more nor less than the code of the methods that  *)
(* were scanned (178-278): searched_methods_ is what decides whether an    *)
(* answer may be taken from them.                                          *)
CachesAreScans ==
    \A d \in Dex : \A k \in Operand[d] :
        Range(cache[d][k]) = {m \in scanned[d] : Uses(d, m, k)}

(* An index stands for one class, name and number of parameters in all dex *)
(* files, and there is one index for each: whichever question or encoding  *)
(* came first and whatever other indices were made since (676-725).        *)
MethodIndexIsAName ==
    \A i \in 1..Len(methodIdx) :
        /\ \E d \in Dex :
              /\ methodIdx[i][d] \in Methods(d)
              /\ methodIdx[i] = Row(MethodNamed(KeyOf(d, methodIdx[i][d])), 1)
        /\ \A j \in 1..Len(methodIdx) : methodIdx[i] = methodIdx[j] => i = j

(* An index of a class or a field decodes to a name whose encoding is the   *)
(* same index again, also when findField made it from a later dex file on  *)
(* and it covers only that one (820-860).                                  *)
IndicesDecodeBack ==
    /\ \A i \in 1..Len(classIdx) :
          Index(classIdx, ClassNamed(DecodeClass(i)), 1) = i
    /\ \A i \in 1..Len(fieldIdx) :
          /\ Index(fieldIdx, FieldNamed(DecodeField(i)), 1) = i
          /\ \E from \in Dex : fieldIdx[i] = Row(FieldNamed(DecodeField(i)), from)

(* What a question should find in dex file d: from the image, and from the *)
(* name that its index stands for; the shape asked for is the one that     *)
(* ConvertParameters makes of the question.                                *)
Subjects(d, x) ==
    CASE x.kind = "string" -> StringsFound(d, x)
      [] x.kind = "field"  -> ClassNamed(DecodeClass(x.of))[d]
      [] x.kind \in {"getting", "setting"} -> FieldNamed(DecodeField(x.of))[d]
      [] OTHER -> LET m == DecodeMethod(x.of) IN MethodNamed(KeyOf(m[1], m[2]))[d]
Relates(d, x, c, id) ==
    CASE x.kind = "string"   -> Uses(d, id, <<"string", c>>)
      [] x.kind = "field"    -> Field(d, id).type = c
      [] x.kind = "invoking" -> Uses(d, c, <<"invoke", id>>)
      [] OTHER               -> Uses(d, id, <<Instruction(x), c>>)
Right(d, x) ==
    {id \in (IF x.kind = "field" THEN Fields(d) ELSE Methods(d)) :
        /\ x.kind # "field" => IsMethodMatch(d, id, x)
        /\ \E c \in Subjects(d, x) : Relates(d, x, c, id)}
AllRight(x) == UNION {{d} \X Right(d, x) : d \in Range(GetPriority(x))}

(* What cannot be found there: strings by a prefix after which none sorts  *)
(* (147-158), by a field index that findField made from a later dex file   *)
(* on (512, 573, 824), and what is about another method or field of that   *)
(* name than the one in the row (706-720).                                 *)
Lost(d, x, id) ==
    \/ /\ x.kind = "string" /\ x.prefix
       /\ \A s \in Strings(d) : Side(Image[d].strings[s], x.of) # "after"
    \/ x.kind \in {"getting", "setting"} /\ Target(d, x) = Absent
    \/ /\ x.kind \notin {"string", "field"} /\ Target(d, x) \in Subjects(d, x)
       /\ ~Relates(d, x, Target(d, x), id)

Answered == pc = "reply" /\ open /\ out # <<>>

(* Whatever was scanned and cached before, each answer is one that the     *)
(* code holds, and a search for all finds every one that is not lost by    *)
(* its prefix or its index (323-635).                                      *)
AnswersAreRight ==
    /\ Answered => Range(hits) \subseteq AllRight(q)
    /\ pc = "visit" /\ todo = <<>> /\ ~q.first =>
          \A h \in AllRight(q) : h \in Range(hits) \/ Lost(h[1], q, h[2])

(* A search for the first one leaves a dex file only when it holds none,   *)
(* or none that is not lost; or, for a caller, getter or setter, when the  *)
(* cache held a method of another shape, which ends the scan early (477,   *)
(* 539, 601).                                                              *)
MissHasACause ==
    \A d \in Dex :
        /\ todo # <<>> /\ d = Head(todo) /\ q.first
        /\ (pc = "emit" /\ pending = <<>>) \/ (pc = "visit" /\ PassedBy(d, q))
        => \/ \A id \in Right(d, q) : Lost(d, q, id)
           \/ /\ pc = "emit" /\ q.kind \in {"invoked", "getting", "setting"}
              /\ \E m \in Range(cache[d][Sought(d, q)[1]]) : ~IsMethodMatch(d, m, q)

(* The same question about a whole string has the same first answer as     *)
(* long as the helper is open, whatever is asked in between.               *)
SameAnswerAgain ==
    Answered /\ told[q] # None => hits[1] = told[q]

(* Module.java:56, "find first method whose body references `str`,         *)
(* matching the given return/arg shape".                                   *)
FoundMatchesShape ==
    Answered /\ q.kind = "string" /\ q.first =>
        LET found == DecodeMethod(out[1])
        IN found[2] \in Right(found[1], q)
=============================================================================
