----------------------------- MODULE Installation -----------------------------
(***************************************************************************)
(* The dialer's process from its start: onPackageReady opens a DexHelper   *)
(* on the class loader, asks it for one string after the other and hooks   *)
(* what it answers; then the dialer takes calls.                           *)
(*                                                                         *)
(* A dex file is its header, its strings, the types it names and its       *)
(* methods; a method has a class, a name, params and ret (types), its code *)
(* units, none for a method only referred to, and                          *)
(*   truth   the strings that its source refers to                         *)
(*   decodes what comes of hooking it: "method", or it throws              *)
(***************************************************************************)
EXTENDS DexLoad, CodeWalk, Hooks, FiniteSetsExt

CONSTANTS
    Free,       \* -1 or null: not filtered by
    Garbled     \* what a search of a dex file outside its image may find

ASSUME GarbledIsHookable == Garbled \subseteq Method

Methods(d)   == DexFile[d].methods
MethodsOf(d) == ToSet(Methods(d))
Signature(m) == [class |-> m.class, name |-> m.name, params |-> m.params]

ScanRefsOfKind(code, kinds) ==
    {r[2] : r \in {x \in ScanMethodRefs(code) : x[1] \in kinds}}
ParseRefsOfKind(code, kind) ==
    {r[2] : r \in {x \in UNION {ParseRefs(code, i) : i \in ParseVisits(code)} :
                   x[1] = kind}}

(* A dex file as the compiler leaves it.  The slicer's instruction list is *)
(* the one of the format: what the source refers to is what is read by it. *)
MethodIn(d) ==
    [class : STRING, name : STRING, ret : STRING, params : Seq(STRING), code : Seq(Unit),
     truth : SUBSET ToSet(DexFile[d].strings), decodes : STRING]
ASSUME DexFilesAreTyped ==
    \A d \in DOMAIN DexFile :
        /\ DexFile[d].strings \in Seq(STRING)
        /\ DexFile[d].methods \in Seq(MethodIn(d))
        /\ \A m \in MethodsOf(d) : Signature(m) \in Method
ASSUME CodeIsOfTheSource ==
    \A d \in DOMAIN DexFile : \A m \in MethodsOf(d) :
        /\ IsCode(m.code)
        /\ ParseRefsOfKind(m.code, "StringRef") \subseteq 0..(Len(DexFile[d].strings) - 1)
        /\ m.truth = {DexFile[d].strings[i + 1] : i \in ParseRefsOfKind(m.code, "StringRef")}

vars == <<loadVars, hookVars>>

Init == device \in DOMAIN Device /\ loadInit /\ HooksInit

-----------------------------------------------------------------------------
(* The searches.                                                           *)

Shape(ret, count, shorty, params) ==
    [ret |-> ret, count |-> count, shorty |-> shorty, params |-> params]
(* The arguments of findByString.                                          *)
ShapeOf(s) ==
    CASE s \in Contingency -> Shape(Free, Free, Free, <<>>)
      [] s = "getSupportedLocaleFromCountryCode" ->
             Shape("Locale", 2, Free, <<"Map", "String">>)
      [] s = "produceIsCallInAutoRecordContactsList" -> Shape(Free, Free, <<"Z">>, <<>>)
      [] OTHER -> Shape(Free, 0, <<"Z">>, <<>>)

IsReadable(i) == i.from # "garbage"
AllReadable   == \A i \in ToSet(images) : IsReadable(i)
IsNamed(type) == \E i \in ToSet(images) : IsReadable(i) /\ type \in DexFile[i.dex].types

Shorty(m) == <<m.ret>> \o m.params
MatchesParams(m, params) ==
    /\ Len(m.params) = Len(params)
    /\ \A k \in DOMAIN params : params[k] \in {Free, m.params[k]}

(* A type that encodeClassIndex does not know is -1: any return type, and  *)
(* as a parameter any type and the end of the list.                        *)
Known(params) ==
    LET n == SelectInSeq(params, LAMBDA t : ~IsNamed(t))
    IN IF n = 0 THEN params ELSE Append(SubSeq(params, 1, n - 1), Free)
IsMethodMatch(m, shape) ==
    /\ shape.ret \in {Free, m.ret} \/ ~IsNamed(shape.ret)
    /\ shape.shorty \in {Free, Shorty(m)}
    /\ shape.count \in {Free, Len(m.params)}
    /\ shape.params # <<>> => MatchesParams(m, Known(shape.params))

(* What ScanMethod finds in the methods of each dex file.                  *)
Scanned == [d \in DOMAIN DexFile |->
    [k \in DOMAIN Methods(d) |-> ScanMethodRefs(Methods(d)[k].code)]]
Uses(d, k, s) ==
    \E i \in DOMAIN DexFile[d].strings :
        DexFile[d].strings[i] = s /\ <<"string", i - 1>> \in Scanned[d][k]

(* The first of findMethodUsingString: each search that Module makes scans *)
(* all methods of its shape up to its first hit, so what is cached comes   *)
(* in the order of the ids.                                                *)
HitsIn(d, s) ==
    {k \in DOMAIN Methods(d) : IsMethodMatch(Methods(d)[k], ShapeOf(s)) /\ Uses(d, k, s)}

(* decodeMethodIndex of its index: the last method with its class, name    *)
(* and number of parameters in the first dex file that has one.            *)
AreNamesakes(m, n) ==
    n.class = m.class /\ n.name = m.name /\ Len(n.params) = Len(m.params)
Namesakes(d, m) == {k \in DOMAIN Methods(d) : AreNamesakes(m, Methods(d)[k])}
Decoded(m) ==
    LET i == SelectInSeq(images, LAMBDA x : IsReadable(x) /\ Namesakes(x.dex, m) # {})
        d == images[i].dex
    IN Methods(d)[Max(Namesakes(d, m))]

Nothing == [kind |-> "none"]
Throws  == [kind |-> "throws"]
(* The class is loaded by its descriptor, then the method or the static    *)
(* method of the name and the signature is looked up; what is not there    *)
(* comes back as an array, which is no Method.                             *)
decodeMethodIndex(m) ==
    IF m.decodes = "method" THEN [kind |-> "method", method |-> Signature(m)] ELSE Throws

findByString(s) ==
    LET i == SelectInSeq(images, LAMBDA x : IsReadable(x) /\ HitsIn(x.dex, s) # {})
        d == images[i].dex
        m == Decoded(Methods(d)[Min(HitsIn(d, s))])
    IN IF i = 0 THEN Nothing ELSE decodeMethodIndex(m)

(* With a dex file read outside its image a search answers anything: no    *)
(* method, a method of whatever source, or what cannot be hooked.          *)
Answers(s) ==
    {findByString(s)} \cup (IF AllReadable THEN {}
                           ELSE {r \in Result : r.kind = "method" => r.method \in Garbled})

-----------------------------------------------------------------------------
Install ==
    \/ onPackageReady /\ UNCHANGED loadVars
    \/ pc = "load" /\ ~Loaded /\ Load /\ UNCHANGED hookVars
    \/ pc = "load" /\ Loaded /\ NewDexHelper(token) /\ UNCHANGED loadVars
    \/ hookPublicTts /\ UNCHANGED loadVars
    \/ \E r \in Answers(Wanted[next]) : Search(r) /\ UNCHANGED loadVars
    \/ ~AllReadable /\ SearchFaults /\ UNCHANGED loadVars
    \/ close /\ closex

Restart == DialerDies /\ at' = 0 /\ images' = <<>> /\ token' = "null" /\ UNCHANGED device

Next == Install \/ (Calls /\ UNCHANGED loadVars) \/ Restart

(* The thread goes on: Install is enabled in every other step (fairness of *)
(* Install, with that for ENABLED).                                        *)
Fairness == /\ WF_vars(onPackageReady /\ UNCHANGED loadVars)
            /\ \/ []<>(pc \in {"idle", "done", "died"})
               \/ []<><<Install>>_vars

Spec == Init /\ [][Next]_vars /\ Fairness

-----------------------------------------------------------------------------
(* What is on the device, whether it is read or not.                       *)

InZip(e)    == e.file \notin {None, Unmappable} /\ "zip" \in DOMAIN e.file
DexesOf(e)  == (ToSet(e.dexes) \ {None, Compact})
               \cup (IF e.file \in {None, Unmappable} THEN {}
                     ELSE IF InZip(e) THEN {x.dex : x \in ToSet(e.file.zip)} \ {None}
                     ELSE {e.file.raw})
Paths       == ToSet(Elements) \ {None}
AllDexes    == UNION {DexesOf(e) : e \in Paths}

(* A dex file is one that is in one place: in one element of the path, and *)
(* there at most once in the cookie and once in the zip.                   *)
OnceEach(dexes) ==
    \A i, j \in DOMAIN dexes : dexes[i] = dexes[j] /\ dexes[i] \in DOMAIN DexFile => i = j
ASSUME DexesAreInOnePlace ==
    \A n \in DOMAIN Device : Device[n].elements # None =>
        LET elements == Device[n].elements
            present  == {i \in DOMAIN elements : elements[i] # None}
        IN /\ \A i, j \in present : i # j => DexesOf(elements[i]) \cap DexesOf(elements[j]) = {}
           /\ \A i \in present :
                  LET e == elements[i]
                  IN /\ OnceEach(e.dexes)
                     /\ InZip(e) => OnceEach([k \in DOMAIN e.file.zip |-> e.file.zip[k].dex])

(* A dex file in the zip can be had: its entry is whole and the first of   *)
(* its name, all numbers before its own are there, and no entry up to it   *)
(* leaves its size to a descriptor.                                        *)
IsReached(zip, k) ==
    /\ zip[k].name # 0
    /\ \A j \in 1..k : zip[j].sized
    /\ zip[k].intact /\ zip[k].method \in {0, 8}
    /\ \A j \in 1..(k - 1) : zip[j].name # zip[k].name
    /\ \A n \in 1..(zip[k].name - 1) : \E j \in DOMAIN zip :
           zip[j].name = n /\ \A i \in 1..(j - 1) : zip[i].sized
InMemoryAll(e) == ~e.oat /\ Compact \notin ToSet(e.dexes) /\ ToSet(e.dexes) # {None} /\ e.dexes # <<>>
CanBeHad(e, d) ==
    IF InMemoryAll(e) THEN d \in ToSet(e.dexes)
    ELSE /\ e.file \notin {None, Unmappable}
         /\ IF InZip(e)
            THEN \E k \in DOMAIN e.file.zip : e.file.zip[k].dex = d /\ IsReached(e.file.zip, k)
            ELSE d = e.file.raw

(* On a device whose dex files keep their tables within their images, a    *)
(* method is hooked for a string only if its source refers to the string,  *)
(* or that of an overload with as many parameters does, in a dex file of   *)
(* the dialer (Module.java:56; dex_helper.cc:178-278).                     *)
AllContained == \A d \in AllDexes : Contained(DexFile[d].header)
HooksAreReferenced ==
    AllContained => \A h \in hooks : \E d \in AllDexes : \E m \in MethodsOf(d) :
        h.of \in m.truth /\ AreNamesakes(m, h.method)

(* When the installation came to its end, a gate of the dialer that is     *)
(* there and not hooked has a cause: its dex file cannot be had, or one is *)
(* read outside its image, or Map is named nowhere, which empties the      *)
(* search for the locale (wrapper.cc:357-446; Module.java:129-169).   *)
Wants(m, s) ==
    /\ s \in m.truth
    /\ ShapeOf(s).ret \in {Free, m.ret}
    /\ ShapeOf(s).shorty \in {Free, Shorty(m)} /\ ShapeOf(s).count \in {Free, Len(m.params)}
    /\ ShapeOf(s).params \in {<<>>, m.params}
MissHasACause ==
    pc = "close" /\ log = "ready" =>
        \A s \in ToSet(Wanted) \ {"withinCallRecordingGeofence"} :
            \/ Hooked(s)
            \/ ~AllReadable
            \/ s = "getSupportedLocaleFromCountryCode" /\ ~IsNamed("Map")
            \/ \A e \in Paths : \A d \in DexesOf(e) :
                   CanBeHad(e, d) => \A m \in MethodsOf(d) : ~Wants(m, s)

(* No dex file is read twice, from memory and from the file it came from.  *)
NoDexTwice ==
    token = "set" =>
        \A i, j \in DOMAIN images : images[i].dex = images[j].dex => i = j

(* The two walks over the code visit the same positions and find the same  *)
(* strings, fields and methods, but for the calls of polymorphic methods,  *)
(* which ScanMethod passes by, and both find what the source refers to     *)
(* (dex_helper.cc:178-278; reader.cc:878-939).                             *)
WalkersAgree ==
    pc = "tts" => \A d \in AllDexes : \A m \in MethodsOf(d) :
        /\ ScanVisits(m.code) = ParseVisits(m.code)
        /\ ScanRefsOfKind(m.code, {"string"}) = ParseRefsOfKind(m.code, "StringRef")
        /\ ScanRefsOfKind(m.code, {"get", "set"}) = ParseRefsOfKind(m.code, "FieldRef")
        /\ ScanRefsOfKind(m.code, {"invoke"}) \subseteq ParseRefsOfKind(m.code, "MethodRef")
        /\ {DexFile[d].strings[i + 1] : i \in ScanRefsOfKind(m.code, {"string"})} = m.truth

(* The start of the dialer is not held up: the installation ends, or the   *)
(* process has died.                                                       *)
InstallationEnds == pc # "idle" ~> pc \in {"idle", "done", "died"}
=============================================================================
