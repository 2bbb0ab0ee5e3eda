---------------------------- MODULE MCInstallation ----------------------------
(* Dialers whose code holds switch tables, array data and wide constants   *)
(* that read like const-string, in the places and shapes where load meets  *)
(* them.                                                                   *)
EXTENDS Installation

ConstString(id) == <<26, id>>
Jumbo(id)       == <<27, id, 0>>
Return          == <<14>>
Wide            == <<24, 26, 1, 26, 1>>
Call            == <<110 + 4096, 0, 0>>
Polymorphic     == <<250 + 4096, 0, 0, 0>>
(* A packed and a sparse switch of one key, array data of two elements.    *)
Packed(id) == <<43, 6, 0>> \o Return \o <<256, 1, 0, 0, 26, id>>
Sparse(id) == <<44, 6, 0>> \o Return \o <<512, 1, 26, id, 26, id>>
Array(id)  == <<38, 6, 0>> \o Return \o <<768, 2, 2, 0, 26, id>>

M(class, name, ret, params, code, truth) ==
    [class |-> class, name |-> name, ret |-> ret, params |-> params, code |-> code,
     truth |-> truth, decodes |-> IF name = "<init>" THEN "constructor" ELSE "method"]

Good == [size |-> 8192, file_size |-> 8192, header_size |-> 112, compact |-> FALSE,
         endian_tag |-> TRUE, data_size |-> 4096, data_off |-> 4096, map_off |-> 8000,
         map_size |-> 12, link_size |-> 0, link_off |-> 0,
         string_ids_off |-> 112, string_ids_size |-> 6,
         type_ids_off |-> 136, type_ids_size |-> 5,
         proto_ids_off |-> 156, proto_ids_size |-> 3,
         field_ids_off |-> 192, field_ids_size |-> 1,
         method_ids_off |-> 200, method_ids_size |-> 6,
         class_defs_off |-> 248, class_defs_size |-> 4]
Odd == [Good EXCEPT !.endian_tag = FALSE]
Rubbish == [Good EXCEPT !.string_ids_size = 65536, !.endian_tag = FALSE]

D(strings, types, methods) ==
    [header |-> Good, strings |-> strings, types |-> types, methods |-> methods]

Gates == M("A", "log", "Z", <<>>, Array(1) , {})
Can == M("B", "can", "Z", <<>>, Call \o ConstString(1) \o Packed(3), {"canRecordCall"})
Country == M("B", "country", "Z", <<>>, Wide \o Jumbo(3) \o Sparse(5),
             {"isCallRecordingCountry"})
InCountry == M("C", "locale", "Locale", <<"Map", "String">>,
               Polymorphic \o ConstString(2) \o Return,
               {"getSupportedLocaleFromCountryCode"})
Overload == M("C", "locale", "String", <<"String", "String">>, Return, {})
Fence == M("C", "fence", "Z", <<>>, <<96, 0, 103, 0>> \o ConstString(5) \o Return,
           {"withinCallRecordingGeoFence"})

MainStrings == <<"canRecordAutomatically", "canRecordCall",
                 "getSupportedLocaleFromCountryCode", "isCallRecordingCountry",
                 "playBeep", "withinCallRecordingGeoFence">>
MainTypes == {"Z", "Locale", "Map", "String"}
Main == D(MainStrings, MainTypes, <<Gates, Can, Country, InCountry, Fence>>)
Overloaded == D(MainStrings, MainTypes, <<Can, InCountry, Overload>>)
Renamed == D(<<"", "canRecordCall", "getSupportedLocaleFromCountryCode",
               "isCallRecordingCountry", "withinCallRecordingGeofence", "x">>,
             {"Z", "Locale", "String"},
             <<[Can EXCEPT !.decodes = "unhookable"], Country,
               [InCountry EXCEPT !.params = <<"String", "String">>],
               [Fence EXCEPT !.code = ConstString(4) \o Return,
                             !.truth = {"withinCallRecordingGeofence"}]>>)
RenamedOnly == [Renamed EXCEPT !.methods = SubSeq(@, 2, 4)]

Auto == D(<<"canRecordAutomatically", "produceIsCallInAutoRecordContactsList">>, {"Z"},
          <<M("C", "fence", "Z", <<>>, <<>>, {}),
            M("E", "auto", "Z", <<>>, ConstString(0) \o Return, {"canRecordAutomatically"}),
            M("E", "list", "Z", <<>>, ConstString(1) \o Return,
              {"produceIsCallInAutoRecordContactsList"})>>)
Speaker == D(<<"playBeep", "synthesizeTextIntoFile">>, {"Z", "String"},
             <<M("S", "beep", "Z", <<>>, ConstString(0) \o Return, {"playBeep"}),
               M("S", "speak", "String", <<"String">>, ConstString(1) \o Return,
                 {"synthesizeTextIntoFile"})>>)
Beeper == D(<<"playBeep">>, {"Z"},
            <<M("S", "<init>", "V", <<>>, ConstString(0) \o Return, {"playBeep"})>>)

MCDexFile == [
    main |-> Main, overloaded |-> Overloaded, renamed |-> Renamed,
    renamedOnly |-> RenamedOnly, auto |-> Auto, speaker |-> Speaker, beeper |-> Beeper,
    odd |-> [Auto EXCEPT !.header = Odd], rubbish |-> [Auto EXCEPT !.header = Rubbish]]

Entry(name, method, sized, intact, dex) ==
    [name |-> name, method |-> method, sized |-> sized, intact |-> intact, dex |-> dex]
Deflated(n, dex) == Entry(n, 8, TRUE, TRUE, dex)
Stored(n, dex)   == Entry(n, 0, TRUE, TRUE, dex)
Streamed         == Entry(0, 8, FALSE, TRUE, None)
Raw(dex)         == [raw |-> dex]
Path(oat, dexes, file) == [oat |-> oat, dexes |-> dexes, file |-> file]
InMem(dexes)     == Path(FALSE, dexes, None)
FromZip(entries) == Path(TRUE, <<>>, [zip |-> entries])

AllReflected == Looked \cup {"Executable.getParameterTypes"}
On(elements, checked) ==
    [elements |-> elements, reflected |-> AllReflected, checked |-> checked]

MCDevice == <<
    On(<<Path(FALSE, <<"main", None, "auto">>,
              [zip |-> <<Deflated(1, "main"), Deflated(2, "auto")>>])>>, TRUE),
    On(<<FromZip(<<Deflated(1, "main"), Stored(0, None), Stored(2, "auto")>>)>>, FALSE),
    On(<<Path(FALSE, <<"main", Compact>>,
              [zip |-> <<Deflated(1, "main"), Streamed, Deflated(2, "auto")>>])>>, TRUE),
    On(<<None, Path(TRUE, <<>>, None), Path(FALSE, <<None>>, Unmappable)>>, FALSE),
    On(<<Path(TRUE, <<>>, Raw("main")), InMem(<<"auto">>)>>, FALSE),
    On(<<FromZip(<<Entry(1, 8, TRUE, FALSE, "auto"), Deflated(2, "main"),
                   Deflated(2, "speaker"), Entry(3, 12, TRUE, TRUE, "beeper"),
                   Deflated(5, "renamed")>>)>>, FALSE),
    On(<<InMem(<<"main">>), Path(TRUE, <<>>, Raw("rubbish"))>>, FALSE),
    On(<<Path(TRUE, <<>>, Raw("odd"))>>, TRUE),
    On(None, TRUE),
    [On(<<>>, TRUE) EXCEPT !.reflected = @ \ {"DexFile.mCookie"}],
    [On(<<InMem(<<"overloaded">>)>>, FALSE) EXCEPT !.reflected =
        Looked \cup {"AbstractMethod.getParameterTypes"}],
    On(<<InMem(<<"beeper", "main">>)>>, FALSE),
    On(<<InMem(<<"speaker", "main">>)>>, FALSE),
    On(<<InMem(<<"renamed">>)>>, FALSE),
    On(<<InMem(<<"renamedOnly">>)>>, FALSE)>>

MCMethod == {Signature(m) : m \in UNION {ToSet(d.methods) :
                d \in {Main, Overloaded, Renamed, Auto, Speaker, Beeper}}}

(* The dialer with the dex file that is read outside its image has no gate *)
(* of its own open and the locale xx.                                      *)
MCGarbled == {Signature(Gates)}
MCInit == Init /\ (device = 7 => native = {} /\ home \notin {US, NoLocale})
MCSpec == MCInit /\ [][Next]_vars /\ Fairness
=============================================================================
