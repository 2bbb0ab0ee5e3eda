------------------------------- MODULE DexLoad -------------------------------
(***************************************************************************)
(* How the native library finds the dex files of a class loader: load of   *)
(* wrapper.cc, one loop iteration per step, over the elements of the path  *)
(* list; the images in memory, the zip file or raw file they came from;    *)
(* the slicer's Reader on each image.                                      *)
(*                                                                         *)
(* An element is None (null, or without DexFile or cookie) or a record:    *)
(*   oat   the cookie's first entry is not null                            *)
(*   dexes the cookie's other entries                                      *)
(* In a zip entry name is n for the n-th classes file and 0 for others;    *)
(* sized says that the sizes are in the local header and not in a          *)
(* descriptor after the data.                                              *)
(***************************************************************************)
EXTENDS Integers, SequencesExt

CONSTANTS
    None, Compact, Unmappable,
    DexFile,    \* what is in a dex file: a record with a field header
    Device      \* what a process may run on: records of
                \*   elements   pathList.dexElements
                \*   reflected  the fields and methods of the runtime's classes
                \*   checked    built without NDEBUG: a failed SLICER_CHECK aborts

(* The fields that load reads of a ZipLocalFile.                           *)
ZipEntry == [name : Nat, method : Nat, sized : BOOLEAN, intact : BOOLEAN,
             dex : DOMAIN DexFile \cup {None}]
File     == {None, Unmappable} \cup [raw : DOMAIN DexFile] \cup [zip : Seq(ZipEntry)]
Element  == [oat : BOOLEAN, dexes : Seq(DOMAIN DexFile \cup {None, Compact}), file : File]

ASSUME DevicesAreTyped ==
    /\ None \notin DOMAIN DexFile /\ None \notin ZipEntry /\ None \notin Element
    /\ \A n \in DOMAIN Device :
           Device[n].elements \in {None} \cup Seq(Element \cup {None})

VARIABLES
    device,     \* in DOMAIN Device
    at,         \* the loop's i; 0 before load
    images,     \* what the readers get: [dex, from]
    token       \* of the Java object: "null", "set"; "threw", "died"

loadVars == <<device, at, images, token>>

-----------------------------------------------------------------------------
(* JNI_OnLoad: without one of these loadLibrary throws, or the runtime     *)
(* aborts at the next call made with the exception pending.  Executable    *)
(* has AbstractMethod to stand in for it.                                  *)
Looked == {"ClassLoader.loadClass", "Member.getDeclaringClass", "Member.getName",
           "Class.getName", "BaseDexClassLoader.pathList", "DexPathList.dexElements",
           "Element.dexFile", "DexFile.mCookie", "DexFile.mFileName"}
JNI_OnLoad ==
    /\ Looked \subseteq Device[device].reflected
    /\ Device[device].reflected \cap {"Executable.getParameterTypes", "AbstractMethod.getParameterTypes"} # {}

-----------------------------------------------------------------------------
(* The zip file.                                                           *)

(* ZipFile::Open goes from header to header by the sizes it reads: behind  *)
(* an entry without sizes it finds no header and ends.                     *)
Open(zip) ==
    LET unsized == SelectInSeq(zip, LAMBDA e : ~e.sized)
    IN IF unsized = 0 THEN zip ELSE SubSeq(zip, 1, unsized)

(* Of entries with one name the first is found.                            *)
Find(zip, n) ==
    LET entries == Open(zip)
        i       == SelectInSeq(entries, LAMBDA e : e.name = n)
    IN IF i = 0 THEN None ELSE entries[i]

(* uncompress: a size of zero cannot be mapped; deflated data has to end   *)
(* and to have the size; stored data is copied as it is.                   *)
uncompress(e) ==
    /\ e.sized
    /\ \/ e.method = 8 /\ e.intact
       \/ e.method = 0

(* classes.dex, classes2.dex and so on up to the first that is missing;    *)
(* None for one that cannot be had.                                        *)
Classes(zip) ==
    [n \in 1..Len(zip) |->
        IF (\A k \in 1..n : Find(zip, k) # None) /\ uncompress(Find(zip, n))
        THEN Find(zip, n).dex ELSE None]

-----------------------------------------------------------------------------
(* One element.                                                            *)

Images(dexes, from) ==
    FlattenSeq([i \in 1..Len(dexes) |->
        IF dexes[i] = None THEN <<>> ELSE <<[dex |-> dexes[i], from |-> from]>>])

(* The cookie's dex files from the last to the first, unless one of them   *)
(* is compact or the first entry is an oat file.                           *)
(* Mutant: a null dex file ends the loop.                                  *)
InMemoryToNull(e) ==
    IF e.oat \/ Compact \in ToSet(e.dexes) THEN <<>>
    ELSE LET null == SelectInSeq(Reverse(e.dexes), LAMBDA d : d = None)
         IN Images(IF null = 0 THEN Reverse(e.dexes)
                   ELSE SubSeq(Reverse(e.dexes), 1, null - 1), "memory")
InMemory(e) ==
    IF e.oat \/ Compact \in ToSet(e.dexes) THEN <<>>
    ELSE Images(Reverse(e.dexes), "memory")

(* A MemMap of the file is ok: there is a name, it can be opened and what  *)
(* is mapped has a size.                                                   *)
MemMap(file) == file \notin {None, Unmappable}

FromFile(file) ==
    IF ~MemMap(file) THEN <<>>
    ELSE IF "raw" \in DOMAIN file THEN Images(<<file.raw>>, "file")
    ELSE Images(Classes(file.zip), "file")

(* Mutant: the file is read as well.                                       *)
ImagesOfBoth(e) == IF e = None THEN <<>> ELSE InMemory(e) \o FromFile(e.file)
ImagesOf(e) ==
    IF e = None THEN <<>>
    ELSE IF InMemory(e) # <<>> THEN InMemory(e)
    ELSE FromFile(e.file)

-----------------------------------------------------------------------------
(* Reader: the checks of the header.  A size or an offset is a number of   *)
(* bytes, a tag is right or not.                                           *)

HeaderSize        == 112
CompactHeaderSize == 136
ValidateHeader(h) ==
    /\ h.size > HeaderSize
    /\ h.file_size <= h.size
    /\ h.header_size = (IF h.compact THEN CompactHeaderSize ELSE HeaderSize)
    /\ h.endian_tag
    /\ h.type_ids_size < 65536 /\ h.proto_ids_size < 65536
    /\ \A off \in {h.data_size, h.data_off, h.map_off, h.string_ids_off,
                   h.type_ids_off, h.proto_ids_off, h.field_ids_off,
                   h.method_ids_off, h.class_defs_off} : off % 4 = 0
    /\ ~h.compact => h.map_off >= h.data_off /\ h.map_off < h.size
    /\ h.link_size = 0 /\ h.link_off = 0
    /\ h.map_size > 0
    /\ h.map_off + 4 + 12 * h.map_size <= h.size

(* Tables that lie within the image.                                       *)
Contained(h) ==
    /\ h.size > HeaderSize
    /\ h.map_off + 4 + 12 * h.map_size <= h.size
    /\ \A t \in {<<h.string_ids_off, 4 * h.string_ids_size>>,
                  <<h.type_ids_off, 4 * h.type_ids_size>>,
                  <<h.proto_ids_off, 12 * h.proto_ids_size>>,
                  <<h.field_ids_off, 8 * h.field_ids_size>>,
                  <<h.method_ids_off, 8 * h.method_ids_size>>,
                  <<h.class_defs_off, 32 * h.class_defs_size>>} : t[1] + t[2] <= h.size

-----------------------------------------------------------------------------
(* A new Java object.                                                      *)
loadInit == at = 0 /\ images = <<>> /\ token = "null"

Elements == IF Device[device].elements = None THEN <<>>
            ELSE Device[device].elements

(* The static initialiser, then load(classLoader).                         *)
BeginLoad ==
    /\ at = 0 /\ token = "null"
    /\ \/ JNI_OnLoad /\ at' = 1 /\ UNCHANGED token
       \/ ~JNI_OnLoad /\ token' \in {"threw", "died"} /\ UNCHANGED at
    /\ UNCHANGED <<device, images>>

LoadElement ==
    /\ at \in 1..Len(Elements)
    /\ images' = images \o ImagesOf(Elements[at])
    /\ at' = at + 1
    /\ UNCHANGED <<device, token>>

(* Without images there is no handler.  Otherwise a reader is made of each *)
(* image: a failed check aborts, or is compiled away, and what is then     *)
(* read from outside the image is anything or a fault.                     *)
MakeHandler ==
    /\ at = Len(Elements) + 1 /\ token = "null"
    /\ at' = at + 1
    /\ LET headers == {DexFile[images[i].dex].header : i \in DOMAIN images}
       IN \/ images = <<>> /\ UNCHANGED <<token, images>>
          \/ /\ images # <<>>
             /\ Device[device].checked => \A h \in headers : ValidateHeader(h)
             /\ token' = "set"
             /\ images' = [i \in DOMAIN images |->
                    IF Contained(DexFile[images[i].dex].header) THEN images[i]
                    ELSE [images[i] EXCEPT !.from = "garbage"]]
          \/ /\ \E h \in headers : ~Contained(h) \/ (Device[device].checked /\ ~ValidateHeader(h))
             /\ token' = "died" /\ UNCHANGED images
    /\ UNCHANGED device

Load == BeginLoad \/ LoadElement \/ MakeHandler
Loaded == token # "null" \/ at = Len(Elements) + 2

closex ==
    /\ token' = "null" /\ images' = <<>>
    /\ UNCHANGED <<device, at>>
=============================================================================
