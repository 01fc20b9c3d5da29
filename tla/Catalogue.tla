------------------------------ MODULE Catalogue ------------------------------
(***************************************************************************)
(* LoadFurnitureCatalog (catalog.cpp) and EnsureCatalog (mod_main.cpp):    *)
(* the catalogue is read once from the game's archive, out of four of its  *)
(* files.  Which furniture may become rare is decided here.                *)
(*                                                                         *)
(* A file is a sequence of cells: the words of a text, or the 32-bit       *)
(* numbers and the bytes of a binary file, each a number.  Names shown to  *)
(* the player and room attributes, which no decision uses, are left out.   *)
(***************************************************************************)
EXTENDS Integers, SequencesExt

CONSTANTS
    Writings,      \* what archives are written from: the files, and how many
                   \* cells of the end are lost, [files, cut]
    MaxEntries,    \* 1000000
    MaxName,       \* 4096
    MaxSize,       \* 64 MiB
    MaxRecords,    \* 100000
    PayloadSize    \* 580

\* An archive holds files of cells; the limits are numbers.
ASSUME CatalogueAssumption ==
    /\ \A w \in Writings :
          /\ w.files \in Seq([name : STRING, length : Nat, content : Seq(Nat)])
          /\ w.cut \in Nat
    /\ {MaxEntries, MaxName, MaxSize, MaxRecords, PayloadSize} \subseteq Nat

VARIABLES
    archive,     \* resources.gpak
    attempted,   \* g_catalog_attempted
    catalog,     \* g_catalog
    answer,      \* what EnsureCatalog answered last
    written      \* history: the files that the archive was written from

vars == <<archive, attempted, catalog, answer, written>>

Targets == {"effects", "guide", "info", "text"}

\* the words of a text; all others are identifiers
OPEN == 10
CLOSE == 11
COMMENT == 12
NEWLINE == 13
QUOTE == 14     \* any other character
CAN_BE_RARE == 15
FALSE_WORD == 16
Identifier(word) == word \notin {OPEN, CLOSE, COMMENT, NEWLINE, QUOTE}
-----------------------------------------------------------------------------
(***************************************************************************)
(* ReadGpakTargets: a directory of names and sizes, then the files without *)
(* anything between them.  The first entry of a name counts, but every one *)
(* has to be readable.                                                     *)
(***************************************************************************)
DirectoryReadable(a) ==
    /\ a.count <= MaxEntries
    /\ \A n \in 1..a.count :
          n <= Len(a.directory) /\ a.directory[n].length \in 1..MaxName

\* mutant of Offsets: the size of the entry itself is added
OffsetsAfter(a) ==
    LET offset[n \in 1..a.count] ==
            IF n = 1 THEN a.directory[n].size
            ELSE offset[n - 1] + a.directory[n].size
    IN  offset

Offsets(a) ==
    LET offset[n \in 1..a.count] ==
            IF n = 1 THEN 0
            ELSE offset[n - 1] + a.directory[n - 1].size
    IN  offset

\* a file, or {} when the archive ends before it does
Content(a, n) ==
    LET offset == Offsets(a)[n]
        size == a.directory[n].size
    IN  IF size > 0 /\ offset + size > Len(a.data) THEN {}
        ELSE {SubSeq(a.data, offset + 1, offset + size)}

\* {[target -> content]}, or {} when the archive cannot be used
ReadTargets(a) ==
    LET wanted == {n \in 1..a.count : a.directory[n].name \in Targets}
        Named(t) == {n \in wanted : a.directory[n].name = t}
    IN  IF /\ DirectoryReadable(a)
           /\ \A n \in wanted :
                 a.directory[n].size <= MaxSize /\ Content(a, n) # {}
           /\ \A t \in Targets : Named(t) # {}
        THEN {[t \in Targets |->
                  CHOOSE file \in Content(a, Min(Named(t))) : TRUE]}
        ELSE {}
-----------------------------------------------------------------------------
(***************************************************************************)
(* ParseFurnitureEffects: from a brace with an identifier before it to the *)
(* brace that closes it.  A catalogue is a function on identifiers, as in  *)
(* Furniture.                                                              *)
(***************************************************************************)
\* mutant of IdentifierBefore: whatever stands before the brace
WordBefore(text, brace) ==
    LET before == {i \in 1..(brace - 1) : text[i] # NEWLINE}
    IN  IF before # {} THEN {text[Max(before)]} ELSE {}

\* the identifier before a brace, on the same line or an earlier one
IdentifierBefore(text, brace) ==
    LET before == {i \in 1..(brace - 1) : text[i] # NEWLINE}
    IN  IF before # {} /\ Identifier(text[Max(before)])
        THEN {text[Max(before)]} ELSE {}

\* mutant of BlockEnds: the depth is not counted
BlockEndsAtFirst(text, brace) ==
    {i \in brace..Len(text) : text[i] = CLOSE}

\* where the depth is 0 again after a brace
BlockEnds(text, brace) ==
    LET depth[i \in brace..Len(text)] ==
            IF i = brace THEN 1
            ELSE depth[i - 1] + (IF text[i] = OPEN THEN 1 ELSE 0)
                              - (IF text[i] = CLOSE THEN 1 ELSE 0)
    IN  {i \in brace..Len(text) : depth[i] = 0}

(***************************************************************************)
(* ParseFurnitureBlock: the first two words of each line, however deep in  *)
(* the block, count as a key and its value; the last line of a key wins.   *)
(***************************************************************************)
Definition(block) ==
    LET Starts(i) == i = 1 \/ block[i - 1] = NEWLINE
        Read(i) == /\ Starts(i) /\ block[i] = CAN_BE_RARE
                   /\ i + 1 <= Len(block)
                   /\ block[i + 1] \notin {COMMENT, NEWLINE}
        lines == {i \in DOMAIN block : Read(i)}
    IN  [can_be_rare |->
            lines = {} \/ block[Max(lines) + 1] # FALSE_WORD]

Braces(text, cursor) == {i \in cursor..Len(text) : text[i] = OPEN}

\* the catalogue of the text after a block, and the block
WithBlock(text, brace, rest) ==
    [id \in IdentifierBefore(text, brace) \cup DOMAIN rest |->
        IF id \in DOMAIN rest THEN rest[id]
        ELSE Definition(
                 SubSeq(text, brace + 1, Min(BlockEnds(text, brace)) - 1))]

\* {the catalogue of the blocks from a cursor on}, or {} if one never ends
ParseBlocks(text) ==
    LET blocks[cursor \in 1..(Len(text) + 1)] ==
            IF Braces(text, cursor) = {} THEN {<<>>}
            ELSE IF IdentifierBefore(text, Min(Braces(text, cursor))) = {}
            THEN blocks[Min(Braces(text, cursor)) + 1]
            ELSE IF BlockEnds(text, Min(Braces(text, cursor))) = {} THEN {}
            ELSE {WithBlock(text, Min(Braces(text, cursor)), rest) :
                    rest \in blocks[
                        Min(BlockEnds(text, Min(Braces(text, cursor)))) + 1]}
    IN  blocks[1]

ParseFurnitureEffects(text) == ParseBlocks(text) \ {<<>>}
-----------------------------------------------------------------------------
(***************************************************************************)
(* ParseFurnitureInfo: a version, a count, and records that have to fill   *)
(* the file exactly, of a length, a number, an identifier of that length   *)
(* and a payload.  Sizes are unsigned: every subtraction needs its guard.  *)
(***************************************************************************)
RecordFits(bytes, offset) ==
    /\ Len(bytes) - offset >= 2
    /\ bytes[offset + 1] # 0
    /\ Len(bytes) - (offset + 2) >= bytes[offset + 1]
    /\ Len(bytes) - (offset + 2) - bytes[offset + 1] >= PayloadSize

RecordId(bytes, offset) ==
    SubSeq(bytes, offset + 3, offset + 2 + bytes[offset + 1])
NextRecord(bytes, offset) ==
    offset + 2 + bytes[offset + 1] + PayloadSize

\* {how far the records go and what they name}, or {} if one does not fit
ParseRecords(bytes) ==
    LET records[n \in 0..bytes[2]] ==
            IF n = 0 THEN {[offset |-> 2, ids |-> {}]}
            ELSE {[offset |-> NextRecord(bytes, r.offset),
                   ids |-> r.ids \cup {RecordId(bytes, r.offset)}] :
                    r \in {before \in records[n - 1] :
                        /\ RecordFits(bytes, before.offset)
                        /\ RecordId(bytes, before.offset) \notin before.ids}}
    IN  records[bytes[2]]

\* {the set of identifiers}, or {} if the file is not as expected
ParseFurnitureInfo(bytes) ==
    IF Len(bytes) >= 2 /\ bytes[1] = 1 /\ bytes[2] <= MaxRecords
    THEN {r.ids : r \in {all \in ParseRecords(bytes) :
                            all.offset = Len(bytes)}}
    ELSE {}
-----------------------------------------------------------------------------
(***************************************************************************)
(* LoadFurnitureCatalog: the definitions that the game's own list names,   *)
(* if there are any.  The catalogue is assigned at the very end.           *)
(***************************************************************************)
Parsed(files) ==
    {[id \in {i \in DOMAIN definitions : <<i>> \in ids} |-> definitions[id]] :
        definitions \in ParseFurnitureEffects(files["effects"]),
        ids \in ParseFurnitureInfo(files["info"])}

\* mutant of LoadFurnitureCatalog: the definitions are parsed into the
\* catalogue itself
LoadInPlace(a) ==
    LET files == {f \in ReadTargets(a) : f["guide"] # <<>>}
        parsed == (UNION {Parsed(f) : f \in files}) \ {<<>>}
        early == UNION {ParseFurnitureEffects(f["effects"]) : f \in files}
    IN  [ok |-> parsed # {},
         catalog |-> IF parsed # {} THEN CHOOSE c \in parsed : TRUE
                     ELSE IF early # {} THEN CHOOSE c \in early : TRUE
                     ELSE catalog]

LoadFurnitureCatalog(a) ==
    LET files == {f \in ReadTargets(a) : f["guide"] # <<>>}
        parsed == (UNION {Parsed(f) : f \in files}) \ {<<>>}
    IN  [ok |-> parsed # {},
         catalog |-> IF parsed # {} THEN CHOOSE c \in parsed : TRUE
                     ELSE catalog]

(***************************************************************************)
(* EnsureCatalog, called by every request: the archive is read by the      *)
(* first call; a later one takes an empty catalogue for the failure of the *)
(* first.                                                                  *)
(***************************************************************************)
EnsureCatalogFirst ==
    /\ ~attempted
    /\ attempted' = TRUE
    /\ catalog' = LoadFurnitureCatalog(archive).catalog
    /\ answer' = LoadFurnitureCatalog(archive).ok
    /\ UNCHANGED <<archive, written>>

EnsureCatalogAgain ==
    /\ attempted
    /\ answer' = (catalog # <<>>)
    /\ UNCHANGED <<archive, attempted, catalog, written>>

\* the archive of some files without the last cells of its end
Contents(files) == FlattenSeq([n \in DOMAIN files |-> files[n].content])
Archive(files, cut) ==
    LET data == Contents(files)
        lost == IF cut > Len(data) THEN cut - Len(data) ELSE 0
    IN  [count |-> Len(files),
         directory |->
            [n \in 1..(Len(files) - lost) |->
                [name |-> files[n].name, length |-> files[n].length,
                 size |-> Len(files[n].content)]],
         data |-> SubSeq(data, 1, Len(data) - cut)]

Init ==
    /\ \E w \in Writings :
          written = w.files /\ archive = Archive(w.files, w.cut)
    /\ attempted = FALSE
    /\ catalog = <<>>
    /\ answer = FALSE

Next == EnsureCatalogFirst \/ EnsureCatalogAgain

Spec == Init /\ [][Next]_vars
-----------------------------------------------------------------------------
\* Every variable has its type.
TypeOK ==
    /\ attempted \in BOOLEAN
    /\ answer \in BOOLEAN
    /\ \A id \in DOMAIN catalog :
          Identifier(id) /\ catalog[id] \in [can_be_rare : BOOLEAN]

(***************************************************************************)
(* EnsureCatalog keeps no verdict of its own: whatever failed in whichever *)
(* file, the catalogue it leaves has to say so, for a later request must   *)
(* be answered as the first one was.  (mod_main.cpp:328-333)               *)
(***************************************************************************)
AnswersAgree == [][attempted => answer' = answer]_vars
=============================================================================
