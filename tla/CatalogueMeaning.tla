-------------------------- MODULE CatalogueMeaning --------------------------
(***************************************************************************)
(* What the files of the archive say, stated without parsing them, and     *)
(* that the catalogue says the same.                                       *)
(***************************************************************************)
EXTENDS Catalogue

(***************************************************************************)
(* The file of a name is the first one written.  An archive is intact if   *)
(* the loss at its end took no cell of a target, of the later ones either. *)
(***************************************************************************)
Holders(t) == {n \in DOMAIN written : written[n].name = t}
Written(t) == written[Min(Holders(t))].content

Survives(n) ==
    \/ written[n].content = <<>>
    \/ Len(Contents(SubSeq(written, 1, n))) <= Len(archive.data)

Intact ==
    /\ Len(written) <= MaxEntries
    /\ Len(archive.directory) = Len(written)
    /\ \A n \in DOMAIN written : written[n].length \in 1..MaxName
    /\ \A t \in Targets : Holders(t) # {}
    /\ \A t \in Targets : \A n \in Holders(t) :
          Survives(n) /\ Len(written[n].content) <= MaxSize

(***************************************************************************)
(* Furniture are the named blocks that no other named block encloses; a    *)
(* block ends where as many braces are closed as were opened.              *)
(***************************************************************************)
Count(text, b, e, word) == Cardinality({i \in b..e : text[i] = word})

NamedBy(text, b) ==
    {i \in 1..(b - 1) :
        Identifier(text[i]) /\ \A j \in (i + 1)..(b - 1) : text[j] = NEWLINE}
NamedBraces(text) ==
    {b \in DOMAIN text : text[b] = OPEN /\ NamedBy(text, b) # {}}

Closes(text, b, e) ==
    /\ Count(text, b, e, OPEN) = Count(text, b, e, CLOSE)
    /\ \A i \in b..(e - 1) : Count(text, b, i, OPEN) > Count(text, b, i, CLOSE)

Complete(text) ==
    \A b \in NamedBraces(text) : \E e \in b..Len(text) : Closes(text, b, e)

Furnitures(text) ==
    {b \in NamedBraces(text) :
        ~\E outer \in NamedBraces(text) :
            outer < b /\ \E e \in b..Len(text) : Closes(text, outer, e)}

\* a line that gives a verdict on being rare, in the block from a brace on
Verdicts(text, b) ==
    LET e == CHOOSE e \in b..Len(text) : Closes(text, b, e)
    IN  {i \in (b + 1)..(e - 2) :
            /\ i = b + 1 \/ text[i - 1] = NEWLINE
            /\ text[i] = CAN_BE_RARE
            /\ text[i + 1] \notin {COMMENT, NEWLINE}}

\* what the last block of an identifier says in its last verdict
Meaning(text, id) ==
    LET b == Max({o \in Furnitures(text) :
                     \E i \in NamedBy(text, o) : text[i] = id})
    IN  [can_be_rare |-> \A i \in Verdicts(text, b) :
            (\A j \in Verdicts(text, b) : j <= i) => text[i + 1] # FALSE_WORD]

Identifiers(text) ==
    UNION {{text[i] : i \in NamedBy(text, b)} : b \in Furnitures(text)}

(***************************************************************************)
(* The list of furniture: where its records start, each one where another  *)
(* ends, and what they name.                                               *)
(***************************************************************************)
Starts(bytes) ==
    {starts \in SUBSET (3..Len(bytes)) :
        /\ Cardinality(starts) = bytes[2]
        /\ {3} \cup {p + 2 + bytes[p] + PayloadSize : p \in starts}
              = starts \cup {Len(bytes) + 1}}
NameAt(bytes, p) == SubSeq(bytes, p + 2, p + 1 + bytes[p])

Listed(bytes) ==
    IF Len(bytes) < 2 \/ bytes[1] # 1 \/ bytes[2] > MaxRecords THEN {}
    ELSE {{NameAt(bytes, p) : p \in starts} :
            starts \in {starts \in Starts(bytes) :
                \A p, q \in starts :
                    /\ bytes[p] # 0
                    /\ p # q => NameAt(bytes, p) # NameAt(bytes, q)}}

Meant ==
    IF Intact /\ Written("guide") # <<>> /\ Complete(Written("effects"))
    THEN [id \in {i \in Identifiers(Written("effects")) :
                    \E ids \in Listed(Written("info")) : <<i>> \in ids} |->
            Meaning(Written("effects"), id)]
    ELSE <<>>
-----------------------------------------------------------------------------
(***************************************************************************)
(* Nothing is taken for a furniture that is not one in the files, and none *)
(* may become rare that its file forbids, whatever is nested, repeated,    *)
(* unfinished or cut off.  (catalog.cpp:136-212)                           *)
(***************************************************************************)
CatalogIsAsWritten ==
    attempted => \A id \in DOMAIN catalog :
        id \in DOMAIN Meant /\ catalog[id] = Meant[id]

(***************************************************************************)
(* And no furniture of an archive that can be used is left out: the loops  *)
(* over directory, blocks and records stop neither early nor one cell off. *)
(* (catalog.cpp:50-93, 175-209, 238-254)                                   *)
(***************************************************************************)
WrittenIsRead == attempted => DOMAIN Meant \subseteq DOMAIN catalog
=============================================================================
