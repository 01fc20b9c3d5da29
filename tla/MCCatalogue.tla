----------------------------- MODULE MCCatalogue -----------------------------
(***************************************************************************)
(* Instances of Catalogue for TLC.  One of the files varies at a time, the *)
(* others are as the game writes them; then the archive itself varies.     *)
(***************************************************************************)
EXTENDS CatalogueMeaning

File(name, content) == [name |-> name, length |-> 3, content |-> content]

\* of furniture 1 and 2, and something the texts do not define
Effects == <<1, OPEN, CAN_BE_RARE, FALSE_WORD, CLOSE, 2, OPEN, CLOSE>>
Info == <<1, 3, 1, 0, 1, 7, 1, 0, 2, 7, 1, 0, QUOTE, 7>>

TheFiles(effects, info) ==
    <<File("effects", effects), File("guide", <<7>>), File("info", info),
      File("text", <<>>)>>

\* all short texts, and all short bodies in two blocks or in one in another
BlockWords == {OPEN, CLOSE, NEWLINE, 1, CAN_BE_RARE, FALSE_WORD}
ShortTexts ==
    BoundedSeq(BlockWords \cup {COMMENT, QUOTE}, 4) \cup SeqOf(BlockWords, 5)
Bodies == BoundedSeq({OPEN, CLOSE, NEWLINE, 2, CAN_BE_RARE, FALSE_WORD}, 2)
LongTexts ==
    {<<1, OPEN>> \o b \o <<CLOSE, id, NEWLINE, OPEN>> \o c \o <<CLOSE>> :
        b, c \in Bodies, id \in {1, 2}}
    \cup {<<1, OPEN>> \o b \o <<NEWLINE>> \o c \o <<CLOSE>> : b, c \in Bodies}

\* all short lists, and the list of two with one or two cells changed
Infos ==
    BoundedSeq({0, 1, 2}, 7)
    \cup {Info, Append(Info, 0)}
    \cup {[Info EXCEPT ![i] = m, ![j] = n] :
            i, j \in DOMAIN Info, m, n \in 0..3}

\* every order of the files, with a target written twice, with one empty or
\* too long, and with names that are too short or too long
Packings ==
    LET Usual == TheFiles(Effects, Info)
        Reordered == {[n \in 1..4 |-> Usual[p[n]]] :
                         p \in {p \in [1..4 -> 1..4] : IsInjective(p)}}
        Extra == {File("other", <<7, 7>>), File("text", <<7>>),
                  File("effects", <<2, OPEN, CLOSE>>),
                  File("guide", <<>>), File("info", Append(Info, 7)),
                  File("text", [n \in 1..(MaxSize + 1) |-> 7]),
                  [File("other", <<>>) EXCEPT !.length = 0],
                  [File("other", <<>>) EXCEPT !.length = MaxName + 1]}
    IN  Reordered
        \cup {<<f>> \o r : f \in Extra, r \in Reordered}
        \cup {Append(r, f) : f \in Extra, r \in Reordered}
        \cup {[n \in 1..(MaxEntries + 1) |->
                  IF n <= 4 THEN Usual[n] ELSE File("other", <<>>)]}
        \cup {RemoveAt(Usual, n) : n \in 1..4}

MCWritings ==
    [files : {TheFiles(t, Info) : t \in ShortTexts \cup LongTexts}
                \cup {TheFiles(Effects, i) : i \in Infos},
     cut : {0}]
    \cup {[files |-> p, cut |-> c] :
            p \in Packings, c \in {0, 1, 2, 3, 14, 15, 24}}
=============================================================================
