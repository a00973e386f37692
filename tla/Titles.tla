------------------------------- MODULE Titles -------------------------------
(***************************************************************************)
(* How a Thread gets a name (crates/core/src/runs/title.rs): the slug it   *)
(* is created with, cut from the prompt, and the line that is kept of what *)
(* the title Worker replies.                                               *)
(*                                                                         *)
(* A text is a sequence of pieces.  The pieces the code tells apart are    *)
(* the blank, the line break, the two think tags and the quote; any other  *)
(* piece is a letter.  Both caps count letters, blanks and quotes alike.   *)
(***************************************************************************)
EXTENDS Naturals, Sequences, FiniteSets

CONSTANTS
    TitleMax,           \* TITLE_MAX_CHARS
    PlaceholderMax      \* PLACEHOLDER_MAX_CHARS

ASSUME CapsAssumption == TitleMax \in Nat \ {0} /\ PlaceholderMax \in Nat \ {0}

Blank == "blank"
Break == "break"
Open == "think"
Close == "end_think"
Quote == "quote"
IsSpace(piece) == piece \in {Blank, Break}

Take(text, n) == SubSeq(text, 1, IF n < Len(text) THEN n ELSE Len(text))

\* str::trim
Trim(text) ==
    LET solid == {i \in DOMAIN text : ~IsSpace(text[i])}
    IN  IF solid = {} THEN <<>>
        ELSE SubSeq(text,
                    CHOOSE i \in solid : \A j \in solid : i <= j,
                    CHOOSE i \in solid : \A j \in solid : j <= i)

\* One blank for every run of blanks and breaks, none at either end.
CollapseWhitespace(text) ==
    LET trimmed == Trim(text)
        Kept[i \in 0..Len(trimmed)] ==
            IF i = 0 THEN <<>>
            ELSE IF ~IsSpace(trimmed[i]) THEN Append(Kept[i - 1], trimmed[i])
            ELSE IF IsSpace(trimmed[i - 1]) THEN Kept[i - 1]
            ELSE Append(Kept[i - 1], Blank)
    IN  Kept[Len(trimmed)]

(* The text outside every think block.  Blocks nest: a piece is kept at    *)
(* depth 0 only, a closing tag with no open block is dropped alone, and a  *)
(* block that never closes swallows the rest.                              *)
PastPiece(at, piece) ==
    CASE piece = Open -> [at EXCEPT !.depth = @ + 1]
      [] piece = Close -> [at EXCEPT !.depth = IF @ = 0 THEN 0 ELSE @ - 1]
      [] OTHER -> IF at.depth = 0 THEN [at EXCEPT !.kept = Append(@, piece)] ELSE at
StripThink(text) ==
    LET Walk[i \in 0..Len(text)] ==
            IF i = 0 THEN [depth |-> 0, kept |-> <<>>]
            ELSE PastPiece(Walk[i - 1], text[i])
    IN  Walk[Len(text)].kept

\* The lines of a text, the one a first break ends first.
FirstLine(text) ==
    LET starts == {i \in DOMAIN text : ~IsSpace(text[i])}
        start == CHOOSE i \in starts : \A j \in starts : i <= j
        ends == {i \in DOMAIN text : i > start /\ text[i] = Break}
    IN  IF starts = {} THEN <<>>
        ELSE IF ends = {} THEN SubSeq(text, start, Len(text))
        ELSE SubSeq(text, start, (CHOOSE i \in ends : \A j \in ends : i <= j) - 1)

StripWrappingQuotes(text) ==
    IF Len(text) >= 2 /\ text[1] = Quote /\ text[Len(text)] = Quote
    THEN Trim(SubSeq(text, 2, Len(text) - 1))
    ELSE text

\* <<>> says nothing usable remained.
SanitizeTitle(raw) ==
    Take(StripWrappingQuotes(CollapseWhitespace(FirstLine(StripThink(raw)))),
         TitleMax)

\* The slug: the prompt, or as many of its words as the cap holds.
PlaceholderTitle(prompt) ==
    LET collapsed == CollapseWhitespace(prompt)
        prefix == Take(collapsed, PlaceholderMax)
        blanks == {i \in DOMAIN prefix : prefix[i] = Blank}
    IN  IF Len(collapsed) <= PlaceholderMax THEN collapsed
        ELSE IF blanks = {} THEN prefix
        ELSE SubSeq(prefix, 1, (CHOOSE i \in blanks : \A j \in blanks : j <= i) - 1)

-----------------------------------------------------------------------------
(* What a reply says: the pieces outside the tags, by the matching of tags *)
(* rather than a walk.  A piece at i is inside a block when, going back    *)
(* from i, the opening tags outnumber the closing ones at some point.      *)
Tags(text, tag, j, k) == {m \in j..k : text[m] = tag}
Inside(text, i) ==
    \E j \in 1..i : \A k \in j..i :
        Cardinality(Tags(text, Open, j, k)) > Cardinality(Tags(text, Close, j, k))
Said(text) ==
    {text[i] : i \in {j \in DOMAIN text :
        text[j] \notin {Open, Close, Blank, Break} /\ ~Inside(text, j)}}

OneCleanLine(title) ==
    /\ title # <<>>
    /\ \A i \in DOMAIN title : title[i] \notin {Open, Close, Break}
    /\ title[1] # Blank
    /\ \A i \in 1..(Len(title) - 1) : ~(title[i] = Blank /\ title[i + 1] = Blank)
=============================================================================
