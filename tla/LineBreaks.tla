------------------------------- MODULE LineBreaks -------------------------------
(***************************************************************************)
(* How a text is broken into the lines of an area, and which of them are   *)
(* drawn (phina.ui.LabelArea, which gui.js shows the state of the          *)
(* connection in).  A character is its width; the paragraphs are broken    *)
(* from the last to the first, each line from where the one before, in     *)
(* this order, was.                                                        *)
(***************************************************************************)
EXTENDS Integers, Sequences, FiniteSets, SequencesExt

CONSTANTS Widths,          \* of characters
          Rows,            \* widths of the area
          Wide,            \* the width of the character the first guess is made with
          MaxChars, MaxParagraphs,  \* bounds: of a text
          Offsets, Halves, LineSize \* of the area: offsetY, half the height

LineBreaksAssumption ==
    /\ Widths \subseteq Nat \ {0} /\ Rows \subseteq Nat \ {0} /\ Wide \in Nat \ {0}
    /\ MaxChars \in Nat /\ MaxParagraphs \in Nat \ {0}
    /\ Offsets \subseteq Int /\ Halves \subseteq Nat /\ LineSize \in Nat \ {0}

VARIABLES row, given,  \* the width, and the paragraphs
          lines,       \* as far as they are broken
          i, j, pos,   \* the paragraph, the line in it, where it is broken
          state        \* "break" a line, "next" paragraph, "done"

vars == <<row, given, lines, i, j, pos, state>>

Paragraph == UNION {[1 .. n -> Widths] : n \in 0 .. MaxChars}

\* The width of the first n characters of a text.
Sums(text) ==
    LET Sum[n \in 0 .. Len(text)] == IF n = 0 THEN 0 ELSE Sum[n - 1] + text[n] IN Sum
Upto(text, n) == Sums(text)[n]
Total(text) == Upto(text, Len(text))
-----------------------------------------------------------------------------
(* getLines *)

TooWide(w) == row < w

\* Back from a break that is too far, to where the line fits.
BackFrom(text, p) == Max({q \in 0 .. p - 1 : ~ TooWide(Upto(text, q))})

\* On to where the line does not fit any more, or to the end of the text: whether the last
\* character fits is not asked.
OnFrom(text, p) ==
    LET over == {q \in p + 1 .. Len(text) - 1 : TooWide(Upto(text, q))}
    IN  IF over = {} THEN Len(text) ELSE Min(over) - 1

\* A character that does not fit alone has a line of its own.
OneAtLeast(p) == IF p = 0 THEN 1 ELSE p

\* Where the text of a line is broken; at its end, it is not.
BreakOf(text) ==
    LET p == IF pos >= Len(text) THEN Len(text) - 1 ELSE pos
    IN  IF TooWide(Upto(text, p)) THEN BackFrom(text, p) ELSE OnFrom(text, p)

\* Bug: the character at the break is left out.
RestBehind(text, p) == SubSeq(text, p + 2, Len(text))

Rest(text, p) == SubSeq(text, p + 1, Len(text))

Break ==
    /\ state = "break"
    /\ LET text == lines[i + j]
           b == IF text = <<>> THEN 0 ELSE BreakOf(text)
       IN  IF text = <<>> \/ b >= Len(text)
           THEN pos' = (IF text = <<>> THEN pos ELSE b) /\ state' = "next" /\ UNCHANGED <<lines, j>>
           ELSE /\ pos' = OneAtLeast(b) /\ j' = j + 1
                /\ lines' = SubSeq(lines, 1, i + j - 1)
                              \o <<SubSeq(text, 1, pos'), Rest(text, pos')>>
                              \o SubSeq(lines, i + j + 1, Len(lines))
                /\ UNCHANGED state
    /\ UNCHANGED <<row, given, i>>

NextIndex == i - 1

NextParagraph ==
    /\ state = "next" /\ j' = 0 /\ i' = NextIndex
    /\ state' = IF i' = 0 THEN "done" ELSE "break"
    /\ UNCHANGED <<row, given, lines, pos>>

Init ==
    /\ row \in Rows /\ given \in UNION {[1 .. n -> Paragraph] : n \in 1 .. MaxParagraphs}
    /\ lines = given /\ i = Len(given) /\ j = 0 /\ pos = row \div Wide /\ state = "break"

Next == Break \/ NextParagraph \/ (state = "done" /\ UNCHANGED vars)

Spec == Init /\ [][Next]_vars
-----------------------------------------------------------------------------
(* prerender *)

\* A quotient is cut off towards 0.
Cut(a, b) == IF a >= 0 THEN a \div b ELSE -((-a) \div b)

EndLine(offset, half) == Cut(half - offset + LineSize * 2, LineSize)
StartLine(offset, half) == LET s == Cut(-(offset + half), LineSize) IN IF s < 0 THEN 0 ELSE s

\* Line k, from 0, is drawn.
Drawn(k, offset, half) == StartLine(offset, half) <= k /\ EndLine(offset, half) > k
-----------------------------------------------------------------------------
(* Properties *)

\* No character is lost or doubled, and a paragraph does not run into the next (phina.js:11754).
NothingLost ==
    /\ FlattenSeq(lines) = FlattenSeq(given)
    /\ state = "done" => \A l \in DOMAIN lines : lines[l] = <<>> => <<>> \in ToSet(given)

\* Every line fits, or is one character, or, if it ends a paragraph, fits but for its last
\* character: whether that fits is not asked (phina.js:11736).
LineFits(l) == Len(l) <= 1 \/ Total(l) <= row
LinesFit ==
    state = "done" => \A l \in ToSet(lines) : LineFits(l) \/ LineFits(Front(l))

\* Lines are as long as they can be: with the first character of the next line, a line that
\* fits would not (phina.js:11744).
LinesFull ==
    state = "done" /\ Len(given) = 1 =>
        \A l \in 1 .. Len(lines) - 1 : Total(lines[l]) + Head(lines[l + 1]) > row

\* A line that reaches into the area is drawn, wherever its baseline is (phina.js:11796).
ReachesInto(k, offset, half) ==
    LET y == k * LineSize + offset IN y - LineSize < half /\ y + LineSize > -half
NoneMissing ==
    state = "done" => \A k \in 0 .. Len(lines) - 1, o \in Offsets, h \in Halves :
                          ReachesInto(k, o, h) => Drawn(k, o, h)
=============================================================================
