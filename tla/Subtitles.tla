----------------------------- MODULE Subtitles -----------------------------
(***************************************************************************)
(* onWriteSubTitle of HikCamera: subtitles are folded into a few lines of   *)
(* limited size and shown on the picture of the camera.  A string is a      *)
(* sequence of characters, whose size in bytes is Width; the encoder is     *)
(* UTF-8.                                                                   *)
(*                                                                          *)
(* A line that is too long is cut at the last character that fits.  The     *)
(* decoder that finds this place is used again for the rest, and keeps the  *)
(* bytes of a character that was cut: they come out of its next answer as   *)
(* one character more (so Qt decodes a sequence that does not go on), and    *)
(* the next line has one character too many.                                *)
(* The handler then cuts that line itself and writes "..." over its end.    *)
(***************************************************************************)
EXTENDS Integers, SequencesExt

CONSTANTS Width,     \* [characters -> sizes], " " and "." have size 1
          MaxBytes,  \* sizeof(sString) - 1
          MaxLines,  \* MAX_STRINGNUM
          Told,      \* the vectors of subtitles that are told
          MaxTold    \* bound: vectors told

Space == " "

SubtitleAssumption ==
  /\ {Space, "."} \subseteq DOMAIN Width /\ Width[Space] = 1 /\ Width["."] = 1
  /\ \A c \in DOMAIN Width : Width[c] \in 1..MaxBytes
  /\ {MaxBytes, MaxLines, MaxTold} \subseteq Nat
  /\ \A titles \in Told : titles # <<>> /\ titles \in Seq(Seq(DOMAIN Width))

VARIABLES mvec_subTitle_nofold,  \* told last
          folded,                \* the lines it was folded into
          m_subTitle_show,       \* what is shown of them
          told

subtitleVars == <<mvec_subTitle_nofold, folded, m_subTitle_show, told>>

Bytes(str) ==
  LET size[k \in 0..Len(str)] == IF k = 0 THEN 0 ELSE size[k - 1] + Width[str[k]]
  IN size[Len(str)]

\* The longest beginning of str with at most n bytes, as its length.
Fitting(str, n) == CHOOSE k \in 0..Len(str) :
                     /\ Bytes(SubSeq(str, 1, k)) <= n
                     /\ k < Len(str) => Bytes(SubSeq(str, 1, k + 1)) > n

-----------------------------------------------------------------------------
\* findSafeSplitPos: where to split and the bytes the decoder keeps.
FindSafeSplitPos(str, kept) ==
  LET n == Fitting(str, MaxBytes)
  IN IF Bytes(str) <= MaxBytes THEN [pos |-> Len(str), kept |-> kept]
     ELSE [pos  |-> n + (IF kept > 0 THEN 1 ELSE 0),
           kept |-> MaxBytes - Bytes(SubSeq(str, 1, n))]

\* The loop that splits one subtitle; f is what foldSubtitles keeps.  No more
\* cuts are made than there are lines.
CutLine(f) ==
  LET cut == FindSafeSplitPos(f.line, f.kept)
  IN IF f.line = <<>> \/ Len(f.result) = MaxLines THEN f
     ELSE [f EXCEPT !.result = Append(@, SubSeq(f.line, 1, cut.pos)),
                    !.line = SubSeq(f.line, cut.pos + 1, Len(f.line)),
                    !.kept = cut.kept]

SplitTitle(f, sub) ==
  LET after[n \in 0..MaxLines] ==
        IF n = 0 THEN [f EXCEPT !.line = sub] ELSE CutLine(after[n - 1])
  IN after[MaxLines]

PushLine(f) == IF f.line # <<>> /\ Len(f.result) < MaxLines
               THEN [f EXCEPT !.result = Append(@, f.line)] ELSE f

\* Mutant of FoldTitle: the line before a long subtitle is dropped.
FoldTitleDrops(f, sub) ==
  LET joined == IF f.line = <<>> THEN sub ELSE f.line \o <<Space>> \o sub
  IN IF f.full THEN f
     ELSE IF Bytes(joined) <= MaxBytes THEN [f EXCEPT !.line = joined]
     ELSE IF Len(f.result) = MaxLines THEN [f EXCEPT !.line = <<>>, !.full = TRUE]
     ELSE IF Bytes(sub) > MaxBytes THEN SplitTitle(f, sub)
     ELSE [PushLine(f) EXCEPT !.line = sub]

\* One subtitle: it is added to the line, or begins another one.
FoldTitle(f, sub) ==
  LET joined == IF f.line = <<>> THEN sub ELSE f.line \o <<Space>> \o sub
      pushed == PushLine(f)
  IN IF f.full THEN f
     ELSE IF Bytes(joined) <= MaxBytes THEN [f EXCEPT !.line = joined]
     ELSE IF Len(pushed.result) = MaxLines THEN [pushed EXCEPT !.line = <<>>, !.full = TRUE]
     ELSE IF Bytes(sub) > MaxBytes THEN SplitTitle(pushed, sub)
     ELSE [pushed EXCEPT !.line = sub]

Begun == [result |-> <<>>, line |-> <<>>, kept |-> 0, full |-> FALSE]

FoldSubtitles(titles) ==
  LET after[i \in 0..Len(titles)] ==
        IF i = 0 THEN Begun ELSE FoldTitle(after[i - 1], titles[i])
  IN PushLine(after[Len(titles)]).result

-----------------------------------------------------------------------------
\* A line as it is shown: its whole characters and its size; half a character
\* may be left before the dots that are written over the end.
Shown(text, size) == [text |-> text, size |-> size]

Dots == <<".", ".", ".">>

\* Mutant of ShowLine: the line is copied as it is.
ShowLineAll(line) == Shown(line, Bytes(line))

ShowLine(line) ==
  LET clipped == SubSeq(line, 1, Fitting(line, MaxBytes))
      size    == Bytes(clipped)
  IN IF Bytes(line) <= MaxBytes THEN Shown(line, Bytes(line))
     ELSE IF size <= 3 THEN Shown(clipped, size)
     ELSE IF size + 3 <= MaxBytes THEN Shown(clipped \o Dots, size + 3)
     ELSE Shown(SubSeq(clipped, 1, Fitting(clipped, size - 3)) \o Dots, size)

ShowLines(lines) == [i \in DOMAIN lines |-> ShowLine(lines[i])]

Init == /\ mvec_subTitle_nofold = <<>> /\ folded = <<>> /\ m_subTitle_show = <<>> /\ told = 0

\* Subtitles that were told last are not folded again.
OnWriteSubTitle(titles) ==
  /\ told < MaxTold /\ told' = told + 1
  /\ mvec_subTitle_nofold' = titles
  /\ IF titles = mvec_subTitle_nofold THEN UNCHANGED <<folded, m_subTitle_show>>
     ELSE /\ folded' = FoldSubtitles(titles)
          /\ m_subTitle_show' = ShowLines(folded')

Next == \E titles \in Told : OnWriteSubTitle(titles)

Spec == Init /\ [][Next]_subtitleVars

-----------------------------------------------------------------------------
WithoutSpaces(str) ==
  LET letters[k \in 0..Len(str)] ==
        IF k = 0 THEN <<>>
        ELSE IF str[k] = Space THEN letters[k - 1] ELSE Append(letters[k - 1], str[k])
  IN letters[Len(str)]

Text(lines) ==
  LET text[i \in 0..Len(lines)] ==
        IF i = 0 THEN <<>> ELSE text[i - 1] \o WithoutSpaces(lines[i])
  IN text[Len(lines)]

\* The lines hold the subtitles from their beginning, in order and without a
\* gap, and all of them unless the last line is full (HikCamera.cpp:480-560).
FoldKeepsText ==
  /\ IsPrefix(Text(folded), Text(mvec_subTitle_nofold))
  /\ Len(folded) < MaxLines => Text(folded) = Text(mvec_subTitle_nofold)

\* What is copied to a line of the camera fits into it (HikCamera.cpp:674),
\* although a folded line may be too long, by one character at most.
LinesFit ==
  /\ \A i \in DOMAIN m_subTitle_show : m_subTitle_show[i].size <= MaxBytes
  /\ \A i \in DOMAIN folded : Bytes(Front(folded[i])) <= MaxBytes
=============================================================================
