----------------------------- MODULE TextEdits -----------------------------
(***************************************************************************)
(* How the editing tools read a file's bytes as text, find the text an     *)
(* edit is about, replace it and encode the result, and what diff they     *)
(* show.  A text is a sequence of characters; only the two that make up    *)
(* line endings matter, every other one is a letter.  A file is a text     *)
(* with or without a byte order mark.                                      *)
(***************************************************************************)
EXTENDS Naturals, Sequences, SequencesExt

CONSTANTS Texts,       \* texts of files, and texts given in requests
          NewTexts,    \* replacement texts
          Contexts     \* non-empty texts an edit looks for

LF == "\n"
CR == "\r"

Indices(s) == [i \in DOMAIN s |-> i]
At(text, at, part) == at + Len(part) - 1 <= Len(text) /\ SubSeq(text, at, at + Len(part) - 1) = part
EndsCrLf(text, i) == text[i] = CR /\ i < Len(text) /\ text[i + 1] = LF

\* Mutant: one offset too early where a line ends with two characters.
OffsetMapFirstByte(text) == SelectSeq(Indices(text), LAMBDA i : ~(text[i] = LF /\ i > 1 /\ text[i - 1] = CR))
\* normalized_offset_map: where in the text each normalized character ends.
OffsetMap(text) == SelectSeq(Indices(text), LAMBDA i : ~EndsCrLf(text, i))
Offset(offsets, at) == IF at = 0 THEN 0 ELSE offsets[at]

NormalizeEol(text) == LET offsets == SelectSeq(Indices(text), LAMBDA i : ~EndsCrLf(text, i))
                      IN [i \in DOMAIN offsets |-> text[offsets[i]]]
\* str::replace('\n', eol)
WithEol(text, eol) == FlattenSeq([i \in DOMAIN text |-> IF text[i] = LF THEN eol ELSE <<text[i]>>])

\* load_editable: the line ending most lines have.
EolOf(text) == LET crlf == Len(SelectSeq(Indices(text), LAMBDA i : EndsCrLf(text, i)))
                   lf == Len(SelectSeq(text, LAMBDA c : c = LF)) - crlf
               IN IF crlf > 0 /\ crlf >= lf THEN <<CR, LF>> ELSE <<LF>>

File(bom, text) == [bom |-> bom, text |-> text]
EncodeNewText(text, eol, bom) == File(bom, WithEol(NormalizeEol(text), eol))

\* line_byte_ranges: the first and the last position of every line.
LineByteRanges(text) ==
    LET ends == SelectSeq(Indices(text), LAMBDA i : text[i] = LF \/ i = Len(text))
    IN [k \in DOMAIN ends |-> [from |-> IF k = 1 THEN 1 ELSE ends[k - 1] + 1, to |-> ends[k]]]

\* str::match_indices: occurrences that do not overlap, from the left.
MatchIndices(text, part) ==
    FoldLeft(LAMBDA found, i : IF At(text, i, part) /\ (found = <<>> \/ i >= Last(found) + Len(part))
                               THEN Append(found, i) ELSE found,
             <<>>, Indices(text))

Changed(file) == [status |-> "changed", file |-> file]
Refused(status, file) == [status |-> status, file |-> file]

\* The text between two normalized positions replaced; commit_existing encodes the whole.
Splice(file, from, to, new) ==
    LET offsets == OffsetMap(file.text)
        eol == EolOf(file.text)
    IN Changed(EncodeNewText(SubSeq(file.text, 1, Offset(offsets, from - 1)) \o WithEol(NormalizeEol(new), eol)
                               \o SubSeq(file.text, Offset(offsets, to) + 1, Len(file.text)), eol, file.bom))

ReplaceExact(file, old, new) ==
    LET matches == MatchIndices(NormalizeEol(file.text), NormalizeEol(old)) IN
    IF matches = <<>> THEN Refused("stale", file)
    ELSE IF Len(matches) # 1 THEN Refused("ambiguous", file)
    ELSE Splice(file, matches[1], matches[1] + Len(NormalizeEol(old)) - 1, new)

ReplaceRange(file, start, end, expected, new) ==
    LET whole == NormalizeEol(file.text)
        lines == LineByteRanges(whole)
    IN IF end > Len(lines) \/ SubSeq(whole, lines[start].from, lines[end].to) # NormalizeEol(expected)
       THEN Refused("stale", file)
       ELSE Splice(file, lines[start].from, lines[end].to, new)

\* read_file: the whole text, or a range of lines as they are in the file.
ReadRange(file, start, end) ==
    LET lines == LineByteRanges(file.text) IN SubSeq(file.text, lines[start].from, lines[end].to)

WriteFile(file, new) == Changed(EncodeNewText(new, EolOf(file.text), file.bom))

(***************************************************************************)
(* unified_diff: the lines that differ between the common first lines and  *)
(* the common last lines, with three lines of context.                     *)
(***************************************************************************)
SplitLines(text) == LET lines == LineByteRanges(text) IN
    [k \in DOMAIN lines |-> SelectSeq(SubSeq(text, lines[k].from, lines[k].to), LAMBDA c : c # LF)]
Smaller(a, b) == IF a < b THEN a ELSE b
CommonPrefix(a, b) == CHOOSE n \in 0..Smaller(Len(a), Len(b)) :
    /\ SubSeq(a, 1, n) = SubSeq(b, 1, n)
    /\ n < Smaller(Len(a), Len(b)) => a[n + 1] # b[n + 1]
CommonSuffix(a, b, prefix) == CHOOSE n \in 0..Smaller(Len(a), Len(b)) - prefix :
    /\ SubSeq(a, Len(a) - n + 1, Len(a)) = SubSeq(b, Len(b) - n + 1, Len(b))
    /\ n < Smaller(Len(a), Len(b)) - prefix => a[Len(a) - n] # b[Len(b) - n]

UnifiedDiff(old, new) ==
    LET a == SplitLines(NormalizeEol(old))
        b == SplitLines(NormalizeEol(new))
        prefix == CommonPrefix(a, b)
        suffix == CommonSuffix(a, b, prefix)
        start == IF prefix > 3 THEN prefix - 3 ELSE 0
        to == Smaller(Len(a) - suffix + 3, Len(a))
    IN [at |-> start + 1, count |-> to - start,
        before |-> SubSeq(a, start + 1, prefix), removed |-> SubSeq(a, prefix + 1, Len(a) - suffix),
        added |-> SubSeq(b, prefix + 1, Len(b) - suffix), after |-> SubSeq(a, Len(a) - suffix + 1, to)]

(***************************************************************************)
(* One edit: chosen, then executed.                                        *)
(***************************************************************************)
VARIABLE text          \* [kind, file, old, new, lines, result]

Request(kind, file, old, new, lines) ==
    [kind |-> kind, file |-> file, old |-> old, new |-> new, lines |-> lines, result |-> Refused("asked", file)]

TextInit == \E bom \in BOOLEAN, t \in Texts, new \in NewTexts :
    \/ \E old \in Contexts : text = Request("patch", File(bom, t), old, new, <<1, 1>>)
    \/ \E i \in 1..Len(LineByteRanges(t)) : \E j \in i..Len(LineByteRanges(t)) :
           text = Request("range", File(bom, t), ReadRange(File(bom, t), i, j), new, <<i, j>>)
    \/ text = Request("write", File(bom, t), <<>>, new, <<1, 1>>)

ExecuteEdit ==
    /\ text.result.status = "asked"
    /\ text' = [text EXCEPT !.result =
           CASE text.kind = "patch" -> ReplaceExact(text.file, text.old, text.new)
             [] text.kind = "range" -> ReplaceRange(text.file, text.lines[1], text.lines[2], text.old, text.new)
             [] text.kind = "write" -> WriteFile(text.file, text.new)]
TextNext == ExecuteEdit

Done(kind) == text.kind = kind /\ text.result.status # "asked"
DoneChanging(kind) == text.kind = kind /\ text.result.status = "changed"

\* A patch changes the text it names and nothing else: read without regard to
\* line endings, the result is the text before with one occurrence of old_text
\* replaced (replace_exact, whose offsets are those of the raw text).
PatchIsLocal ==
    DoneChanging("patch") =>
        LET before == NormalizeEol(text.file.text)
            old == NormalizeEol(text.old)
        IN \E i \in DOMAIN before :
               /\ At(before, i, old)
               /\ NormalizeEol(text.result.file.text) =
                      SubSeq(before, 1, i - 1) \o NormalizeEol(text.new) \o SubSeq(before, i + Len(old), Len(before))

\* A context that occurs at two separate places is refused, so the model never
\* edits the wrong one.
AmbiguousRefused ==
    Done("patch") /\ (\E i, j \in DOMAIN NormalizeEol(text.file.text) :
                         /\ j >= i + Len(NormalizeEol(text.old))
                         /\ At(NormalizeEol(text.file.text), i, NormalizeEol(text.old))
                         /\ At(NormalizeEol(text.file.text), j, NormalizeEol(text.old)))
    => text.result.status = "ambiguous"

\* The lines read_file shows are accepted as the expected_text of
\* replace_range, and exactly those lines are replaced, whatever the line
\* endings of the file.
ShownLinesCanBeReplaced ==
    Done("range") =>
        LET lines == SplitLines(NormalizeEol(text.file.text))
            joined(s) == FlattenSeq([k \in DOMAIN s |-> s[k] \o <<LF>>])
            before == joined(SubSeq(lines, 1, text.lines[1] - 1))
            whole == NormalizeEol(text.file.text)
            after == SubSeq(whole, LineByteRanges(whole)[text.lines[2]].to + 1, Len(whole))
        IN text.result.status = "changed" /\ NormalizeEol(text.result.file.text) = before \o NormalizeEol(text.new) \o after

\* An edit keeps the style of the file: its byte order mark, and one line
\* ending throughout where it had one (encode_new_text).
StyleKept ==
    text.result.status = "changed" =>
        LET crlf(t) == Len(SelectSeq(Indices(t), LAMBDA i : EndsCrLf(t, i)))
            ends(t) == Len(SelectSeq(t, LAMBDA c : c = LF))
            was == text.file.text
            is == text.result.file.text
        IN /\ text.result.file.bom = text.file.bom
           /\ ends(was) > 0 /\ crlf(was) = ends(was) => crlf(is) = ends(is)
           /\ crlf(was) = 0 => crlf(is) = 0

\* The diff shown for an edit is right: the file of before, with the removed
\* lines at the place the hunk names exchanged for the added ones, is the file
\* of after, and the context and counts are those of the file of before.
DiffRebuilds ==
    text.result.status = "changed" =>
        LET a == SplitLines(NormalizeEol(text.file.text))
            b == SplitLines(NormalizeEol(text.result.file.text))
            d == UnifiedDiff(text.file.text, text.result.file.text)
            hunk == d.before \o d.removed \o d.after
        IN /\ Len(hunk) = d.count /\ (d.count > 0 => At(a, d.at, hunk))
           /\ b = SubSeq(a, 1, d.at - 1) \o d.before \o d.added \o d.after \o SubSeq(a, d.at + d.count, Len(a))

\* An edit changes the text it names and nothing else, in the file's own line
\* endings, and shows the change it made (the matching and encoding of edits).
TextEditsAreExact == PatchIsLocal /\ AmbiguousRefused /\ ShownLinesCanBeReplaced /\ StyleKept /\ DiffRebuilds
=============================================================================
