---------------------------- MODULE DocumentText ----------------------------
(***************************************************************************)
(* The text of a document in the language server, a rope of characters     *)
(* (ropey), and how didChange changes it.                                  *)
(*                                                                         *)
(* The editor says where by line and character, as the protocol has it: a  *)
(* line ends at a line break (\n, \r or both), and characters are units of *)
(* UTF-16, as the server advertises no other encoding.  The rope ends      *)
(* lines at vertical tabs, form feeds, U+0085, U+2028 and U+2029 too, and  *)
(* counts characters.                                                      *)
(***************************************************************************)
EXTENDS Integers, Sequences, FiniteSets, FiniteSetsExt, SequencesExt

CONSTANTS NewLine,         \* the line break of editor and server
          FurtherBreaks,   \* the characters that end a line for the server alone
          Wide             \* the characters that are two units of UTF-16

ASSUME CharactersAssumption == NewLine \notin Wide \cup FurtherBreaks

\* How many lines end within the first k characters, and where line l begins.
LinesEnded(text, k, breaks) == Cardinality({i \in 1..k : text[i] \in breaks})
LineStart(text, l, breaks) == Min({k \in 0..Len(text) : LinesEnded(text, k, breaks) = l})

-----------------------------------------------------------------------------
\* The server: the lines of its text (len_lines), where one begins (try_line_to_char), and its
\* length, the end of the line included (line(l).len_chars()).
RopeBreaks == {NewLine} \cup FurtherBreaks
Lines(text) == LinesEnded(text, Len(text), RopeBreaks) + 1
RopeStart(text, l) == LineStart(text, l, RopeBreaks)
LineLength(text, l) ==
  (IF l + 1 < Lines(text) THEN RopeStart(text, l + 1) ELSE Len(text)) - RopeStart(text, l)

\* Mutant: the character is taken for an index into the text.
FaultIndex(text, at) == Min({at.character, Len(text)})

\* Where a position is in the text: a character past the end of its line is where the next begins.
Index(text, at) == RopeStart(text, at.line) + Min({at.character, LineLength(text, at.line)})

\* Mutant: the character behind the range goes too.
FaultSpliced(text, from, to, new) == SubSeq(text, 1, from) \o new \o SubSeq(text, to + 2, Len(text))

Spliced(text, from, to, new) == SubSeq(text, 1, from) \o new \o SubSeq(text, to + 1, Len(text))

\* A line that is just past the last begins, at the end of the text, but line(l) panics.
Panics(text, change) == ~change.whole /\ Lines(text) \in {change.from.line, change.to.line}

\* One change of didChange.  A range that is not one of this text replaces all of it.
Applied(text, change) ==
  LET known == change.from.line < Lines(text) /\ change.to.line < Lines(text)
      from == Index(text, change.from)
      to == Index(text, change.to)
  IN IF change.whole \/ ~known \/ to < from THEN change.new
     ELSE Spliced(text, from, to, change.new)

-----------------------------------------------------------------------------
\* The editor: the position of an index of its text.
EditorBreaks == {NewLine}
Units(text, i, j) == (j - i) + Cardinality({n \in (i + 1)..j : text[n] \in Wide})
PositionOf(text, k) ==
  LET line == LinesEnded(text, k, EditorBreaks)
  IN [line |-> line, character |-> Units(text, LineStart(text, line, EditorBreaks), k)]

\* The end of a line may also be written as a character past it.
EndsLine(text, k) == \A n \in DOMAIN text : n = k + 1 => text[n] = NewLine
Past(at) == [at EXCEPT !.character = @ + 1]

\* A change of the whole text, and one of a range.
Whole(text, new) == [whole |-> TRUE, from |-> PositionOf(text, 0), to |-> PositionOf(text, 0), new |-> new]
Ranged(text, i, j, new, past) ==
  [whole |-> FALSE, from |-> PositionOf(text, i),
   to |-> IF past THEN Past(PositionOf(text, j)) ELSE PositionOf(text, j), new |-> new]

\* Before k only the editor's breaks end lines, and k's own line has no wide character before it.
Plain(text, k) ==
  /\ \A n \in 1..k : text[n] \notin FurtherBreaks
  /\ \A n \in 1..k : text[n] \in Wide => \E m \in n..k : text[m] = NewLine

\* A range whose two ends mean the same to both.
SameForBoth(text, i, j, past) == Plain(text, i) /\ Plain(text, j) /\ (past => j = Len(text))
=============================================================================
