----------------------------- MODULE Projection -----------------------------
(***************************************************************************)
(* What a backend is shown of a template, and what plato-ls accepts of the  *)
(* answer (internal/plato/projection.go).  A projection replaces every      *)
(* template action by blanks, byte for byte, so that literal text keeps its *)
(* byte offsets; LSP positions count UTF-16 units, and those it may move.   *)
(* mapDiagnostic takes a range of the projection to a range of the source,  *)
(* or withholds the diagnostic.                                             *)
(*                                                                          *)
(* The state is one document as the Plato grammar has divided it.  Type     *)
(* adds a rune, so that TLC meets every document of MaxLen runes; nothing   *)
(* else is meant by a behaviour.                                            *)
(***************************************************************************)
EXTENDS Integers, Sequences, FiniteSets, SequencesExt

CONSTANT MaxLen    \* bound: runes of a document

ASSUME MaxLenAssumption == MaxLen \in Nat

VARIABLES
  source,     \* the document: its runes, each in a literal or in an action
  host,       \* "yaml" or "bash"
  unstable,   \* a parse error, control flow, a trim marker, a comment or ToYAML
  block       \* a YAML block scalar, or a Bash heredoc, somewhere in the text

vars == <<source, host, unstable, block>>

\* Five kinds of rune are told apart: "a" is one byte and one UTF-16 unit;
\* "g" is four bytes and two units; "$" is an "a" that begins a schema selector
\* nobody configured; "brace" is an "a" that is a brace of literal text; "nl" ends
\* a line.  A projection also has blanks.
Chars == [rune : {"a", "g", "nl"}, part : {"text", "action"}]
           \cup [rune : {"$", "brace"}, part : {"text"}]

\* ts_lex ends a literal at every brace: three open an action, and fewer are
\* tokens of one brace each.
Possible(runes, c) ==
  LET braces == {i \in 1 .. Len(runes) :
                   \A j \in i .. Len(runes) : runes[j].rune = "brace"}
  IN /\ c.part = "action" => braces = {}
     /\ c.rune = "brace" => Cardinality(braces) < 2

Bytes(rune) == IF rune = "g" THEN 4 ELSE 1

ByteLen(runes) == Len(runes) + 3 * Cardinality({i \in DOMAIN runes : runes[i] = "g"})

Runes(doc) == [i \in DOMAIN doc |-> doc[i].rune]

----------------------------------------------------------------------------
(* Regions of the document, as half-open intervals of bytes.                *)

\* Where the i-th rune begins.
At(doc, i) == ByteLen(Runes(SubSeq(doc, 1, i - 1)))

\* What kind of token a rune is in.
Token(doc, i) == IF doc[i].rune = "brace" THEN "brace" ELSE doc[i].part

\* The maximal runs of runes in tokens of one kind.
Spans(doc, kind) ==
  {[start |-> At(doc, run[1]), end |-> At(doc, run[2] + 1)] :
     run \in {r \in (DOMAIN doc) \X (DOMAIN doc) :
                /\ r[1] <= r[2]
                /\ \A i \in r[1] .. r[2] : Token(doc, i) = kind
                /\ r[1] > 1 => Token(doc, r[1] - 1) # kind
                /\ r[2] < Len(doc) => Token(doc, r[2] + 1) # kind}}

\* templateRegions: the nodes of kind text, which have one token each.
Literals(doc) ==
  Spans(doc, "text")
    \cup {[start |-> At(doc, i), end |-> At(doc, i + 1)] :
             i \in {j \in DOMAIN doc : doc[j].rune = "brace"}}

\* maskUnconfiguredSchemaSelectors: the runes it overwrites.
Selectors(doc) ==
  IF host = "yaml" THEN {i \in DOMAIN doc : doc[i].rune = "$"} ELSE {}

\* Mutant: an overwritten selector is not remembered.
ActionsOnly(doc) == Spans(doc, "action")

Synthetic(doc) ==
  Spans(doc, "action")
    \cup {[start |-> At(doc, i), end |-> At(doc, i) + 1] : i \in Selectors(doc)}

\* Mutant: one blank for each rune.
MaskedRunes(doc, i) ==
  CASE doc[i].part = "action" /\ doc[i].rune # "nl" -> <<"blank">>
    [] i \in Selectors(doc) -> <<"blank">>
    [] OTHER -> <<doc[i].rune>>

\* One blank for each byte of an action that does not end a line.
Masked(doc, i) ==
  CASE doc[i].part = "action" /\ doc[i].rune # "nl" ->
         [b \in 1 .. Bytes(doc[i].rune) |-> "blank"]
    [] i \in Selectors(doc) -> <<"blank">>
    [] OTHER -> <<doc[i].rune>>

ProjectedText(doc) == FlattenSeq([i \in DOMAIN doc |-> Masked(doc, i)])

MakeProjection(doc) ==
  [source |-> Runes(doc), text |-> ProjectedText(doc),
   literals |-> Literals(doc), synthetic |-> Synthetic(doc),
   safe |-> ~unstable /\ ~(block /\ Synthetic(doc) # {})]

----------------------------------------------------------------------------
(* Positions.  Lines and characters count from 0; a character is a unit.    *)

\* The runes of the line that n runes of the text end in.
Line(runes, n) == {i \in 1 .. n : \A j \in i .. n : runes[j] # "nl"}

\* The position after n runes.
After(runes, n) ==
  [line |-> Cardinality({i \in 1 .. n : runes[i] = "nl"}),
   character |-> Cardinality(Line(runes, n))
                   + Cardinality({i \in Line(runes, n) : runes[i] = "g"})]

\* How many runes come before an offset, which is never inside a rune here.
RunesBefore(runes, offset) ==
  CHOOSE n \in 0 .. Len(runes) : ByteLen(SubSeq(runes, 1, n)) = offset

\* Mutant: characters are runes.
PositionInRunes(runes, offset) ==
  LET n == RunesBefore(runes, offset)
  IN [After(runes, n) EXCEPT !.character = Cardinality(Line(runes, n))]

Position(runes, offset) == After(runes, RunesBefore(runes, offset))

\* byteOffset: where the text has this position, if it does: none is inside a
\* surrogate pair or past the end of a line.
ByteOffset(runes, pos) ==
  {ByteLen(SubSeq(runes, 1, n)) : n \in {m \in 0 .. Len(runes) : After(runes, m) = pos}}

\* The numbers of runes before the end of each line.
LineEnds(runes) ==
  {n \in 0 .. Len(runes) : n = Len(runes) \/ runes[n + 1] = "nl"}

\* clampEndOfLine: a position at or past the end of its line means that end.
ClampEndOfLine(runes, pos) ==
  {ByteLen(SubSeq(runes, 1, n)) :
     n \in {m \in LineEnds(runes) : /\ After(runes, m).line = pos.line
                                    /\ pos.character >= After(runes, m).character}}

----------------------------------------------------------------------------
(* mapDiagnostic: the empty set when the diagnostic is withheld.            *)

EndOffset(runes, pos) ==
  IF ByteOffset(runes, pos) # {} THEN ByteOffset(runes, pos) ELSE ClampEndOfLine(runes, pos)

InLiteral(p, start, end) ==
  /\ start < end
  /\ \E literal \in p.literals : start >= literal.start /\ end <= literal.end

\* Mutant: only the line on which the diagnostic begins is looked at.
FirstLineIsLiteral(p, d) ==
  \A s \in p.synthetic : ~(/\ Position(p.text, s.start).line <= d.start.line
                           /\ Position(p.text, s.end).line >= d.start.line)

\* No line of the diagnostic's has synthetic text.
LinesAreLiteral(p, d) ==
  \A s \in p.synthetic : ~(/\ Position(p.text, s.start).line <= d.end.line
                           /\ Position(p.text, s.end).line >= d.start.line)

Mapped(p, offsets) ==
  {[start |-> Position(p.source, o[1]), end |-> Position(p.source, o[2])] : o \in offsets}

\* Mutant: a diagnostic need not lie in one literal.
MapAnywhere(p, d) ==
  IF ~p.safe THEN {} ELSE
    Mapped(p, {o \in ByteOffset(p.text, d.start) \X EndOffset(p.text, d.end) : o[1] < o[2]})

\* Mutant: an end past its line is refused instead of clamped.
MapUnclamped(p, d) ==
  IF ~p.safe THEN {} ELSE
    Mapped(p, {o \in ByteOffset(p.text, d.start) \X ByteOffset(p.text, d.end) :
                 InLiteral(p, o[1], o[2]) /\ LinesAreLiteral(p, d)})

MapDiagnostic(p, d) ==
  IF ~p.safe THEN {} ELSE
    Mapped(p, {o \in ByteOffset(p.text, d.start) \X EndOffset(p.text, d.end) :
                 InLiteral(p, o[1], o[2]) /\ LinesAreLiteral(p, d)})

----------------------------------------------------------------------------
Init ==
  /\ source = <<>>
  /\ host \in {"yaml", "bash"}
  /\ unstable \in BOOLEAN /\ block \in BOOLEAN

Type(c) ==
  /\ Len(source) < MaxLen
  /\ Possible(source, c)
  /\ source' = Append(source, c)
  /\ UNCHANGED <<host, unstable, block>>

Next == \E c \in Chars : Type(c)

Spec == Init /\ [][Next]_vars

----------------------------------------------------------------------------
(* The types of the variables, and of the projection: its text is as long as  *)
(* the source, so that literals and synthetic spans are intervals of both.    *)
TypeOK ==
  LET p == MakeProjection(source)
      spans == {s \in [start : 0 .. ByteLen(p.text), end : 0 .. ByteLen(p.text)] :
                  s.start < s.end}
  IN /\ source \in Seq(Chars) /\ Len(source) <= MaxLen
     /\ host \in {"yaml", "bash"}
     /\ unstable \in BOOLEAN /\ block \in BOOLEAN
     /\ ByteLen(p.source) = ByteLen(p.text)
     /\ p.literals \subseteq spans /\ p.synthetic \subseteq spans

Positions ==
  LET runes == ProjectedText(source)
      ends == {After(runes, n) : n \in LineEnds(runes)}
  IN UNION {{[line |-> end.line, character |-> c] : c \in 0 .. end.character + 1} : end \in ends}

\* What a backend may report: any two positions, in any order, and past the end
\* of a line.
Ranges == [start : Positions, end : Positions]

\* The parts of the document on the lines of a range.
PartsOnLines(range) ==
  {source[i].part : i \in {j \in DOMAIN source :
     After(Runes(source), j - 1).line \in range.start.line .. range.end.line}}

(* A diagnostic the editor is shown is about text the author wrote: the lines *)
(* of its range hold nothing but literal text, no selector among it was       *)
(* overwritten, and the range selects in the source the very runes that the   *)
(* backend's range selects in the projection.                                 *)
Attributable ==
  LET p == MakeProjection(source)
  IN \A d \in Ranges : \A range \in MapDiagnostic(p, d) :
       LET first == RunesBefore(p.source, CHOOSE o \in ByteOffset(p.source, range.start) : TRUE)
           last == RunesBefore(p.source, CHOOSE o \in ByteOffset(p.source, range.end) : TRUE)
           from == RunesBefore(p.text, CHOOSE o \in ByteOffset(p.text, d.start) : TRUE)
           chosen == SubSeq(p.source, first + 1, last)
       IN /\ ~unstable /\ (block => Synthetic(source) = {})
          /\ PartsOnLines(range) = {"text"}
          /\ chosen # <<>>
          /\ chosen = SubSeq(p.text, from + 1, from + Len(chosen))

(* Masking moves no position that the editor is shown: the range of a         *)
(* diagnostic comes back as the backend gave it, but for an end past the end  *)
(* of its line, which becomes that end.                                       *)
RangeIsKept ==
  LET p == MakeProjection(source)
      lineEnds == {After(p.source, n) : n \in LineEnds(p.source)}
  IN \A d \in Ranges : \A range \in MapDiagnostic(p, d) :
       /\ range.start = d.start
       /\ range.end = d.end \/ /\ range.end \in lineEnds
                               /\ range.end.line = d.end.line
                               /\ range.end.character < d.end.character

\* Rune i is replaced, and ends or begins on one of these lines.
Replaced(i, lines) ==
  /\ source[i].part = "action" \/ i \in Selectors(source)
  /\ \E n \in {i - 1, i} : After(Runes(source), n).line \in lines

(* Nothing that can be attributed is withheld: if the projection is safe, a   *)
(* diagnostic of the runes i .. j of one literal token, on lines where nothing *)
(* was replaced, is shown at those runes, though its end be past its line's.  *)
(* (One that reaches over a brace of the text, which is a token of its own, is *)
(* withheld although it could be attributed.)                                 *)
NothingLost ==
  LET p == MakeProjection(source)
      runes == Runes(source)
  IN p.safe => \A i, j \in DOMAIN source :
       LET start == After(runes, i - 1)
           end == After(runes, j)
           reported == [start |-> Position(p.text, At(source, i)),
                        end |-> Position(p.text, At(source, j + 1))]
           overrun == [reported EXCEPT !.end.character = @ + 1]
       IN /\ i <= j
          /\ \A k \in i .. j : source[k].part = "text"
          /\ i < j => \A k \in i .. j : source[k].rune # "brace"
          /\ \A k \in DOMAIN source : ~Replaced(k, start.line .. end.line)
          => /\ MapDiagnostic(p, reported) = {[start |-> start, end |-> end]}
             /\ j \in LineEnds(runes) =>
                  MapDiagnostic(p, overrun) = {[start |-> start, end |-> end]}
=============================================================================
