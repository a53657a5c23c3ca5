----------------------------- MODULE PlatoLexer -----------------------------
(***************************************************************************)
(* ts_lex of parser.c: the automaton that turns the characters of a Plato  *)
(* template into tokens.  The states are the numbers of the C function's   *)
(* cases.  A table below gives, for each state of a group of cases, the    *)
(* characters it moves on and the state each leads to; characters asked    *)
(* for through set_contains, all characters but a few, and white space     *)
(* that is skipped have tables of their own.  A token ends where no move   *)
(* is left; it is the longest one accepted on the way, and the characters  *)
(* read after its end are read again.                                      *)
(***************************************************************************)
EXTENDS CharacterSet, TLC

Digit == {"0", "1", "2", "3", "4", "5", "6", "7", "8", "9"}
Octal == Digit \ {"8", "9"}
Hex == Digit \cup {"A", "B", "C", "D", "E", "F", "a", "b", "c", "d", "e", "f"}
Backquote == "backquote"               \* no TLA+ string may hold the character itself
Space == {"\t", "\n", "\f", "\r", " "}

(* The characters of a document, ASCII, and their code points.             *)
Chars(string) == [i \in 1 .. Len(string) |-> SubSeq(string, i, i)]
From(first, string) == [c \in { Chars(string)[i] : i \in 1 .. Len(string) } |->
    first - 1 + CHOOSE i \in 1 .. Len(string) : Chars(string)[i] = c]
CodePoint ==
    From(32, " !\"#$%&'()*+,-./0123456789:;<=>?@ABCDEFGHIJKLMNOPQRSTUVWXYZ[\\]^_")
    @@ From(97, "abcdefghijklmnopqrstuvwxyz{|}~")
    @@ (Backquote :> 96) @@ ("\n" :> 10) @@ ("\t" :> 9) @@ ("\r" :> 13) @@ ("\f" :> 12)
Characters == DOMAIN CodePoint

(* The classes ts_lex asks for.                                            *)
ASSUME ClassesAssumption == {"identifier", "variable", "rune"} \subseteq DOMAIN Tables

On(characters, state) == [c \in characters |-> state]

-----------------------------------------------------------------------------
(* Moves on single characters.                                             *)

(* What may begin an operand, in every mode inside an action.              *)
OperandStart ==
    On({"\""}, 192) @@ On({"$"}, 126) @@ On({"'"}, 34) @@ On({"("}, 119) @@ On({"+"}, 25)
    @@ On({"0"}, 177) @@ On(Digit \ {"0"}, 179) @@ On({Backquote}, 38) @@ On({"f"}, 128)
    @@ On({"n"}, 149)

(* Between operands: also what may follow one.                             *)
OperandModes ==
    LET Follow == On({")"}, 120) @@ On({"-"}, 23) @@ On({"|"}, 118) @@ On({"}"}, 54)
        Inner == OperandStart @@ Follow @@ On({"t"}, 168)
        Assign == On({":"}, 31) @@ On({"="}, 117)
    IN  2 :> (Inner @@ Assign @@ On({","}, 109) @@ On({"."}, 125))
        @@ 3 :> (Inner @@ Assign @@ On({","}, 109) @@ On({"."}, 123))
        @@ 6 :> (Inner @@ On({"."}, 125) @@ On(Space, 121))
        @@ 7 :> (Inner @@ On({"."}, 125))
        @@ 8 :> (Inner @@ Assign @@ On({"."}, 123) @@ On(Space, 121))

(* The first letters of the words an action may begin with.                *)
Keywords ==
    On({"b"}, 156) @@ On({"c"}, 165) @@ On({"d"}, 142) @@ On({"i"}, 144) @@ On({"r"}, 129)
    @@ On({"t"}, 134) @@ On({"w"}, 148)

(* After a left delimiter.  A comment begins only right behind it: the     *)
(* modes to which white space leads have no '/'.  "else" is a word in 4    *)
(* and 5, "end" also in 9 and 11, neither in 10 and 12.                    *)
ActionModes ==
    LET First == OperandStart @@ Keywords @@ On({"."}, 125)
        InClause == First @@ On({")"}, 120) @@ On({"-"}, 23) @@ On({"e"}, 154)
                          @@ On({"|"}, 118) @@ On({"}"}, 54)
        Comment == On({"/"}, 19)
    IN  4 :> (InClause @@ Comment) @@ 5 :> InClause
        @@ 9 :> (First @@ Comment @@ On({"-"}, 24) @@ On({"e"}, 160))
        @@ 10 :> (First @@ Comment @@ On({"-"}, 25))
        @@ 11 :> (First @@ On({"-"}, 25) @@ On({"e"}, 160))
        @@ 12 :> (First @@ On({"-"}, 25))

(* Any token: the mode of the states that wait for one delimiter or word,  *)
(* and the one lexing falls back on when a state's own mode fails.         *)
AnyToken ==
    LET Each == Keywords @@ On({"$"}, 126) @@ On({"'"}, 34) @@ On({"("}, 119) @@ On({")"}, 120)
               @@ On({","}, 109) @@ On({"-"}, 93) @@ On({":"}, 31) @@ On({"="}, 117)
               @@ On({Backquote}, 38) @@ On({"e"}, 154) @@ On({"f"}, 128) @@ On({"n"}, 149)
               @@ On({"{"}, 97) @@ On({"|"}, 118)
    IN  0 :> (Each @@ On({"\""}, 194) @@ On({"."}, 122) @@ On({"/"}, 19) @@ On({"\\"}, 32)
                  @@ On({"}"}, 53))
        @@ 90 :> (Each @@ On({"\""}, 192) @@ On({"."}, 124) @@ On({"}"}, 54))

(* After a name: its rest, or what ends the operand.                       *)
NameModes ==
    LET Ends == On({")"}, 120) @@ On({"-"}, 57) @@ On({"|"}, 118) @@ On({"}"}, 54)
        Assign == On({":"}, 31) @@ On({"="}, 117)
    IN  14 :> (Ends @@ Assign @@ On({","}, 109) @@ On({"."}, 122))
        @@ 15 :> (Ends @@ Assign @@ On({","}, 109))
        @@ 16 :> (Ends @@ Assign @@ On({"."}, 122) @@ On(Space, 121))
        @@ 17 :> (Ends @@ On(Space, 121))
        @@ 18 :> Ends

\* Mutant: "**/" does not end a comment.
CommentBodyOneStar == 19 :> On({"*"}, 21) @@ 20 :> On({"/"}, 198) @@ 21 :> On({"*"}, 20)

(* A comment, to its first "*/".                                           *)
CommentBody == 19 :> On({"*"}, 21) @@ 20 :> (On({"*"}, 20) @@ On({"/"}, 198)) @@ 21 :> On({"*"}, 20)

(* The words else, end, if and with where only they may stand.             *)
BareWords ==
    22 :> (On({"-"}, 57) @@ On({"e"}, 44) @@ On({"i"}, 41) @@ On({"w"}, 43) @@ On({"}"}, 54))
    @@ 39 :> On({"d"}, 98) @@ 40 :> On({"e"}, 105) @@ 41 :> On({"f"}, 103) @@ 42 :> On({"h"}, 107)
    @@ 43 :> On({"i"}, 46) @@ 44 :> (On({"l"}, 45) @@ On({"n"}, 39)) @@ 45 :> On({"s"}, 40)
    @@ 46 :> On({"t"}, 42)

Signs ==
    LET Number == On({"."}, 68) @@ On({"0"}, 177) @@ On(Digit \ {"0"}, 179) @@ On({"+", "-"}, 30)
    IN  23 :> (Number @@ On({"}"}, 55)) @@ 24 :> (Number @@ On({"}"}, 56)) @@ 25 :> Number

(* Numbers that cannot end yet ...                                         *)
NumberParts ==
    26 :> (On({"."}, 185) @@ On({"_"}, 69) @@ On({"i"}, 186) @@ On({"E", "e"}, 58) @@ On(Digit, 26))
    @@ 27 :> (On({"."}, 59) @@ On({"_"}, 75) @@ On({"P", "p"}, 58) @@ On(Hex, 27))
    @@ 28 :> (On({"."}, 74) @@ On({"_"}, 73) @@ On(Hex, 180))
    @@ 29 :> (On({"."}, 74) @@ On({"_"}, 75) @@ On(Hex, 27))
    @@ 30 :> On({"0"}, 60)
    @@ 35 :> (On({"_"}, 61) @@ On({"0", "1"}, 181))
    @@ 36 :> (On({"_"}, 65) @@ On(Octal, 182))
    @@ 37 :> (On({"_"}, 74) @@ On({"P", "p"}, 58) @@ On(Hex, 37))
NumberTails ==
    58 :> (On({"+", "-"}, 70) @@ On(Digit, 184)) @@ 59 :> (On({"P", "p"}, 58) @@ On(Hex, 37))
    @@ 60 :> On({"X", "x"}, 29) @@ 61 :> On({"0", "1"}, 181)
    @@ 62 :> (On({"8", "9"}, 26) @@ On(Octal, 178)) @@ 65 :> On(Octal, 182) @@ 67 :> On(Digit, 179)
    @@ 68 :> On(Digit, 183) @@ 69 :> On(Digit, 26) @@ 70 :> On(Digit, 184)
    @@ 73 :> On(Hex, 180) @@ 74 :> On(Hex, 37) @@ 75 :> On(Hex, 27)

(* ... and those that may.                                                 *)
Numbers ==
    LET Mark(separator) == On({"_"}, separator) @@ On({"i"}, 186)
        Exponent == On({"E", "e"}, 58)
    IN  177 :> (Mark(62) @@ Exponent @@ On({"."}, 185) @@ On({"B", "b"}, 35) @@ On({"O", "o"}, 36)
                @@ On({"X", "x"}, 28) @@ On({"8", "9"}, 26) @@ On(Octal, 178))
        @@ 178 :> (Mark(62) @@ Exponent @@ On({"."}, 185) @@ On({"8", "9"}, 26) @@ On(Octal, 178))
        @@ 179 :> (Mark(67) @@ Exponent @@ On({"."}, 185) @@ On(Digit, 179))
        @@ 180 :> (Mark(73) @@ On({"."}, 59) @@ On({"P", "p"}, 58) @@ On(Hex, 180))
        @@ 181 :> (Mark(61) @@ On({"0", "1"}, 181))
        @@ 182 :> (Mark(65) @@ On(Octal, 182))
        @@ 183 :> (Mark(68) @@ Exponent @@ On(Digit, 183))
        @@ 184 :> (Mark(70) @@ On(Digit, 184))
        @@ 185 :> (Exponent @@ On({"i"}, 186) @@ On(Digit, 183))

(* Strings, runes and their escapes; the chains that count hexadecimal     *)
(* digits end in a string's escape (72) or a rune's (71).                  *)
Escapes ==
    1 :> (On({"\""}, 194) @@ On({"\\"}, 32)) @@ 13 :> On({"'"}, 187)
    @@ 32 :> (On({"U"}, 88) @@ On({"u"}, 80) @@ On({"x"}, 76) @@ On(Digit, 197))
    @@ 33 :> (On({"U"}, 89) @@ On({"u"}, 81) @@ On({"x"}, 77) @@ On(Octal, 66))
    @@ 34 :> On({"\\"}, 33) @@ 38 :> On({Backquote}, 191)
    @@ 64 :> On(Octal, 13) @@ 66 :> On(Octal, 64) @@ 196 :> On(Digit, 195) @@ 197 :> On(Digit, 196)
HexChains ==
    71 :> On(Hex, 13) @@ 72 :> On(Hex, 195) @@ 76 :> On(Hex, 72)
    @@ [s \in 77 .. 89 |-> On(Hex, IF s = 77 THEN 71 ELSE s - 2)]

(* Delimiters.  Those of an action and those of a comment run in parallel. *)
Delimiters ==
    31 :> On({"="}, 110) @@ 47 :> On({"{"}, 199)
    @@ 48 :> (On({"}"}, 53) @@ On(Space, 101)) @@ 49 :> On({"}"}, 100) @@ 50 :> On({"}"}, 201)
    @@ 51 :> On({"}"}, 202) @@ 52 :> On({"}"}, 102) @@ 53 :> On({"}"}, 49) @@ 54 :> On({"}"}, 50)
    @@ 55 :> On({"}"}, 51) @@ 56 :> On({"}"}, 52) @@ 57 :> On({"}"}, 55)
    @@ 63 :> On(Space, 200) @@ 199 :> On({"-"}, 63)

\* Mutant: an opening brace after white space does not begin a delimiter.
TextModesWithoutBrace ==
    91 :> (On({"-"}, 94) @@ On(Space, 95)) @@ 95 :> (On({"-"}, 94) @@ On(Space, 95))
    @@ 97 :> On({"{"}, 47)

(* Literal text, up to the next opening brace.                             *)
TextModes ==
    91 :> (On({"-"}, 94) @@ On({"{"}, 97) @@ On(Space, 95))
    @@ 95 :> (On({"-"}, 94) @@ On(Space, 95)) @@ 97 :> On({"{"}, 47)

Punctuation == 121 :> On(Space, 121) @@ 123 :> On(Digit, 183) @@ 125 :> On(Digit, 183)

-----------------------------------------------------------------------------
(* Words: the states reached letter by letter.                             *)
Spelling ==
    { <<<<"b", "r", "e", "a", "k">>, <<156, 143, 130, 153, 112>>>>,
      <<<<"b", "l", "o", "c", "k">>, <<156, 166, 132, 152, 116>>>>,
      <<<<"c", "o", "n", "t", "i", "n", "u", "e">>, <<165, 162, 173, 151, 164, 175, 140, 113>>>>,
      <<<<"d", "e", "f", "i", "n", "e">>, <<142, 145, 150, 163, 139, 115>>>>,
      <<<<"e", "l", "s", "e">>, <<154, 169, 135, 106>>>>,
      <<<<"e", "n", "d">>, <<154, 133, 99>>>>,
      <<<<"e", "n", "d">>, <<160, 133, 99>>>>,
      <<<<"f", "a", "l", "s", "e">>, <<128, 158, 170, 137, 189>>>>,
      <<<<"i", "f">>, <<144, 104>>>>,
      <<<<"n", "i", "l">>, <<149, 155, 190>>>>,
      <<<<"r", "a", "n", "g", "e">>, <<129, 161, 146, 138, 111>>>>,
      <<<<"t", "e", "m", "p", "l", "a", "t", "e">>, <<134, 159, 167, 157, 131, 172, 141, 114>>>>,
      <<<<"t", "r", "u", "e">>, <<134, 174, 136, 188>>>>,
      <<<<"t", "r", "u", "e">>, <<168, 174, 136, 188>>>>,
      <<<<"w", "i", "t", "h">>, <<148, 171, 147, 108>>>> }

WordSteps ==
    UNION { { <<w[2][i], w[1][i + 1], w[2][i + 1]>> : i \in 1 .. Len(w[1]) - 1 } : w \in Spelling }
WordMoves ==
    [s \in { m[1] : m \in WordSteps } |->
        [c \in { m[2] : m \in { n \in WordSteps : n[1] = s } } |->
            (CHOOSE m \in WordSteps : m[1] = s /\ m[2] = c)[3]]]

(* A table with an entry for every state.                                  *)
Total(states, f, default) == f @@ [s \in states |-> default]
LexStates == 0 .. 202

Moves == Total(LexStates,
    OperandModes @@ ActionModes @@ AnyToken @@ NameModes @@ CommentBody @@ BareWords @@ Signs
    @@ NumberParts @@ NumberTails @@ Numbers @@ Escapes @@ HexChains @@ Delimiters @@ TextModes
    @@ Punctuation @@ WordMoves, << >>)

(* White space before a token is skipped, and the mode may change.         *)
NoState == -1
Skips == Total(LexStates,
    0 :> 90 @@ 2 :> 2 @@ 3 :> 2 @@ 4 :> 5 @@ 5 :> 5 @@ 7 :> 7 @@ 9 :> 11 @@ 10 :> 12 @@ 11 :> 11
    @@ 12 :> 12 @@ 14 :> 15 @@ 15 :> 15 @@ 18 :> 18 @@ 22 :> 22 @@ 90 :> 90, NoState)

(* Moves on the characters of a class: its name and the state.             *)
WordStates ==
    (99 .. 116 \ {100, 101, 102, 103, 105, 107, 109, 110}) \cup (128 .. 176) \cup (188 .. 190)
Classes == Total(LexStates,
    [s \in {0, 17, 18, 90} \cup (2 .. 12) |-> <<"identifier", 176>>]
    @@ [s \in WordStates |-> <<"variable", 176>>]
    @@ [s \in {14, 15, 16, 127} |-> <<"variable", 127>>]
    @@ 33 :> <<"rune", 13>>, << >>)

(* Moves on every character but a few (and but the end of the input).      *)
Others == Total(LexStates,
    1 :> <<{"\n"}, 193>> @@ 20 :> <<{}, 21>> @@ 21 :> <<{}, 21>> @@ 32 :> <<{}, 195>>
    @@ 34 :> <<{"'"}, 13>> @@ 38 :> <<{}, 38>> @@ 91 :> <<{}, 96>>
    @@ [s \in 94 .. 96 |-> <<{"{"}, 96>>] @@ 193 :> <<{"\n", "\"", "\\"}, 193>>, << >>)

(* The end of the input is a token of its own in the modes that ask for it.*)
EndsInput == {0, 90, 91}

-----------------------------------------------------------------------------
(* The tokens that end in a state.                                         *)
Token(states, name) == [s \in states |-> name]

TextTokens ==
    92 :> "end of input" @@ Token({93, 94}, "yaml_no_injection_text")
    @@ Token({95, 96}, "text_token1") @@ 97 :> "text_token2"
WordTokens ==
    Token({98, 99}, "end") @@ Token({103, 104}, "if") @@ Token({105, 106}, "else")
    @@ Token({107, 108}, "with") @@ 111 :> "range" @@ 112 :> "break" @@ 113 :> "continue"
    @@ 114 :> "template" @@ 115 :> "define" @@ 116 :> "block"
    @@ 100 :> "comment }}}" @@ 101 :> "comment space" @@ 102 :> "comment -}}}"
    @@ 109 :> "," @@ 110 :> ":=" @@ 117 :> "="
NameTokens ==
    118 :> "|" @@ 119 :> "(" @@ 120 :> ")" @@ 121 :> "argument space"
    @@ Token({122, 123}, ".") @@ Token({124, 125}, ".2") @@ 126 :> "$" @@ 127 :> "variable name"
    @@ Token(128 .. 176, "identifier")
LiteralTokens ==
    Token(177 .. 182, "int_literal") @@ Token(183 .. 185, "float_literal")
    @@ 186 :> "imaginary_literal" @@ 187 :> "rune_literal" @@ 188 :> "true" @@ 189 :> "false"
    @@ 190 :> "nil" @@ 191 :> "raw_string_literal" @@ 192 :> "\"" @@ 193 :> "string content"
    @@ 194 :> "closing \"" @@ Token(195 .. 197, "escape_sequence") @@ 198 :> "comment"
DelimiterTokens ==
    199 :> "{{{" @@ 200 :> "{{{-" @@ 201 :> "}}}" @@ 202 :> "-}}}"

Accepts == Total(LexStates,
    TextTokens @@ WordTokens @@ NameTokens @@ LiteralTokens @@ DelimiterTokens, "none")
=============================================================================
