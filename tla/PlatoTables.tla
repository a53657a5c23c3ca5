---------------------------- MODULE PlatoTables -----------------------------
(***************************************************************************)
(* The parse tables of parser.c: for each parse state, the tokens it       *)
(* shifts and the states they lead to, the production it reduces by and    *)
(* the tokens on which it does, and the states that follow a symbol a      *)
(* reduction yields.  The states are parser.c's.  Most belong to families: *)
(* what may follow a left delimiter, an operand in one of its two          *)
(* contexts, the body of a block, an action just completed at the top or   *)
(* inside a block.                                                         *)
(***************************************************************************)
EXTENDS PlatoLexer

Text == {"text_token1", "text_token2"}
Left == {"{{{", "{{{-"}
Right == {"}}}", "-}}}"}
Literals ==
    {"int_literal", "float_literal", "imaginary_literal", "rune_literal", "raw_string_literal",
     "true", "false", "nil"}

ParseStates == 1 .. 366

\* Mutant: behind a completed action the white space is skipped.
BodyStatesBeforeElements == {1} \cup (70 .. 118)

(* The states that wait for an element of a body, where white space is     *)
(* text.                                                                   *)
BodyStates ==
    {1, 146, 149, 182, 192, 193, 198, 200, 244} \cup (70 .. 118) \cup (142 .. 144) \cup (151 .. 169)
    \cup (171 .. 180) \cup (185 .. 190) \cup (204 .. 207) \cup (209 .. 213) \cup (215 .. 241)

(* The lexer's mode in each parse state.                                   *)
Modes ==
    On(BodyStates, 91)
    @@ On({245, 246, 248, 251, 252, 254, 256, 258, 260, 264, 269, 271, 281, 286}
          \cup (2 .. 13) \cup (274 .. 279) \cup (288 .. 343), 4)
    @@ On((14 .. 37) \cup {357, 358}, 9) @@ On({38, 39}, 10)
    @@ On({42, 43, 131, 136, 141, 191, 194} \cup (122 .. 124), 3)
    @@ On({44, 45}, 6) @@ On((46 .. 69) \cup {125, 126}, 7)
    @@ On({40, 41, 129, 130, 145, 147, 148, 150, 170, 183, 184, 195, 196, 199, 242, 243}
          \cup (119 .. 121) \cup (201 .. 203), 8)
    @@ 127 :> 16 @@ 128 :> 14 @@ 181 :> 17 @@ On({197, 345, 356}, 18)
    @@ On({280, 287, 354, 362} \cup (346 .. 348) \cup (364 .. 366), 22)
    @@ On({255, 257, 261, 283, 285}, 1) @@ On({350, 352}, 48)

LexMode == Total(ParseStates, Modes, 0)

-----------------------------------------------------------------------------
(* Operands.  An argument of a call ends at white space, a bare operand    *)
(* does not: each has states of its own for what an operand begins with    *)
(* and for its parts.                                                      *)
Bare ==
    On({"("}, 52) @@ On({".2"}, 197) @@ On({"$"}, 128) @@ On({"identifier"}, 43) @@ On({"\""}, 261)
Argument ==
    On({"("}, 66) @@ On({".2"}, 181) @@ On({"$"}, 127) @@ On({"identifier"}, 41) @@ On({"\""}, 255)

Operand ==
    {"method_call", "function_call", "_expression", "dot", "interpreted_string_literal",
     "_pipeline", "variable_definition", "assignment", "chained_pipeline"}
Parts(variable, parenthesized, selector) ==
    On({"variable"}, variable) @@ On({"parenthesized_pipeline"}, parenthesized)
    @@ On({"selector_expression", "field"}, selector)
BareParts == Parts(141, 194, 42)
ArgumentParts == Parts(129, 184, 40)

(* The state after a whole operand, for each state that waits for one.     *)
BareResult ==
    48 :> 264 @@ 49 :> 276 @@ 50 :> 258 @@ 51 :> 289 @@ 52 :> 344 @@ 53 :> 318 @@ 55 :> 277
    @@ 56 :> 279 @@ 57 :> 251 @@ 58 :> 271 @@ 59 :> 290 @@ 62 :> 286 @@ 64 :> 292 @@ 65 :> 288
    @@ 66 :> 355 @@ 67 :> 248 @@ 68 :> 245 @@ 69 :> 278
ArgumentResult ==
    40 :> 148 @@ 41 :> 148 @@ 42 :> 183 @@ 43 :> 183 @@ 44 :> 196 @@ 45 :> 196 @@ 46 :> 196
    @@ 47 :> 196 @@ 54 :> 196 @@ 60 :> 203 @@ 61 :> 201 @@ 63 :> 202

OperandShifts ==
    [s \in DOMAIN BareResult |-> Bare @@ On(Literals, BareResult[s])]
    @@ [s \in DOMAIN ArgumentResult |-> Argument @@ On(Literals, ArgumentResult[s])]
OperandGotos ==
    [s \in DOMAIN BareResult |-> BareParts @@ On(Operand, BareResult[s])]
    @@ [s \in DOMAIN ArgumentResult |-> ArgumentParts @@ On(Operand, ArgumentResult[s])]

(* Names, selectors, variables and assignments.  A name or a selector      *)
(* (40-43) may have arguments and may be selected from; the first variable *)
(* of a "range" (50, 51) may be followed by a second.                      *)
NameShifts ==
    On({40, 41, 184}, On({"."}, 356)) @@ On({42, 43, 194}, On({"."}, 345))
    @@ 127 :> On({"variable name"}, 130) @@ 128 :> On({"variable name"}, 131)
    @@ 129 :> (On({":="}, 63) @@ On({"="}, 60) @@ On({"."}, 356))
    @@ 136 :> (On({","}, 353) @@ On({":="}, 65) @@ On({"="}, 64) @@ On({"."}, 345))
    @@ 141 :> (On({":="}, 65) @@ On({"="}, 64) @@ On({"."}, 345))
    @@ 181 :> On({"identifier"}, 119) @@ 197 :> On({"identifier"}, 122)
    @@ 345 :> On({"identifier"}, 123) @@ 356 :> On({"identifier"}, 120)
    @@ 353 :> On({"$"}, 128) @@ 363 :> On({":="}, 53)
NameGotos ==
    [s \in 40 .. 43 |-> On({"argument_list"}, <<195, 242, 252, 281>>[s - 39])]
    @@ 50 :> (On({"variable"}, 136) @@ On({"range_variable_definition"}, 326))
    @@ 51 :> (On({"variable"}, 136) @@ On({"range_variable_definition"}, 336))
    @@ 345 :> On({"_field_identifier"}, 124) @@ 353 :> On({"variable"}, 363)
    @@ 356 :> On({"_field_identifier"}, 121)

-----------------------------------------------------------------------------
(* After a left delimiter: the words that begin an action, or a pipeline.  *)
InnerAction ==
    Bare @@ On(Literals, 256) @@ On({"if"}, 68) @@ On({"with"}, 69) @@ On({"range"}, 51)
    @@ On({"break"}, 332) @@ On({"continue"}, 333) @@ On({"template"}, 254) @@ On({"define"}, 291)
    @@ On({"block"}, 246) @@ On({"comment"}, 352)

\* Mutant: "if" and "with" change places.
TopActionSwapped ==
    Bare @@ On(Literals, 269) @@ On({"if"}, 57) @@ On({"with"}, 67) @@ On({"range"}, 50)
    @@ On({"break"}, 329) @@ On({"continue"}, 296) @@ On({"template"}, 260) @@ On({"define"}, 274)
    @@ On({"block"}, 275) @@ On({"comment"}, 350)

TopAction ==
    Bare @@ On(Literals, 269) @@ On({"if"}, 67) @@ On({"with"}, 57) @@ On({"range"}, 50)
    @@ On({"break"}, 329) @@ On({"continue"}, 296) @@ On({"template"}, 260) @@ On({"define"}, 274)
    @@ On({"block"}, 275) @@ On({"comment"}, 350)

(* The words that go on with or close the block around.  In 38, at the     *)
(* top, and in 39, inside a clause that may not be over, there are none.   *)
Closes(end, else) == On({"end"}, end) @@ On({"else"}, else)
ConditionalEnds ==
    2 :> Closes(324, 280) @@ 3 :> Closes(324, 287) @@ 8 :> Closes(331, 280) @@ 9 :> Closes(331, 287)
RangeEnds ==
    4 :> Closes(293, 299) @@ 5 :> Closes(301, 303) @@ 6 :> Closes(310, 313) @@ 7 :> Closes(316, 317)
InnerRangeEnds ==
    10 :> Closes(342, 338) @@ 11 :> Closes(327, 339) @@ 12 :> Closes(335, 340)
    @@ 13 :> Closes(294, 341)
OnlyEnds ==
    [s \in 14 .. 37 |->
        On({"end"}, <<311, 295, 308, 322, 323, 330, 343, 314, 320, 321, 309, 300,
                      334, 297, 298, 305, 306, 307, 304, 312, 315, 319, 325, 328>>[s - 13])]

ActionShifts ==
    [s \in 2 .. 37 |-> InnerAction]
        @@ 38 :> TopAction @@ 39 :> InnerAction
EndShifts == ConditionalEnds @@ RangeEnds @@ InnerRangeEnds @@ OnlyEnds
ActionGotos ==
    [s \in 2 .. 39 |-> BareParts @@ On(Operand, IF s = 38 THEN 269 ELSE 256)]

-----------------------------------------------------------------------------
(* The bodies of blocks: where a left delimiter leads, and the body after  *)
(* one more element.  1, 78 and 79 are the document's.                     *)
Element ==
    {"text", "_comment_action", "_pipeline_action", "if_action", "range_action", "break_action",
     "continue_action", "template_action", "define_action", "block_action", "with_action"}
Body(delimiter, following, text) ==
    On({"yaml_no_injection_text"}, following) @@ On(Text, text) @@ On(Left, delimiter)

ConditionalBodies ==
    70 :> <<2, 83>> @@ 71 :> <<8, 73>> @@ 72 :> <<3, 83>> @@ 73 :> <<8, 83>> @@ 74 :> <<3, 72>>
    @@ 75 :> <<9, 76>> @@ 76 :> <<9, 83>> @@ 77 :> <<2, 70>>
OtherBodies ==
    1 :> <<38, 78>> @@ 78 :> <<38, 79>> @@ 80 :> <<18, 116>> @@ 81 :> <<39, 83>>
    @@ 82 :> <<39, 83>> @@ 84 :> <<6, 83>>
    @@ 85 :> <<17, 83>> @@ 86 :> <<24, 83>> @@ 87 :> <<39, 81>> @@ 88 :> <<39, 82>>
    @@ 89 :> <<7, 83>> @@ 90 :> <<19, 83>> @@ 91 :> <<22, 83>> @@ 92 :> <<39, 115>>
    @@ 93 :> <<4, 84>> @@ 94 :> <<5, 89>> @@ 95 :> <<21, 91>> @@ 96 :> <<23, 86>>
    @@ 97 :> <<25, 117>> @@ 98 :> <<26, 85>>
InnerBodies ==
    99 :> <<10, 102>> @@ 100 :> <<11, 103>> @@ 101 :> <<15, 104>> @@ 102 :> <<12, 83>>
    @@ 103 :> <<13, 83>> @@ 104 :> <<27, 83>> @@ 105 :> <<28, 106>> @@ 106 :> <<29, 83>>
    @@ 107 :> <<30, 109>> @@ 108 :> <<31, 111>> @@ 109 :> <<14, 83>> @@ 110 :> <<33, 113>>
    @@ 111 :> <<34, 83>> @@ 112 :> <<35, 114>> @@ 113 :> <<36, 83>> @@ 114 :> <<37, 83>>
    @@ 115 :> <<39, 83>> @@ 116 :> <<20, 83>> @@ 117 :> <<32, 83>> @@ 118 :> <<16, 90>>

Bodies == ConditionalBodies @@ OtherBodies @@ InnerBodies
BodyShifts ==
    [s \in DOMAIN Bodies |->
        Body(Bodies[s][1], Bodies[s][2], IF s \in {1, 78} THEN 142 ELSE 229)]
BodyGotos ==
    [s \in DOMAIN Bodies |-> On(Element \cup {"template_repeat1"}, Bodies[s][2])]
    @@ [s \in {79, 83} |-> On(Element \cup {"template_repeat1"}, s)]
DocumentGoto == 1 :> On({"template"}, 360)

(* What else may follow in the body of "if" and "with": the clauses.       *)
Clauses(repeat, states) ==
    On({repeat}, states[1]) @@ On({"_action_end"}, states[2]) @@ On({"_else_clause"}, states[3])
IfClauses(states) == Clauses("if_action_repeat1", states) @@ On({"_else_if_clause"}, 351)
WithClauses(states) == Clauses("with_action_repeat1", states) @@ On({"_else_with_clause"}, 349)
ClauseGotos ==
    70 :> IfClauses(<<137, 153, 282>>) @@ 71 :> IfClauses(<<132, 204, 259>>)
    @@ 72 :> WithClauses(<<133, 186, 247>>) @@ 73 :> IfClauses(<<140, 210, 265>>)
    @@ 74 :> WithClauses(<<139, 156, 253>>) @@ 75 :> WithClauses(<<135, 205, 262>>)
    @@ 76 :> WithClauses(<<138, 213, 268>>) @@ 77 :> IfClauses(<<134, 173, 250>>)

(* After the first "else if" or "else with" clause: only further clauses.  *)
FurtherGotos ==
    132 :> IfClauses(<<208, 211, 267>>) @@ 133 :> WithClauses(<<214, 174, 266>>)
    @@ 134 :> IfClauses(<<208, 161, 284>>) @@ 135 :> WithClauses(<<214, 244, 270>>)
    @@ 137 :> IfClauses(<<208, 163, 263>>) @@ 138 :> WithClauses(<<214, 221, 273>>)
    @@ 139 :> WithClauses(<<214, 143, 249>>) @@ 140 :> IfClauses(<<208, 218, 272>>)
    @@ 208 :> (On({"if_action_repeat1"}, 208) @@ On({"_else_if_clause"}, 351))
    @@ 214 :> (On({"with_action_repeat1"}, 214) @@ On({"_else_with_clause"}, 349))

(* The delimiter of a further clause; after an "else" clause only the end  *)
(* follows, at the top (361) or inside (359).                              *)
ClauseDelimiters ==
    On({132, 140}, On(Left, 347)) @@ On({133, 139}, On(Left, 346))
    @@ On({134, 137}, On(Left, 348)) @@ On({135, 138}, On(Left, 354))
    @@ On({247, 249, 250, 253, 263, 266, 282, 284}, On(Left, 361))
    @@ On({259, 262, 265, 267, 268, 270, 272, 273}, On(Left, 359))
AfterElseGotos ==
    LET End(state) == On({"_action_end"}, state)
    IN  247 :> End(169) @@ 249 :> End(182) @@ 250 :> End(149) @@ 253 :> End(167) @@ 259 :> End(209)
        @@ 262 :> End(212) @@ 263 :> End(190) @@ 265 :> End(217) @@ 266 :> End(144)
        @@ 267 :> End(219) @@ 268 :> End(220) @@ 270 :> End(222) @@ 272 :> End(226)
        @@ 273 :> End(227) @@ 282 :> End(162) @@ 284 :> End(166)

(* The words of a clause, once its delimiter is read.                      *)
ClauseShifts ==
    280 :> (On({"if"}, 55) @@ On(Right, 92)) @@ 287 :> (On({"with"}, 56) @@ On(Right, 92))
    @@ 346 :> Closes(324, 287) @@ 347 :> Closes(331, 280) @@ 348 :> Closes(324, 280)
    @@ 354 :> Closes(331, 287) @@ 359 :> On({"end"}, 331) @@ 361 :> On({"end"}, 324)
    @@ 362 :> On({"else"}, 365) @@ 364 :> On({"with"}, 56) @@ 365 :> On({"if"}, 55)
    @@ 366 :> On({"else"}, 364)

-----------------------------------------------------------------------------
(* Delimiters and words that one token completes.                          *)
OperandEnds ==
    LET To(right) == On({"|"}, 62) @@ On(Right, right)
    IN  245 :> To(71) @@ 248 :> To(77) @@ 251 :> To(74) @@ 256 :> To(207) @@ 258 :> To(94)
        @@ 264 :> To(188) @@ 269 :> To(157) @@ 271 :> To(96) @@ 276 :> To(206) @@ 277 :> To(87)
        @@ 278 :> To(75) @@ 279 :> To(88) @@ 289 :> To(100) @@ 290 :> To(105)
        @@ On({288, 292, 318}, On({"|"}, 62)) @@ 344 :> (On({"|"}, 62) @@ On({")"}, 191))
        @@ 355 :> (On({"|"}, 62) @@ On({")"}, 145))
ArgumentEnds ==
    148 :> (On({"|"}, 61) @@ On({"argument space"}, 45)) @@ 150 :> On({"argument space"}, 44)
    @@ 170 :> On({"argument space"}, 46) @@ 183 :> (On({"|"}, 61) @@ On({"argument space"}, 47))
    @@ On({196, 202, 203}, On({"|"}, 61))
ArgumentGotos ==
    On({147, 150, 170}, On({"argument_list_repeat1"}, 147))
    @@ 148 :> On({"argument_list_repeat1"}, 150) @@ 183 :> On({"argument_list_repeat1"}, 170)

(* The right delimiters of the words, and of "define".                     *)
RightDelimiters ==
    [s \in 293 .. 317 \ {302} |->
        On(Right, <<185, 230, 225, 160, 231, 232, 97, 168, 187, 0, 98, 175, 233,
                    234, 235, 176, 164, 146, 236, 239, 118, 189, 240, 152, 80>>[s - 292])]
    @@ 302 :> On(Right, 95)
InnerRightDelimiters ==
    [s \in 319 .. 343 |->
        On(Right, <<241, 154, 155, 177, 178, 158, 215, 93, 224, 192, 159, 179, 216,
                    237, 238, 171, 228, 99, 101, 107, 108, 110, 112, 223, 180>>[s - 318])]

(* Strings, the names of templates, comments.                              *)
StringShifts ==
    LET Content(state) == On({"string content", "escape_sequence"}, state)
        Close(state) == On({"closing \""}, state)
    IN  255 :> (Content(257) @@ Close(243)) @@ 257 :> (Content(283) @@ Close(199))
        @@ 261 :> (Content(285) @@ Close(126)) @@ 285 :> (Content(283) @@ Close(125))
StringGotos ==
    LET Repeat(state) == On({"interpreted_string_literal_repeat1"}, state)
    IN  255 :> Repeat(257) @@ 261 :> Repeat(285) @@ On({257, 283, 285}, Repeat(283))
Named == 246 :> 59 @@ 254 :> 49 @@ 260 :> 48 @@ 274 :> 302 @@ 275 :> 58 @@ 291 :> 337
TemplateNames ==
    [s \in DOMAIN Named |-> On({"\""}, 261) @@ On({"raw_string_literal"}, Named[s])]
TemplateNameGotos == [s \in DOMAIN Named |-> On({"interpreted_string_literal"}, Named[s])]

(* "template" with a name: the pipeline may be missing.                    *)
WithoutPipeline == 48 :> On(Right, 165) @@ 49 :> On(Right, 193)
CommentEnds ==
    350 :> (On({"comment }}}"}, 151) @@ On({"comment space"}, 358))
    @@ 352 :> (On({"comment }}}"}, 198) @@ On({"comment space"}, 357))
    @@ 357 :> On({"comment -}}}"}, 200) @@ 358 :> On({"comment -}}}"}, 172)

-----------------------------------------------------------------------------
(* Reductions.  A production's dynamic precedence counts when a document   *)
(* has several readings.                                                   *)
\* Mutant: no production has a dynamic precedence.
ReductionUncounted(symbol, children, precedence) ==
    [symbol |-> symbol, children |-> children, precedence |-> 0]
Reduction(symbol, children, precedence) ==
    [symbol |-> symbol, children |-> children, precedence |-> precedence]
Production(symbol, children) == Reduction(symbol, children, 0)

(* Actions completed at the top of the document, and inside a block, by    *)
(* the number of their parts.                                              *)
CompletedAtTop ==
    On({142}, Production("text", 1)) @@ On({158}, Production("_action_end", 3))
    @@ On({157}, Production("_pipeline_action", 3))
    @@ On({151}, Production("_comment_action", 3)) @@ On({172}, Production("_comment_action", 4))
    @@ On({173}, Production("if_action", 5)) @@ On({149, 153, 161}, Production("if_action", 6))
    @@ On({162, 163, 166}, Production("if_action", 7)) @@ On({190}, Production("if_action", 8))
    @@ On({156}, Production("with_action", 5)) @@ On({143, 167, 186}, Production("with_action", 6))
    @@ On({169, 174, 182}, Production("with_action", 7)) @@ On({144}, Production("with_action", 8))
    @@ On({185, 187}, Production("range_action", 7))
    @@ On({146, 152}, Production("range_action", 8))
    @@ On({168, 171}, Production("range_action", 10))
    @@ On(175 .. 178, Production("range_action", 11))
    @@ On({179, 180}, Production("range_action", 12))
    @@ On({159}, Production("break_action", 3)) @@ On({160}, Production("continue_action", 3))
    @@ On({165}, Production("template_action", 4)) @@ On({188}, Production("template_action", 5))
    @@ On({189}, Production("define_action", 7)) @@ On({154}, Production("define_action", 8))
    @@ On({155}, Production("block_action", 8)) @@ On({164}, Production("block_action", 9))
CompletedInside ==
    On({229}, Production("text", 1)) @@ On({216}, Production("_action_end", 3))
    @@ On({207}, Production("_pipeline_action", 3))
    @@ On({198}, Production("_comment_action", 3)) @@ On({200}, Production("_comment_action", 4))
    @@ On({204}, Production("if_action", 5)) @@ On(209 .. 211, Production("if_action", 6))
    @@ On(217 .. 219, Production("if_action", 7)) @@ On({226}, Production("if_action", 8))
    @@ On({205}, Production("with_action", 5)) @@ On({212, 213, 244}, Production("with_action", 6))
    @@ On(220 .. 222, Production("with_action", 7)) @@ On({227}, Production("with_action", 8))
    @@ On({223, 224}, Production("range_action", 7))
    @@ On({228, 230}, Production("range_action", 8))
    @@ On({234, 235}, Production("range_action", 10))
    @@ On({236, 239, 240, 241}, Production("range_action", 11))
    @@ On({192, 215}, Production("range_action", 12))
    @@ On({237}, Production("break_action", 3)) @@ On({238}, Production("continue_action", 3))
    @@ On({193}, Production("template_action", 4)) @@ On({206}, Production("template_action", 5))
    @@ On({225}, Production("define_action", 7)) @@ On({231}, Production("define_action", 8))
    @@ On({232}, Production("block_action", 8)) @@ On({233}, Production("block_action", 9))

(* The document, and lists of elements and of clauses.                     *)
Repeated ==
    1 :> Production("template", 0) @@ 78 :> Production("template", 1)
    @@ On({79, 83}, Production("template_repeat1", 2))
    @@ 351 :> Production("if_action_repeat1", 1) @@ 208 :> Production("if_action_repeat1", 2)
    @@ 349 :> Production("with_action_repeat1", 1) @@ 214 :> Production("with_action_repeat1", 2)
(* The clauses whose end is not certain: what follows a left delimiter may *)
(* also be one more action of theirs (39).                                 *)
OpenClauses ==
    81 :> Reduction("_else_if_clause", 6, 1) @@ 87 :> Reduction("_else_if_clause", 5, 1)
    @@ 82 :> Reduction("_else_with_clause", 6, 1) @@ 88 :> Reduction("_else_with_clause", 5, 1)
    @@ 92 :> Reduction("_else_clause", 3, 2) @@ 115 :> Reduction("_else_clause", 4, 2)

(* Operands.                                                               *)
Calls ==
    On({40, 42}, Production("_expression", 1)) @@ On({41, 43}, Production("function_call", 1))
    @@ On({195, 252}, Production("method_call", 2))
    @@ On({242, 281}, Production("function_call", 2))
    @@ On({44, 46}, Production("argument_list", 3))
    @@ On({45, 47, 150, 170}, Production("argument_list", 2))
    @@ On({148, 183}, Production("argument_list", 1))
    @@ On({147, 196}, Production("argument_list_repeat1", 2))
NamesAndStrings ==
    On({119, 122}, Production("field", 2)) @@ On({120, 123}, Production("_field_identifier", 1))
    @@ On({121, 124}, Production("selector_expression", 3)) @@ On({181, 197}, Production("dot", 1))
    @@ On({127, 128}, Production("variable", 1)) @@ On({130, 131}, Production("variable", 2))
    @@ On({129, 136, 141}, Production("_expression", 1))
    @@ On({125, 199}, Production("interpreted_string_literal", 3))
    @@ On({126, 243}, Production("interpreted_string_literal", 2))
    @@ On({283}, Production("interpreted_string_literal_repeat1", 2))
CompletedPipelines ==
    On({145, 191}, Production("parenthesized_pipeline", 3))
    @@ On({184, 194}, Production("_pipeline", 1))
    @@ On({201, 286}, Production("chained_pipeline", 3))
    @@ On({202, 288}, Production("variable_definition", 3))
    @@ On({203, 292}, Production("assignment", 3))
    @@ On({318}, Production("range_variable_definition", 5))

Productions == Total(ParseStates,
    CompletedAtTop @@ CompletedInside @@ Repeated @@ OpenClauses
    @@ Calls @@ NamesAndStrings @@ CompletedPipelines, << >>)

(* Two tables with states in common.                                       *)
Both(f, g) ==
    [s \in DOMAIN f \cup DOMAIN g |->
        IF s \notin DOMAIN g THEN f[s] ELSE IF s \notin DOMAIN f THEN g[s] ELSE f[s] @@ g[s]]

Shifts == Total(ParseStates,
    Both(OperandShifts, Both(NameShifts, WithoutPipeline)) @@ Both(ActionShifts, EndShifts)
    @@ BodyShifts @@ ClauseDelimiters @@ ClauseShifts @@ OperandEnds @@ ArgumentEnds
    @@ RightDelimiters @@ InnerRightDelimiters @@ StringShifts
    @@ TemplateNames @@ CommentEnds, << >>)

Gotos == Total(ParseStates,
    Both(NameGotos, OperandGotos) @@ ActionGotos @@ Both(BodyGotos, ClauseGotos @@ DocumentGoto)
    @@ FurtherGotos @@ AfterElseGotos @@ ArgumentGotos @@ StringGotos @@ TemplateNameGotos, << >>)

(* The tokens on which a state reduces.                                    *)
Elements == {"yaml_no_injection_text"} \cup Text \cup Left
Ends == {"|", ")"} \cup Right
OperandStarts == Literals \cup {"(", ".2", "$", "identifier", "\""}
Operators == Ends \cup {"argument space"}
Reduces == Total(ParseStates,
    On(DOMAIN CompletedAtTop \cup {79}, Elements \cup {"end of input"})
    @@ On(DOMAIN CompletedInside \cup {83}, Elements)
    @@ On({208, 214, 349, 351} \cup DOMAIN OpenClauses, Left)
    @@ On({40, 41, 44, 45, 129, 147, 181, 184, 195, 199, 201, 242, 243}, Operators)
    @@ On({42, 43, 46, 47, 141, 150, 170, 194, 197, 252, 281, 286}, Ends)
    @@ On(119 .. 121, Operators \cup OperandStarts \cup {"."})
    @@ On(122 .. 124, Ends \cup OperandStarts \cup {"."}) @@ On({125, 126}, Ends \cup OperandStarts)
    @@ On({127, 130}, Operators \cup {".", ":=", "="})
    @@ On({128, 131}, Ends \cup {",", ".", ":=", "="})
    @@ 136 :> ({"|"} \cup Right) @@ 145 :> (Operators \cup {"."}) @@ 191 :> (Ends \cup {"."})
    @@ On({148, 183, 288, 292}, {")"} \cup Right)
    @@ On({196, 202, 203}, {")", "argument space"} \cup Right)
    @@ On({1, 78}, {"end of input"})
    @@ 283 :> {"closing \"", "string content", "escape_sequence"} @@ 318 :> Right, {})
=============================================================================
