---------------------------- MODULE PlatoStacks -----------------------------
(***************************************************************************)
(* What may lie on the stack of the Plato parser.  The generated code does *)
(* not look: a reduction pops as many states as its production has         *)
(* children and asks the state below for a goto, and that there are so     *)
(* many, and that there is one, is a property of the tables alone.  Here   *)
(* it is reduced to what neighbours on the stack have to be, by the        *)
(* grammar's items: how much of which symbol a state has behind it.        *)
(***************************************************************************)
EXTENDS PlatoParser

(* Behind a left delimiter anything that an action may be can begin.       *)
Delimited == 2 .. 39

(* The document and the lists in it.                                    *)
DocumentItems ==
    "template" :> <<{78}>>
    @@ "template_repeat1" :> <<{70, 72, 73, 76, 78, 79, 89, 90, 91, 102, 103, 104, 106, 109, 111}
                                  \cup (81 .. 86) \cup (113 .. 117), {79, 83}>>
    @@ "text" :> <<{142, 229}>>
    @@ "if_action_repeat1" :> <<{132, 134, 137, 140, 208, 351}, {208}>>
    @@ "with_action_repeat1" :> <<{133, 135, 138, 139, 214, 349}, {214}>>
(* Actions with a body.                                                 *)
BlockItems ==
    "if_action" :> <<Delimited, {67, 68}, {245, 248}, {71, 77},
                     {70, 73, 132, 134, 173, 204, 250, 259},
                     {137, 140, 149, 153, 161, 209, 210, 211, 265, 267, 282, 284},
                     {162, 163, 166, 217, 218, 219, 263, 272}, {190, 226}>>
    @@ "with_action" :> <<Delimited, {57, 69}, {251, 278}, {74, 75},
                          {72, 76, 135, 139, 156, 205, 253, 262},
                          {133, 138, 143, 167, 186, 212, 213, 244, 247, 249, 268, 270},
                          {169, 174, 182, 220, 221, 222, 266, 273}, {144, 227}>>
    @@ "range_action" :> <<Delimited, {50, 51}, {258, 289, 326, 336}, {93, 94, 99, 100},
                           {4, 5, 10, 11, 84, 89, 102, 103},
                           {6, 7, 12, 13, 293, 299, 301, 303, 327, 338, 339, 342},
                           {97, 98, 107, 108, 185, 187, 223, 224, 294, 310, 313, 316, 317, 335, 340,
                            341},
                           {25, 26, 30, 31, 80, 85, 117, 118, 146, 152, 228, 230} \cup (109 .. 112),
                           {14, 16, 17, 18, 90, 113, 114, 116, 300, 306, 307, 334} \cup (32 .. 35),
                           {19, 20, 36, 37, 168, 171, 234, 235, 304, 308, 311, 312, 315, 319, 322,
                            323},
                           {236, 239, 240, 241, 325, 328, 330, 343} \cup (175 .. 178),
                           {179, 180, 192, 215}>>
    @@ "define_action" :> <<Delimited, {274, 291}, {302, 337}, {95, 101}, {15, 21, 91, 104},
                            {22, 27, 295, 314}, {189, 225, 297, 320}, {154, 231}>>
    @@ "block_action" :> <<Delimited, {246, 275}, {58, 59}, {271, 290}, {96, 105},
                           {23, 28, 86, 106}, {24, 29, 298, 321}, {155, 232, 305, 309},
                           {164, 233}>>
(* Their clauses and their end.                                         *)
ClauseItems ==
    "_else_if_clause" :> <<{2, 8, 347, 348, 362}, {280, 365}, {55}, {277}, {87}, {81}>>
    @@ "_else_with_clause" :> <<{3, 9, 346, 354, 366}, {287, 364}, {56}, {279}, {88}, {82}>>
    @@ "_else_clause" :> <<{2, 3, 8, 9, 346, 347, 348, 354}, {280, 287}, {92}, {115}>>
    @@ "_action_end" :> <<{2, 3, 8, 9, 346, 347, 348, 354, 359, 361}, {324, 331}, {158, 216}>>
(* Actions without one.                                                 *)
ActionItems ==
    "_pipeline_action" :> <<Delimited, {256, 269}, {157, 207}>>
    @@ "_comment_action" :> <<Delimited, {350, 352}, {151, 198, 357, 358}, {172, 200}>>
    @@ "template_action" :> <<Delimited, {254, 260}, {48, 49}, {165, 193, 264, 276}, {188, 206}>>
    @@ "break_action" :> <<Delimited, {329, 332}, {159, 237}>>
    @@ "continue_action" :> <<Delimited, {296, 333}, {160, 238}>>
(* Pipelines.                                                           *)
PipelineItems ==
    "chained_pipeline" :> <<{148, 183, 196, 202, 203, 245, 248, 251, 256, 258, 264, 269, 271, 288,
                             289, 290, 292, 318, 344, 355} \cup (276 .. 279),
                            {61, 62}, {201, 286}>>
    @@ "parenthesized_pipeline" :> <<{52, 66}, {344, 355}, {145, 191}>>
    @@ "_pipeline" :> <<{184, 194}>>
    @@ "variable_definition" :> <<{129, 136, 141}, {63, 65}, {202, 288}>>
    @@ "assignment" :> <<{129, 136, 141}, {60, 64}, {203, 292}>>
    @@ "range_variable_definition" :> <<{136}, {353}, {363}, {53}, {318}>>
    @@ "argument_list" :> <<{148, 183}, {45, 47, 150, 170}, {44, 46}>>
    @@ "argument_list_repeat1" :> <<{54, 147, 150, 170} \cup (44 .. 47), {147, 196}>>
(* Operands.                                                            *)
OperandItems ==
    "method_call" :> <<{40, 42}, {195, 252}>>
    @@ "function_call" :> <<{41, 43}, {242, 281}>>
    @@ "_expression" :> <<{40, 42, 129, 136, 141}>>
    @@ "selector_expression" :> <<{129, 136, 141, 184, 194} \cup (40 .. 43), {345, 356},
                                  {121, 124}>>
    @@ "field" :> <<{181, 197}, {119, 122}>>
    @@ "_field_identifier" :> <<{120, 123}>>
    @@ "dot" :> <<{181, 197}>>
    @@ "variable" :> <<{127, 128}, {130, 131}>>
    @@ "interpreted_string_literal" :> <<{255, 261}, {126, 243, 257, 285}, {125, 199}>>
    @@ "interpreted_string_literal_repeat1" :> <<{257, 283, 285}, {283}>>

(* Symbol |-> the states in which its first child has been read, its first *)
(* two, and so on.                                                         *)
Items == DocumentItems @@ BlockItems @@ ClauseItems @@ ActionItems @@ PipelineItems @@ OperandItems

(* The states that may come on top of a state.                             *)
After(s) ==
    { Shifts[s][t] : t \in DOMAIN Shifts[s] } \cup { Gotos[s][symbol] : symbol \in DOMAIN Gotos[s] }

(* A state with n children of a symbol behind it comes on top of one with  *)
(* n - 1, and one with the first of them on one that knows where to go.    *)
Fits(s, t) ==
    \A symbol \in DOMAIN Items : \A n \in DOMAIN Items[symbol] :
        t \in Items[symbol][n] =>
            IF n = 1 THEN symbol \in DOMAIN Gotos[s] ELSE s \in Items[symbol][n - 1]

(* The words that make an action one of control flow, as states.           *)
ControlWords ==
    { Shifts[s][word] :
        s \in Delimited,
        word \in {"if", "with", "range", "define", "block", "template", "break", "continue"} }

-----------------------------------------------------------------------------
(* What the tables have to be for this.  None of it has a parameter: TLC   *)
(* computes it.                                                            *)

(* ts_lex goes from one of its cases to another.                           *)
ASSUME LexerFits ==
    /\ \A s \in LexStates :
          /\ \A c \in DOMAIN Moves[s] : Moves[s][c] \in LexStates
          /\ Skips[s] \in LexStates \cup {NoState}
          /\ Others[s] # << >> => Others[s][2] \in LexStates
          /\ Classes[s] # << >> =>
                Classes[s][1] \in {"identifier", "variable", "rune"} /\ Classes[s][2] \in LexStates
    /\ CodePoint \in [Characters -> Int]

(* What the writer of a document spells.                                   *)
ASSUME WordsFit ==
    /\ \A word \in {"template ", "break", "continue", "if", "with", "range ", "block ", "define ",
                    "else", "else ", "end"} : Chars(word) \in Seq(Characters)
    /\ " " \in Characters

(* Items are lists of sets of states, and nothing is below the first state.*)
ASSUME ItemsFit == \A symbol \in DOMAIN Items : Items[symbol] \in Seq(SUBSET (ParseStates \ {1}))

(* Every state of the parser has a mode to lex in, and what comes on top   *)
(* of it is another state that fits.                                       *)
ASSUME TablesFit ==
    \A s \in ParseStates :
        /\ LexMode[s] \in LexStates
        /\ \A t \in After(s) :
              /\ t \in ParseStates \ {1}
              /\ t = 360 => s = 1
              /\ Fits(s, t)

(* A state that reduces has all children of its production behind it.      *)
ASSUME ReductionsFit ==
    \A s \in ParseStates : Reduces[s] # {} =>
        LET p == Productions[s]
        IN  /\ p.precedence \in Int
            /\ \/ p.children = 0 /\ p.symbol \in DOMAIN Gotos[s]
               \/ /\ p.symbol \in DOMAIN Items
                  /\ p.children \in DOMAIN Items[p.symbol]
                  /\ s \in Items[p.symbol][p.children]

(* A word of control flow is the second child of an action of control flow *)
(* and no child of anything else.                                          *)
ASSUME ControlFits ==
    /\ \A symbol \in DOMAIN Items : \A n \in DOMAIN Items[symbol] :
          /\ Items[symbol][n] \cap ControlWords # {} => symbol \in ControlFlow
          /\ symbol \in ControlFlow /\ n = 2 => Items[symbol][n] \subseteq ControlWords
    /\ \A s \in ParseStates :
          Reduces[s] # {} /\ Productions[s].symbol \in ControlFlow => Productions[s].children >= 2

-----------------------------------------------------------------------------
(* Properties.                                                             *)

(* Whatever has been read: a state that is on the stack has everything     *)
(* that it counts on below it.                                             *)
IsRooted(states) ==
    \A i \in DOMAIN states : \A symbol \in DOMAIN Items : \A n \in DOMAIN Items[symbol] :
        states[i] \in Items[symbol][n] =>
            /\ n < i
            /\ symbol \in DOMAIN Gotos[states[i - n]]
            /\ \A m \in 1 .. n : states[i - n + m] \in Items[symbol][m]
Rooted == IsRooted(stack)

(* No reduction finds the stack too short, or a state below that does not  *)
(* expect the symbol; and when the parser accepts, nothing is left open:   *)
(* the stack is the first state and the document.                          *)
StackFits ==
    /\ phase = "running" /\ Reduces[Top] # {} =>
          LET below == Len(stack) - Productions[Top].children
          IN  below >= 1 /\ Productions[Top].symbol \in DOMAIN Gotos[stack[below]]
    /\ phase = "accepted" => stack = <<1, 360>>

(* templateRegions' unstable: the reduction that takes a word of control   *)
(* flow off the stack, and no other, finds control flow.                   *)
ControlIsNoticed ==
    [][Reduce =>
         (unstable' <=>
              unstable \/ \E i \in Len(stack') .. Len(stack) : stack[i] \in ControlWords)]_vars
=============================================================================
