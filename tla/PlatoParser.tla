---------------------------- MODULE PlatoParser -----------------------------
(***************************************************************************)
(* The Plato parser (internal/tree-sitter/plato, with templateRegions of   *)
(* internal/plato/parser.go as its caller): the lexer and the tables of    *)
(* parser.c, driven as the tree-sitter runtime drives them, over the       *)
(* documents of TextTemplate.  The grammar has conflicts, and there the    *)
(* runtime goes on with two versions of the stack; the model follows one   *)
(* version, any of them, and counts where it leaves the document's own     *)
(* reading.                                                                *)
(***************************************************************************)
EXTENDS PlatoTables, TextTemplate, FiniteSets

VARIABLES
    lexState,         \* the automaton's state
    token,            \* the token accepted so far, "none", or "error" once the lexer fell back
    ahead,            \* the characters read after that token's end
    covered,          \* what the token's characters are: literal (TRUE) or not
    peek,             \* the token the parser looks at, or "none"
    stack,            \* the parse states
    phase,            \* "running", "accepted" or "failed"
    unstable,         \* a node templateRegions takes for control flow is in the tree
    misread,          \* how often this version left the document's reading
    score             \* its dynamic precedence, less that of the clauses written

lexVars == <<lexState, token, ahead, covered>>
treeVars == <<stack, phase, unstable, misread, score>>
vars == <<setVars, textVars, lexVars, peek, treeVars>>

Init ==
    /\ SetInit /\ TextInit
    /\ stack = <<1>> /\ lexState = LexMode[1]
    /\ token = "none" /\ ahead = << >> /\ covered = {}
    /\ peek = "none"
    /\ phase = "running"
    /\ unstable = FALSE /\ misread = 0 /\ score = 0

-----------------------------------------------------------------------------
(* The lexer, one character at a time.                                     *)

Lexing == phase = "running" /\ peek = "none" /\ table = "none"
Here == Head(unread).char
Row == Moves[lexState]

OnSpace == Skips[lexState] # NoState /\ Here \in Space
OnOther == Others[lexState] # << >> /\ Here \notin Others[lexState][1]
OnClass == Classes[lexState] # << >>

(* ADVANCE: the character is read, and the token ends behind it if the     *)
(* state accepts one.                                                      *)
Advance(state) ==
    /\ lexState' = state
    /\ unread' = Tail(unread)
    /\ LET read == Append(ahead, Head(unread))
       IN  IF Accepts[state] # "none"
           THEN /\ token' = Accepts[state]
                /\ covered' = covered \cup { read[i].literal : i \in DOMAIN read }
                /\ ahead' = << >>
           ELSE /\ ahead' = read
                /\ UNCHANGED <<token, covered>>

(* The runtime takes the longest token; without one it tries again with    *)
(* the mode for errors, and then the text is an error itself.              *)
EndToken ==
    /\ unread' = ahead \o unread
    /\ ahead' = << >>
    /\ IF token = "none"
       THEN /\ lexState' = 0 /\ token' = "error"
            /\ UNCHANGED <<covered, peek>>
       ELSE /\ peek' = token
            /\ UNCHANGED <<lexState, token, covered>>

Unlexed == <<dialect, ended, open, braces, due, control>>

MoveOn ==
    /\ Lexing /\ unread # << >>
    /\ \/ Here \in DOMAIN Row /\ Advance(Row[Here])
       \/ Here \notin DOMAIN Row /\ ~ OnSpace /\ OnOther /\ Advance(Others[lexState][2])
    /\ UNCHANGED <<setVars, Unlexed, peek, treeVars>>

(* SKIP: white space before the token.                                     *)
SkipSpace ==
    /\ Lexing /\ unread # << >>
    /\ Here \notin DOMAIN Row /\ OnSpace
    /\ unread' = Tail(unread)
    /\ lexState' = Skips[lexState]
    /\ UNCHANGED <<setVars, Unlexed, token, ahead, covered, peek, treeVars>>

AskClass ==
    /\ Lexing /\ unread # << >>
    /\ Here \notin DOMAIN Row /\ ~ OnSpace /\ ~ OnOther /\ OnClass
    /\ Contains(Classes[lexState][1], CodePoint[Here])
    /\ UNCHANGED <<textVars, lexVars, peek, treeVars>>

Search ==
    /\ Halve \/ Decide
    /\ UNCHANGED <<textVars, lexVars, peek, treeVars>>

TakeAnswer ==
    /\ Return
    /\ IF answer = "in" THEN Advance(Classes[lexState][2]) /\ UNCHANGED peek ELSE EndToken
    /\ UNCHANGED <<Unlexed, treeVars>>

HasMoves ==
    Moves[lexState] # << >> \/ OnClass \/ Others[lexState] # << >>
NoMove ==
    IF unread # << >>
    THEN Here \notin DOMAIN Row /\ ~ OnSpace /\ ~ OnOther /\ ~ OnClass
    ELSE ended \/ ~ HasMoves

AtEnd == unread = << >> /\ ended /\ lexState \in EndsInput

Stop ==
    /\ Lexing /\ NoMove /\ ~ AtEnd
    /\ EndToken
    /\ UNCHANGED <<setVars, Unlexed, treeVars>>

(* "if (eof) ADVANCE(92)".                                                 *)
EndOfInput ==
    /\ Lexing /\ AtEnd
    /\ peek' = Accepts[92]
    /\ UNCHANGED <<setVars, textVars, lexVars, treeVars>>

-----------------------------------------------------------------------------
(* The parser.                                                             *)

Top == stack[Len(stack)]
Parsing == phase = "running" /\ peek # "none"

Shiftable == peek \in DOMAIN Shifts[Top]
Reducible == peek \in Reduces[Top]

(* Both: the clause may be over, or go on with one more action.            *)
Conflict == Shiftable /\ Reducible

(* A version that ends a clause although the document does not, or goes on *)
(* although it does, reads another document than text/template.            *)
Choose(over) ==
    /\ misread' = IF Conflict /\ over # due THEN misread + 1 ELSE misread
    /\ misread' =< Of.misreadings

\* Mutant: the lexer goes on in the state shifted, not in its mode.
ShiftWithoutMode ==
    /\ Parsing /\ Shiftable
    /\ Choose(FALSE)
    /\ LET s == Shifts[Top][peek]
       IN  stack' = Append(stack, s) /\ lexState' = s
    /\ peek' = "none"
    /\ token' = "none" /\ ahead' = << >> /\ covered' = {}
    /\ UNCHANGED <<setVars, textVars, phase, unstable, score>>

\* Mutant: the state shifted takes the place of the top.
ShiftInPlace ==
    /\ Parsing /\ Shiftable
    /\ Choose(FALSE)
    /\ LET s == Shifts[Top][peek]
       IN  stack' = [stack EXCEPT ![Len(stack)] = s] /\ lexState' = LexMode[s]
    /\ peek' = "none"
    /\ token' = "none" /\ ahead' = << >> /\ covered' = {}
    /\ UNCHANGED <<setVars, textVars, phase, unstable, score>>

Shift ==
    /\ Parsing /\ Shiftable
    /\ Choose(FALSE)
    /\ LET s == Shifts[Top][peek]
       IN  stack' = Append(stack, s) /\ lexState' = LexMode[s]
    /\ peek' = "none"
    /\ token' = "none" /\ ahead' = << >> /\ covered' = {}
    /\ UNCHANGED <<setVars, textVars, phase, unstable, score>>

(* The node kinds templateRegions looks for.                               *)
ControlFlow ==
    {"if_action", "range_action", "with_action", "define_action", "block_action",
     "template_action", "break_action", "continue_action"}

\* Mutant: the last node decides.
ReduceForgetting ==
    /\ Parsing /\ Reducible
    /\ Choose(TRUE)
    /\ LET p == Productions[Top]
           below == SubSeq(stack, 1, Len(stack) - p.children)
       IN  /\ stack' = Append(below, Gotos[below[Len(below)]][p.symbol])
           /\ unstable' = (p.symbol \in ControlFlow)
           /\ score' = score + p.precedence
    /\ UNCHANGED <<setVars, textVars, lexVars, peek, phase>>

Reduce ==
    /\ Parsing /\ Reducible
    /\ Choose(TRUE)
    /\ LET p == Productions[Top]
           below == SubSeq(stack, 1, Len(stack) - p.children)
       IN  /\ stack' = Append(below, Gotos[below[Len(below)]][p.symbol])
           /\ unstable' = (unstable \/ p.symbol \in ControlFlow)
           /\ score' = score + p.precedence
    /\ UNCHANGED <<setVars, textVars, lexVars, peek, phase>>

Accept ==
    /\ Parsing /\ Top = 360 /\ peek = "end of input"
    /\ phase' = "accepted"
    /\ UNCHANGED <<setVars, textVars, lexVars, peek, stack, unstable, misread, score>>

(* No action: this version of the stack is at an error.                    *)
Fail ==
    /\ Parsing /\ ~ Shiftable /\ ~ Reducible /\ ~ (Top = 360 /\ peek = "end of input")
    /\ phase' = "failed"
    /\ UNCHANGED <<setVars, textVars, lexVars, peek, stack, unstable, misread, score>>

-----------------------------------------------------------------------------
(* The document goes on when the lexer needs a character; the clauses it   *)
(* writes are counted with the precedence their productions have: those of *)
(* a "range" have none.                                                    *)
Worth(block) ==
    IF block.kind = "range" THEN 0
    ELSE CASE block.clause = "else" -> 2 [] block.clause = "else if" -> 1 [] OTHER -> 0
MoreInput ==
    /\ Lexing /\ HasMoves /\ WriteMore
    /\ misread > 0 /\ ~ Of.reopens => Len(open') =< Len(open)
    /\ score' = IF due' /\ Len(open') = Len(open) THEN score - Worth(open'[Len(open)]) ELSE score
    /\ UNCHANGED <<setVars, lexVars, peek, stack, phase, unstable, misread>>

Finished == phase # "running" /\ UNCHANGED vars

ReadOn ==
    \/ MoveOn \/ SkipSpace \/ AskClass \/ Search \/ TakeAnswer \/ Stop \/ EndOfInput
    \/ Shift \/ Reduce \/ Accept \/ Fail

Next == ReadOn \/ MoreInput \/ Finished
Spec == Init /\ [][Next]_vars

-----------------------------------------------------------------------------
(* Properties.                                                             *)

Tokens == { Accepts[s] : s \in LexStates } \ {"none"}

TypeOK ==
    /\ dialect \in DOMAIN Dialects
    /\ unread \in Seq([char : Characters, literal : BOOLEAN])
    /\ ahead \in Seq([char : Characters, literal : BOOLEAN])
    /\ covered \subseteq BOOLEAN
    /\ lexState \in LexStates
    /\ token \in Tokens \cup {"none", "error"} /\ peek \in Tokens \cup {"none", "error"}
    /\ stack \in Seq(ParseStates) /\ stack # << >>
    /\ phase \in {"running", "accepted", "failed"}
    /\ unstable \in BOOLEAN /\ control \in BOOLEAN
    /\ misread \in 0 .. Of.misreadings /\ score \in Int

(* Literal text and nothing else becomes text: a token of the kinds that   *)
(* templateRegions takes for literal spans is made of characters that      *)
(* text/template leaves alone, and any other token of none of them.        *)
TextKinds == {"yaml_no_injection_text"} \cup Text
LiteralsAreText ==
    peek \notin {"none", "error"} =>
        covered = IF peek = "end of input" THEN {} ELSE { peek \in TextKinds }

(* No literal character is lost as white space between tokens.             *)
LiteralsAreKept == [][SkipSpace => ~ Head(unread).literal]_vars

(* templateRegions finds control flow in the tree exactly when the document*)
(* has some, whichever reading of the document the parser has chosen.      *)
StructureIsSeen == phase = "accepted" => (unstable <=> control)

(* A document that text/template accepts is read to its end without an     *)
(* error by the version that follows the document, and no lexing of it     *)
(* needs the mode for errors.                                              *)
ValidIsAccepted == misread = 0 => phase # "failed" /\ token # "error"

(* Wherever the document may go on, the blocks on the parser's stack are   *)
(* those that are open in the document, in their order.                    *)
Openers ==
    On({67, 68}, "if") @@ On({57, 69}, "with") @@ On({50, 51}, "range")
    @@ On({274, 291}, "define") @@ On({275, 246}, "block")
EndStates == { Shifts[s]["end"] : s \in { t \in ParseStates : "end" \in DOMAIN Shifts[t] } }
OpenerStates == DOMAIN Openers
OpenBlocks ==
    LET opened == SelectSeq(stack, LAMBDA s : s \in OpenerStates)
        closing == \E i \in DOMAIN stack : stack[i] \in EndStates
    IN  IF closing THEN SubSeq(opened, 1, Len(opened) - 1) ELSE opened
BlocksAreRead ==
    misread = 0 /\ Lexing /\ unread = << >> =>
        /\ Len(OpenBlocks) = Len(open)
        /\ \A i \in DOMAIN open : Openers[OpenBlocks[i]] = open[i].kind

(* Of two readings of a whole document the runtime keeps the one with the  *)
(* higher dynamic precedence, and that is the document's own: the version  *)
(* that follows the document has counted, wherever the document may go on, *)
(* every clause written but those still open, and a version that misread   *)
(* a clause has counted less when it is accepted.                          *)
Pending ==
    LET In(clause) ==
            Cardinality({ i \in DOMAIN open : open[i].kind # "range" /\ open[i].clause = clause })
    IN  2 * In("else") + In("else if")
PreferredReading ==
    /\ misread = 0 /\ Lexing /\ unread = << >> => score = - Pending
    /\ misread > 0 /\ phase = "accepted" => score < 0
=============================================================================
