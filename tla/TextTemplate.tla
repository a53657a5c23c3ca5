---------------------------- MODULE TextTemplate ----------------------------
(***************************************************************************)
(* What Go's text/template accepts with the delimiters of syntax.go, as a  *)
(* writer of such documents: syntaxDiagnostics reports a document that the *)
(* package refuses, so the others are those the Plato parser has to read   *)
(* as the package does.  The document is written piece by piece, whenever  *)
(* its reader asks for more, and every character carries what it is to     *)
(* text/template: literal text or part of an action.                       *)
(* What is written does not stay in the state, so a run covers documents   *)
(* of every length whose blocks nest no deeper than the dialect allows.    *)
(***************************************************************************)
EXTENDS PlatoLexer

CONSTANT Dialects    \* name |-> what the documents of that kind are made of

(* texts          the characters of literal text                           *)
(* pipelines      the actions at the top of the document                   *)
(* conditions     the pipelines after "if", "with", "range" and names,     *)
(*                which are also the actions inside blocks                 *)
(* variables      what may come before the pipeline of a "range"           *)
(* names          quoted names of templates                                *)
(* comments       with their marks                                         *)
(* lefts, rights  delimiters, with the space after or before them          *)
(* touching       the pairs of delimiters that may touch a comment         *)
(* nesting        how many blocks may be open at a time                    *)
(* misreadings    how often a reader may leave the document's own reading  *)
(* reopens        whether blocks are opened after that                     *)
IsDialect(d) ==
    /\ d.texts \subseteq Characters
    /\ \A part \in {d.pipelines, d.conditions, d.variables, d.names, d.comments, d.lefts, d.rights} :
          part \subseteq Seq(Characters)
    /\ d.touching \subseteq Seq(Characters) \X Seq(Characters)
    /\ d.nesting \in Nat /\ d.misreadings \in Nat
    /\ d.reopens \in BOOLEAN
ASSUME DialectsAssumption == \A n \in DOMAIN Dialects : IsDialect(Dialects[n])

VARIABLES
    dialect,          \* the kind of the document
    unread,           \* the characters written and not read yet
    ended,            \* the document is complete
    open,             \* the blocks open, each with its kind and its present clause
    braces,           \* how many opening braces the text ends in
    due,              \* the last action written goes on with its block or closes it
    control           \* an action that is not a pipeline or a comment has been written

textVars == <<dialect, unread, ended, open, braces, due, control>>

Marked(chars, literal) == [i \in DOMAIN chars |-> [char |-> chars[i], literal |-> literal]]

Of == Dialects[dialect]

TextInit ==
    /\ dialect \in DOMAIN Dialects
    /\ unread = << >>
    /\ ended = FALSE
    /\ open = << >>
    /\ braces = 0
    /\ due = FALSE
    /\ control = FALSE

(* Text: the first three braces in a row are a delimiter.                  *)
WriteText(c) ==
    /\ c = "{" => braces < 2
    /\ unread' = Marked(<<c>>, TRUE)
    /\ braces' = IF c = "{" THEN braces + 1 ELSE 0
    /\ due' = FALSE
    /\ UNCHANGED <<ended, open, control>>

Write(chars, isDue, isControl) ==
    /\ braces = 0
    /\ unread' = Marked(chars, FALSE)
    /\ due' = isDue
    /\ control' = (control \/ isControl)
    /\ UNCHANGED <<ended, braces>>

(* An action between any two delimiters.                                   *)
WriteAction(chars, isDue, isControl) ==
    \E left \in Of.lefts, right \in Of.rights : Write(left \o chars \o right, isDue, isControl)

Inside == IF open = << >> THEN "document" ELSE open[Len(open)].kind

WritePipeline ==
    /\ \E p \in (IF open = << >> THEN Of.pipelines ELSE Of.conditions) :
          WriteAction(p, FALSE, FALSE)
    /\ UNCHANGED open

WriteTemplate ==
    /\ \E n \in Of.names, p \in {<< >>} \cup { <<" ">> \o c : c \in Of.conditions } :
          WriteAction(Chars("template ") \o n \o p, FALSE, TRUE)
    /\ UNCHANGED open

(* A comment touches its delimiters.                                       *)
WriteComment ==
    /\ \E c \in Of.comments, d \in Of.touching : Write(d[1] \o c \o d[2], FALSE, FALSE)
    /\ UNCHANGED open

(* "break" and "continue" only in the body of a "range" of this template.  *)
InRange ==
    \E i \in DOMAIN open :
        /\ open[i].kind = "range" /\ open[i].clause = "body"
        /\ \A j \in i + 1 .. Len(open) : open[j].kind # "block"
WriteJump ==
    /\ InRange
    /\ \E word \in {"break", "continue"} : WriteAction(Chars(word), FALSE, TRUE)
    /\ UNCHANGED open

Open(kind) == open' = Append(open, [kind |-> kind, clause |-> "body"])
WriteBlock ==
    /\ Len(open) < Of.nesting
    /\ \/ \E kind \in {"if", "with"}, c \in Of.conditions :
             WriteAction(Chars(kind) \o <<" ">> \o c, FALSE, TRUE) /\ Open(kind)
       \/ \E v \in Of.variables, c \in Of.conditions :
             WriteAction(Chars("range ") \o v \o c, FALSE, TRUE) /\ Open("range")
       \/ \E n \in Of.names, c \in Of.conditions :
             WriteAction(Chars("block ") \o n \o <<" ">> \o c, FALSE, TRUE) /\ Open("block")
       \/ \* templates are defined at the top only
          /\ open = << >>
          /\ \E n \in Of.names : WriteAction(Chars("define ") \o n, FALSE, TRUE)
          /\ Open("define")

Proceed(clause) == open' = [open EXCEPT ![Len(open)].clause = clause]
WriteElse ==
    /\ Inside \in {"if", "with", "range"} /\ open[Len(open)].clause # "else"
    /\ WriteAction(Chars("else"), TRUE, TRUE)
    /\ Proceed("else")
WriteElseIf ==
    /\ Inside \in {"if", "with"} /\ open[Len(open)].clause # "else"
    /\ \E c \in Of.conditions :
          WriteAction(Chars("else ") \o Chars(Inside) \o <<" ">> \o c, TRUE, TRUE)
    /\ Proceed("else if")
WriteEnd ==
    /\ open # << >>
    /\ WriteAction(Chars("end"), TRUE, TRUE)
    /\ open' = SubSeq(open, 1, Len(open) - 1)

Finish ==
    /\ open = << >>
    /\ ended' = TRUE
    /\ due' = FALSE
    /\ UNCHANGED <<unread, open, braces, control>>

WriteMore ==
    /\ unread = << >> /\ ~ ended
    /\ UNCHANGED dialect
    /\ \/ \E c \in Of.texts : WriteText(c)
       \/ WritePipeline
       \/ WriteTemplate
       \/ WriteComment
       \/ WriteJump
       \/ WriteBlock
       \/ WriteElse
       \/ WriteElseIf
       \/ WriteEnd
       \/ Finish
=============================================================================
