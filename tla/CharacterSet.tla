---------------------------- MODULE CharacterSet ----------------------------
(***************************************************************************)
(* set_contains (tree_sitter/parser.h): the binary search by which the     *)
(* generated Plato lexer asks whether a character belongs to a class that  *)
(* parser.c gives as a sorted table of ranges, the characters an           *)
(* identifier may begin with and those it may go on with.  One step is one *)
(* turn of the loop.  The positions are those of the C code, from 0; the   *)
(* tables are TLA+ sequences, from 1.                                      *)
(***************************************************************************)
EXTENDS Integers, Sequences

CONSTANT Tables      \* name of a class |-> its sequence of [start, end] ranges

(* A table of parser.c: not empty, its ranges disjoint and in order.       *)
IsTable(t) ==
    /\ t \in Seq([start : Int, end : Int])
    /\ t # << >>
    /\ \A i \in DOMAIN t : t[i].start =< t[i].end
    /\ \A i, j \in DOMAIN t : i < j => t[i].end < t[j].start

ASSUME TablesAssumption == \A n \in DOMAIN Tables : IsTable(Tables[n])

VARIABLES
    table,           \* the class asked about, or "none" when no call is under way
    lookahead,       \* the code point asked about
    index, size,     \* the window of the table that may still hold it
    answer           \* "open" while the loop runs, then "in" or "out"

setVars == <<table, lookahead, index, size, answer>>

SetInit ==
    /\ table = "none"
    /\ lookahead = 0 /\ index = 0 /\ size = 0
    /\ answer = "open"

Within(range) == lookahead >= range.start /\ lookahead =< range.end

(* The call: the window is the whole table.                                *)
Contains(n, c) ==
    /\ table = "none"
    /\ table' = n /\ lookahead' = c
    /\ index' = 0 /\ size' = Len(Tables[n])
    /\ answer' = "open"

\* Mutant: the window keeps the size of the half that was given up.
HalveTooFar ==
    /\ table # "none" /\ answer = "open" /\ size > 1
    /\ LET halfSize == size \div 2
           midIndex == index + halfSize
           range == Tables[table][midIndex + 1]
       IN  IF Within(range)
           THEN answer' = "in" /\ UNCHANGED <<index, size>>
           ELSE /\ index' = IF lookahead > range.end THEN midIndex ELSE index
                /\ size' = halfSize
                /\ UNCHANGED answer
    /\ UNCHANGED <<table, lookahead>>

(* One turn of the loop: the range in the middle answers, or one half of   *)
(* the window is given up.                                                 *)
Halve ==
    /\ table # "none" /\ answer = "open" /\ size > 1
    /\ LET halfSize == size \div 2
           midIndex == index + halfSize
           range == Tables[table][midIndex + 1]
       IN  IF Within(range)
           THEN answer' = "in" /\ UNCHANGED <<index, size>>
           ELSE /\ index' = IF lookahead > range.end THEN midIndex ELSE index
                /\ size' = size - halfSize
                /\ UNCHANGED answer
    /\ UNCHANGED <<table, lookahead>>

(* After the loop the one range left answers.                              *)
Decide ==
    /\ table # "none" /\ answer = "open" /\ size =< 1
    /\ answer' = IF Within(Tables[table][index + 1]) THEN "in" ELSE "out"
    /\ UNCHANGED <<table, lookahead, index, size>>

(* The caller takes the answer and the call's locals are gone.             *)
Return ==
    /\ answer # "open"
    /\ table' = "none" /\ lookahead' = 0 /\ index' = 0 /\ size' = 0
    /\ answer' = "open"

SetNext ==
    \/ \E n \in DOMAIN Tables, c \in Int : Contains(n, c)
    \/ Halve
    \/ Decide
    \/ Return

SetSpec == SetInit /\ [][SetNext]_setVars

(* The search is exact: its answer is "in" when some range of the table    *)
(* holds the character, whichever halves were given up on the way, and     *)
(* "out" otherwise.                                                        *)
MembershipIsExact ==
    table # "none" /\ answer # "open" =>
        (answer = "in" <=> \E i \in DOMAIN Tables[table] : Within(Tables[table][i]))
=============================================================================
