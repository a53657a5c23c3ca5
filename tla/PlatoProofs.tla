---------------------------- MODULE PlatoProofs ------------------------------
(***************************************************************************)
(* What holds of the Plato parser for every dialect, document and nesting, *)
(* and for every table of character classes.  First its search: exact for  *)
(* every table of sorted, disjoint ranges and every character; the         *)
(* inductive invariant is the loop's, the window lies inside the table,    *)
(* and a range that holds the character lies inside the window.  Then the  *)
(* parser around it: it uses the search as the search expects, its state   *)
(* has its types, and no reduction runs off the stack.  The parse tables   *)
(* are one fixed object and are not opened here: the proofs rest on the    *)
(* facts about them that PlatoStacks assumes.                              *)
(***************************************************************************)
EXTENDS PlatoStacks, TLAPS

Ranges == Tables[table]

(* What the loop keeps true while it runs.                                 *)
Window ==
    /\ lookahead \in Int /\ index \in Nat /\ size \in Nat
    /\ answer \in {"open", "in", "out"}
    /\ table # "none" => table \in DOMAIN Tables
    /\ table # "none" /\ answer = "open" =>
        /\ size >= 1
        /\ index + size =< Len(Ranges)
        /\ \A i \in DOMAIN Ranges :
              Within(Ranges[i]) => index < i /\ i =< index + size

SetInv == Window /\ MembershipIsExact

LEMMA HalfIsProper ==
    ASSUME NEW s \in Nat, s > 1
    PROVE  s \div 2 \in Nat /\ 1 =< s \div 2 /\ s \div 2 < s
               /\ s \div 2 =< s - s \div 2
  OBVIOUS

LEMMA TableFacts ==
    ASSUME NEW n \in DOMAIN Tables
    PROVE  /\ Tables[n] \in Seq([start : Int, end : Int])
           /\ Len(Tables[n]) \in Nat /\ Len(Tables[n]) >= 1
           /\ DOMAIN Tables[n] = 1 .. Len(Tables[n])
           /\ \A i \in 1 .. Len(Tables[n]) :
                 /\ Tables[n][i].start \in Int /\ Tables[n][i].end \in Int
                 /\ Tables[n][i].start =< Tables[n][i].end
           /\ \A i, j \in 1 .. Len(Tables[n]) :
                 i < j => Tables[n][i].end < Tables[n][j].start
  <1>1. IsTable(Tables[n])
    BY TablesAssumption
  <1>2. Tables[n] \in Seq([start : Int, end : Int]) /\ Tables[n] # << >>
    BY <1>1 DEF IsTable
  <1>3. \A R : \A t \in Seq(R) : t # << >> =>
          /\ Len(t) \in Nat /\ Len(t) >= 1
          /\ DOMAIN t = 1 .. Len(t)
          /\ \A i \in 1 .. Len(t) : t[i] \in R
    OBVIOUS
  <1>4. /\ Len(Tables[n]) \in Nat /\ Len(Tables[n]) >= 1
        /\ DOMAIN Tables[n] = 1 .. Len(Tables[n])
        /\ \A i \in 1 .. Len(Tables[n]) : Tables[n][i] \in [start : Int, end : Int]
    BY <1>2, <1>3
  <1>. QED
    BY <1>1, <1>2, <1>4 DEF IsTable

(* A turn of the loop keeps every range that may hold the character inside *)
(* the window: the ranges given up lie wholly on the other side of the     *)
(* middle one.                                                             *)
LEMMA HalveKeepsWindow ==
    ASSUME SetInv, Halve
    PROVE  SetInv'
  <1>1. table \in DOMAIN Tables /\ table # "none" /\ answer = "open" /\ size > 1
    BY DEF SetInv, Window, Halve
  <1>. DEFINE half == size \div 2
              mid == index + half
              len == Len(Ranges)
  <1>2. /\ half \in Nat /\ 1 =< half /\ half < size /\ half =< size - half
        /\ size \in Nat /\ index \in Nat /\ lookahead \in Int
    BY <1>1, HalfIsProper DEF SetInv, Window
  <1>3. /\ len \in Nat /\ index + size =< len
        /\ DOMAIN Ranges = 1 .. len
        /\ \A i \in 1 .. len :
              /\ Ranges[i].start \in Int /\ Ranges[i].end \in Int
              /\ Ranges[i].start =< Ranges[i].end
        /\ \A i, j \in 1 .. len : i < j => Ranges[i].end < Ranges[j].start
    BY <1>1, TableFacts DEF SetInv, Window, Ranges
  <1>4. mid + 1 \in 1 .. len /\ mid \in Nat
    BY <1>2, <1>3
  <1>5. \A i \in 1 .. len : Within(Ranges[i]) => index < i /\ i =< index + size
    BY <1>1, <1>3 DEF SetInv, Window
  <1>6. table' = table /\ lookahead' = lookahead
    BY DEF Halve
  <1>7. Ranges' = Ranges /\ \A r : Within(r)' <=> Within(r)
    BY <1>6 DEF Ranges, Within
  <1>. HIDE DEF half, mid, len
  <1>8. CASE Within(Ranges[mid + 1])
    <2>1. answer' = "in" /\ index' = index /\ size' = size
      BY <1>8 DEF Halve, Ranges, mid, half
    <2>2. MembershipIsExact'
      BY <1>3, <1>4, <1>6, <1>8, <2>1 DEF MembershipIsExact, Ranges, Within
    <2>. QED
      BY <1>1, <1>2, <1>6, <2>1, <2>2 DEF SetInv, Window
  <1>9. CASE ~ Within(Ranges[mid + 1])
    <2>1. /\ answer' = "open"
          /\ index' = IF lookahead > Ranges[mid + 1].end THEN mid ELSE index
          /\ size' = size - half
      BY <1>1, <1>9 DEF Halve, Ranges, mid, half
    <2>2. \A i \in 1 .. len : Within(Ranges[i]) =>
              index' < i /\ i =< index' + size'
      <3>. SUFFICES ASSUME NEW i \in 1 .. len, Within(Ranges[i])
                    PROVE  index' < i /\ i =< index' + size'
        OBVIOUS
      <3>1. index < i /\ i =< index + size
        BY <1>5
      <3>2. lookahead >= Ranges[i].start /\ lookahead =< Ranges[i].end
        BY DEF Within
      <3>3. CASE lookahead > Ranges[mid + 1].end
        <4>1. mid + 1 < i
          <5>1. ~ (i < mid + 1) /\ i # mid + 1
            <6>1. i < mid + 1 => Ranges[i].end < Ranges[mid + 1].end
              <7>1. /\ Ranges[mid + 1].start \in Int /\ Ranges[mid + 1].end \in Int
                    /\ Ranges[mid + 1].start =< Ranges[mid + 1].end
                    /\ Ranges[i].end \in Int
                BY <1>3, <1>4
              <7>2. i < mid + 1 => Ranges[i].end < Ranges[mid + 1].start
                BY <1>3, <1>4
              <7>. QED
                BY <7>1, <7>2
            <6>2. Ranges[i].end \in Int /\ Ranges[mid + 1].end \in Int
              BY <1>3, <1>4
            <6>. QED
              BY <1>2, <3>2, <3>3, <6>1, <6>2
          <5>. QED
            BY <1>4, <5>1
        <4>. QED
          BY <1>2, <1>4, <2>1, <3>1, <3>3, <4>1 DEF mid
      <3>4. CASE ~ (lookahead > Ranges[mid + 1].end)
        <4>1. lookahead < Ranges[mid + 1].start
          BY <1>2, <1>3, <1>4, <1>9, <3>4 DEF Within
        <4>2. i < mid + 1
          <5>1. ~ (mid + 1 < i) /\ i # mid + 1
            BY <1>2, <1>3, <1>4, <3>2, <4>1
          <5>. QED
            BY <1>4, <5>1
        <4>. QED
          BY <1>2, <1>4, <2>1, <3>1, <3>4, <4>2 DEF mid
      <3>. QED
        BY <3>3, <3>4
    <2>3. index' \in Nat /\ size' \in Nat /\ size' >= 1 /\ index' + size' =< len
      BY <1>2, <1>3, <1>4, <2>1 DEF mid
    <2>4. Window'
      BY <1>1, <1>2, <1>3, <1>6, <1>7, <2>1, <2>2, <2>3 DEF Window, len
    <2>5. MembershipIsExact'
      BY <2>1 DEF MembershipIsExact
    <2>. QED
      BY <2>4, <2>5 DEF SetInv
  <1>. QED
    BY <1>8, <1>9

(* After the loop the window is one range, and no other holds the          *)
(* character.                                                              *)
LEMMA DecideIsExact ==
    ASSUME SetInv, Decide
    PROVE  SetInv'
  <1>1. table \in DOMAIN Tables /\ table # "none" /\ answer = "open" /\ size =< 1
    BY DEF SetInv, Window, Decide
  <1>2. /\ index \in Nat /\ size = 1 /\ lookahead \in Int
        /\ index + 1 \in DOMAIN Ranges
        /\ \A i \in DOMAIN Ranges : Within(Ranges[i]) => i = index + 1
    <2>1. /\ index \in Nat /\ size \in Nat /\ lookahead \in Int
          /\ size >= 1 /\ index + size =< Len(Ranges)
          /\ \A i \in DOMAIN Ranges : Within(Ranges[i]) => index < i /\ i =< index + size
      BY <1>1 DEF SetInv, Window
    <2>2. DOMAIN Ranges = 1 .. Len(Ranges) /\ Len(Ranges) \in Nat
      BY <1>1, TableFacts DEF Ranges
    <2>3. size = 1
      BY <1>1, <2>1
    <2>. QED
      BY <2>1, <2>2, <2>3
  <1>3. /\ answer' = IF Within(Ranges[index + 1]) THEN "in" ELSE "out"
        /\ table' = table /\ lookahead' = lookahead
        /\ index' = index /\ size' = size
    BY DEF Decide, Ranges
  <1>4. MembershipIsExact'
    BY <1>1, <1>2, <1>3 DEF MembershipIsExact, Ranges, Within
  <1>. QED
    BY <1>1, <1>2, <1>3, <1>4 DEF SetInv, Window

LEMMA ContainsOpensWindow ==
    ASSUME NEW n \in DOMAIN Tables, NEW c \in Int, Contains(n, c)
    PROVE  SetInv'
  <1>1. /\ table' = n /\ lookahead' = c /\ index' = 0
        /\ size' = Len(Tables[n]) /\ answer' = "open"
    BY DEF Contains
  <1>2. /\ Len(Tables[n]) \in Nat /\ Len(Tables[n]) >= 1
        /\ DOMAIN Tables[n] = 1 .. Len(Tables[n])
    BY TableFacts
  <1>3. MembershipIsExact'
    BY <1>1 DEF MembershipIsExact
  <1>. QED
    BY <1>1, <1>2, <1>3 DEF SetInv, Window, Ranges

LEMMA SetStepKeepsWindow ==
    ASSUME SetInv, [SetNext]_setVars
    PROVE  SetInv'
  <1>1. CASE \E n \in DOMAIN Tables, c \in Int : Contains(n, c)
    BY <1>1, ContainsOpensWindow
  <1>2. CASE Halve
    BY <1>2, HalveKeepsWindow
  <1>3. CASE Decide
    BY <1>3, DecideIsExact
  <1>4. CASE Return
    BY <1>4 DEF Return, SetInv, Window, MembershipIsExact
  <1>5. CASE UNCHANGED setVars
    BY <1>5 DEF setVars, SetInv, Window, MembershipIsExact, Ranges, Within
  <1>. QED
    BY <1>1, <1>2, <1>3, <1>4, <1>5 DEF SetNext

LEMMA SetInitOpensWindow == SetInit => SetInv
  BY DEF SetInit, SetInv, Window, MembershipIsExact

(* set_contains answers exactly, for all tables of parser.c's form and all *)
(* characters.                                                             *)
THEOREM SearchIsExact == SetSpec => []MembershipIsExact
  <1>1. SetInv => MembershipIsExact
    BY DEF SetInv
  <1>. QED
    BY <1>1, SetInitOpensWindow, SetStepKeepsWindow, PTL DEF SetSpec

-----------------------------------------------------------------------------
(* What a document is made of.                                             *)

Character == [char : Characters, literal : BOOLEAN]

LEMMA OfIsDialect ==
    ASSUME dialect \in DOMAIN Dialects
    PROVE  IsDialect(Of)
  BY DialectsAssumption DEF Of

LEMMA PartsAreCharacters ==
    ASSUME dialect \in DOMAIN Dialects
    PROVE  /\ Of.texts \subseteq Characters
           /\ Of.pipelines \subseteq Seq(Characters) /\ Of.conditions \subseteq Seq(Characters)
           /\ Of.variables \subseteq Seq(Characters) /\ Of.names \subseteq Seq(Characters)
           /\ Of.comments \subseteq Seq(Characters)
           /\ Of.lefts \subseteq Seq(Characters) /\ Of.rights \subseteq Seq(Characters)
           /\ Of.touching \subseteq Seq(Characters) \X Seq(Characters)
           /\ Of.misreadings \in Nat
  BY OfIsDialect DEF IsDialect

LEMMA ConcatIsSeq ==
    ASSUME NEW S, NEW a \in Seq(S), NEW b \in Seq(S)
    PROVE  a \o b \in Seq(S)
  OBVIOUS

LEMMA EmptyIsSeq == \A S : << >> \in Seq(S)
  OBVIOUS

LEMMA SingletonIsSeq == \A S : \A c \in S : <<c>> \in Seq(S)
  OBVIOUS

LEMMA SpaceIsSeq == <<" ">> \in Seq(Characters)
  <1>1. " " \in Characters
    BY WordsFit
  <1>. QED
    BY <1>1, SingletonIsSeq

LEMMA MarkedIsTyped ==
    ASSUME NEW chars \in Seq(Characters), NEW literal \in BOOLEAN
    PROVE  Marked(chars, literal) \in Seq(Character)
  <1>1. Len(chars) \in Nat /\ DOMAIN chars = 1 .. Len(chars)
          /\ \A i \in 1 .. Len(chars) : chars[i] \in Characters
    OBVIOUS
  <1>2. Marked(chars, literal) \in [1 .. Len(chars) -> Character]
    BY <1>1 DEF Marked, Character
  <1>. QED
    BY <1>1, <1>2

LEMMA WriteIsTyped ==
    ASSUME NEW chars \in Seq(Characters), NEW isDue, NEW isControl \in BOOLEAN,
           Write(chars, isDue, isControl)
    PROVE  unread' \in Seq(Character) /\ control' \in BOOLEAN
  BY MarkedIsTyped DEF Write

LEMMA WriteActionIsTyped ==
    ASSUME dialect \in DOMAIN Dialects,
           NEW chars \in Seq(Characters), NEW isDue, NEW isControl \in BOOLEAN,
           WriteAction(chars, isDue, isControl)
    PROVE  unread' \in Seq(Character) /\ control' \in BOOLEAN
  <1>1. PICK left \in Of.lefts, right \in Of.rights :
            Write(left \o chars \o right, isDue, isControl)
    BY DEF WriteAction
  <1>2. left \in Seq(Characters) /\ right \in Seq(Characters)
    BY PartsAreCharacters
  <1>3. left \o chars \o right \in Seq(Characters)
    <2>1. left \o chars \in Seq(Characters)
      BY <1>2, ConcatIsSeq
    <2>. QED
      BY <1>2, <2>1, ConcatIsSeq
  <1>. QED
    BY <1>1, <1>3, WriteIsTyped

(* Whatever the writer adds, it adds marked characters.                    *)
LEMMA WriteMoreIsTyped ==
    ASSUME dialect \in DOMAIN Dialects, control \in BOOLEAN, unread \in Seq(Character), WriteMore
    PROVE  dialect' = dialect /\ unread' \in Seq(Character) /\ control' \in BOOLEAN
  <1>. DEFINE Typed == unread' \in Seq(Character) /\ control' \in BOOLEAN
  <1>1. dialect' = dialect
    BY DEF WriteMore
  <1>2. ASSUME NEW c \in Of.texts, WriteText(c) PROVE Typed
    <2>1. <<c>> \in Seq(Characters)
      BY PartsAreCharacters
    <2>. QED
      BY <1>2, <2>1, MarkedIsTyped DEF WriteText
  <1>3. ASSUME WritePipeline PROVE Typed
    <2>1. PICK p \in (IF open = << >> THEN Of.pipelines ELSE Of.conditions) :
              WriteAction(p, FALSE, FALSE)
      BY <1>3 DEF WritePipeline
    <2>2. p \in Seq(Characters)
      BY PartsAreCharacters
    <2>. QED
      BY <2>1, <2>2, WriteActionIsTyped
  <1>4. ASSUME WriteTemplate PROVE Typed
    <2>1. PICK n \in Of.names, p \in {<< >>} \cup { <<" ">> \o c : c \in Of.conditions } :
              WriteAction(Chars("template ") \o n \o p, FALSE, TRUE)
      BY <1>4 DEF WriteTemplate
    <2>2. n \in Seq(Characters) /\ Chars("template ") \in Seq(Characters)
      BY PartsAreCharacters, WordsFit
    <2>3. p \in Seq(Characters)
      <3>1. << >> \in Seq(Characters)
        BY EmptyIsSeq
      <3>2. ASSUME NEW c \in Of.conditions PROVE <<" ">> \o c \in Seq(Characters)
        BY PartsAreCharacters, SpaceIsSeq, ConcatIsSeq
      <3>. QED
        BY <3>1, <3>2
    <2>4. Chars("template ") \o n \o p \in Seq(Characters)
      BY <2>2, <2>3, ConcatIsSeq
    <2>. QED
      BY <2>1, <2>4, WriteActionIsTyped
  <1>5. ASSUME WriteComment PROVE Typed
    <2>1. PICK c \in Of.comments, d \in Of.touching : Write(d[1] \o c \o d[2], FALSE, FALSE)
      BY <1>5 DEF WriteComment
    <2>2. c \in Seq(Characters) /\ d[1] \in Seq(Characters) /\ d[2] \in Seq(Characters)
      BY PartsAreCharacters
    <2>3. d[1] \o c \o d[2] \in Seq(Characters)
      BY <2>2, ConcatIsSeq
    <2>. QED
      BY <2>1, <2>3, WriteIsTyped
  <1>6. ASSUME WriteJump PROVE Typed
    <2>1. PICK word \in {"break", "continue"} : WriteAction(Chars(word), FALSE, TRUE)
      BY <1>6 DEF WriteJump
    <2>2. Chars(word) \in Seq(Characters)
      BY WordsFit
    <2>. QED
      BY <2>1, <2>2, WriteActionIsTyped
  <1>7. ASSUME WriteBlock PROVE Typed
    <2>1. ASSUME NEW kind \in {"if", "with"}, NEW c \in Of.conditions,
                 WriteAction(Chars(kind) \o <<" ">> \o c, FALSE, TRUE)
          PROVE  Typed
      <3>1. Chars(kind) \o <<" ">> \o c \in Seq(Characters)
        <4>1. Chars(kind) \in Seq(Characters) /\ c \in Seq(Characters)
          BY PartsAreCharacters, WordsFit
        <4>. QED
          BY <4>1, SpaceIsSeq, ConcatIsSeq
      <3>. QED
        BY <2>1, <3>1, WriteActionIsTyped
    <2>2. ASSUME NEW v \in Of.variables, NEW c \in Of.conditions,
                 WriteAction(Chars("range ") \o v \o c, FALSE, TRUE)
          PROVE  Typed
      <3>1. Chars("range ") \o v \o c \in Seq(Characters)
        <4>1. Chars("range ") \in Seq(Characters) /\ v \in Seq(Characters)
                /\ c \in Seq(Characters)
          BY PartsAreCharacters, WordsFit
        <4>. QED
          BY <4>1, ConcatIsSeq
      <3>. QED
        BY <2>2, <3>1, WriteActionIsTyped
    <2>3. ASSUME NEW n \in Of.names, NEW c \in Of.conditions,
                 WriteAction(Chars("block ") \o n \o <<" ">> \o c, FALSE, TRUE)
          PROVE  Typed
      <3>1. Chars("block ") \o n \o <<" ">> \o c \in Seq(Characters)
        <4>1. Chars("block ") \in Seq(Characters) /\ n \in Seq(Characters)
                /\ c \in Seq(Characters)
          BY PartsAreCharacters, WordsFit
        <4>. QED
          BY <4>1, SpaceIsSeq, ConcatIsSeq
      <3>. QED
        BY <2>3, <3>1, WriteActionIsTyped
    <2>4. ASSUME NEW n \in Of.names, WriteAction(Chars("define ") \o n, FALSE, TRUE)
          PROVE  Typed
      <3>1. Chars("define ") \o n \in Seq(Characters)
        BY PartsAreCharacters, WordsFit, ConcatIsSeq
      <3>. QED
        BY <2>4, <3>1, WriteActionIsTyped
    <2>. QED
      BY <1>7, <2>1, <2>2, <2>3, <2>4 DEF WriteBlock
  <1>8. ASSUME WriteElse PROVE Typed
    <2>1. Chars("else") \in Seq(Characters)
      BY WordsFit
    <2>. QED
      BY <1>8, <2>1, WriteActionIsTyped DEF WriteElse
  <1>9. ASSUME WriteElseIf PROVE Typed
    <2>1. Inside \in {"if", "with"}
      BY <1>9 DEF WriteElseIf
    <2>2. PICK c \in Of.conditions :
              WriteAction(Chars("else ") \o Chars(Inside) \o <<" ">> \o c, TRUE, TRUE)
      BY <1>9 DEF WriteElseIf
    <2>3. Chars("else ") \in Seq(Characters) /\ Chars(Inside) \in Seq(Characters)
            /\ c \in Seq(Characters)
      BY <2>1, PartsAreCharacters, WordsFit
    <2>4. Chars("else ") \o Chars(Inside) \o <<" ">> \o c \in Seq(Characters)
      BY <2>3, SpaceIsSeq, ConcatIsSeq
    <2>. QED
      BY <2>2, <2>4, WriteActionIsTyped
  <1>10. ASSUME WriteEnd PROVE Typed
    <2>1. Chars("end") \in Seq(Characters)
      BY WordsFit
    <2>. QED
      BY <1>10, <2>1, WriteActionIsTyped DEF WriteEnd
  <1>11. ASSUME Finish PROVE Typed
    BY <1>11 DEF Finish
  <1>. QED
    BY <1>1, <1>2, <1>3, <1>4, <1>5, <1>6, <1>7, <1>8, <1>9, <1>10, <1>11 DEF WriteMore

-----------------------------------------------------------------------------
(* Stacks.                                                                 *)

(* The first state is at the bottom and only there, and the state of a     *)
(* whole document is right on top of it.                                   *)
Grounded(states) ==
    /\ states[1] = 1
    /\ \A i \in 2 .. Len(states) : states[i] # 1 /\ (states[i] = 360 => states[i - 1] = 1)

LEMMA ItemsAreLists ==
    ASSUME NEW symbol \in DOMAIN Items
    PROVE  /\ Len(Items[symbol]) \in Nat
           /\ DOMAIN Items[symbol] = 1 .. Len(Items[symbol])
           /\ \A n \in 1 .. Len(Items[symbol]) : Items[symbol][n] \subseteq ParseStates \ {1}
  <1>1. \A S : \A list \in Seq(SUBSET S) :
          /\ Len(list) \in Nat
          /\ DOMAIN list = 1 .. Len(list)
          /\ \A n \in 1 .. Len(list) : list[n] \subseteq S
    OBVIOUS
  <1>. QED
    BY <1>1, ItemsFit

(* A state that fits on the top may come there: its items' states below    *)
(* are those of the top's items, one shorter.                              *)
LEMMA PushKeepsStack ==
    ASSUME NEW q \in Seq(ParseStates), q # << >>, IsRooted(q), Grounded(q),
           NEW t \in After(q[Len(q)])
    PROVE  /\ Append(q, t) \in Seq(ParseStates) /\ Append(q, t) # << >>
           /\ IsRooted(Append(q, t)) /\ Grounded(Append(q, t))
  <1>. DEFINE len == Len(q)
              r == Append(q, t)
  <1>1. /\ len \in Nat /\ len >= 1 /\ DOMAIN q = 1 .. len
        /\ \A i \in 1 .. len : q[i] \in ParseStates
    OBVIOUS
  <1>2. /\ t \in ParseStates /\ t # 1
        /\ t = 360 => q[len] = 1
        /\ Fits(q[len], t)
    BY <1>1, TablesFit
  <1>3. /\ r \in Seq(ParseStates) /\ r # << >> /\ Len(r) = len + 1
        /\ DOMAIN r = 1 .. len + 1
        /\ \A i \in 1 .. len : r[i] = q[i]
        /\ r[len + 1] = t
    BY <1>1, <1>2
  <1>. HIDE DEF len, r
  <1>4. Grounded(r)
    BY <1>1, <1>2, <1>3 DEF Grounded, len
  <1>5. IsRooted(r)
    <2>. SUFFICES ASSUME NEW i \in DOMAIN r, NEW symbol \in DOMAIN Items,
                         NEW n \in DOMAIN Items[symbol], r[i] \in Items[symbol][n]
                  PROVE  /\ n < i
                         /\ symbol \in DOMAIN Gotos[r[i - n]]
                         /\ \A m \in 1 .. n : r[i - n + m] \in Items[symbol][m]
      BY DEF IsRooted
    <2>1. /\ n \in Nat /\ n >= 1
          /\ DOMAIN Items[symbol] = 1 .. Len(Items[symbol]) /\ Len(Items[symbol]) \in Nat
      BY ItemsAreLists
    <2>2. CASE i \in 1 .. len
      <3>1. /\ n < i
            /\ symbol \in DOMAIN Gotos[q[i - n]]
            /\ \A m \in 1 .. n : q[i - n + m] \in Items[symbol][m]
        BY <1>1, <1>3, <2>2 DEF IsRooted
      <3>2. i - n \in 1 .. len /\ \A m \in 1 .. n : i - n + m \in 1 .. len
        BY <1>1, <2>1, <2>2, <3>1
      <3>. QED
        BY <1>3, <3>1, <3>2
    <2>3. CASE i = len + 1 /\ n = 1
      <3>1. symbol \in DOMAIN Gotos[q[len]]
        BY <1>2, <1>3, <2>3 DEF Fits
      <3>2. i - n = len /\ n < i /\ \A m \in 1 .. n : m = 1 /\ i - n + m = len + 1
        BY <1>1, <2>3
      <3>. QED
        BY <1>1, <1>3, <2>3, <3>1, <3>2
    <2>4. CASE i = len + 1 /\ n > 1
      <3>1. q[len] \in Items[symbol][n - 1] /\ n - 1 \in DOMAIN Items[symbol]
        BY <1>2, <1>3, <2>1, <2>4 DEF Fits
      <3>2. /\ n - 1 < len
            /\ symbol \in DOMAIN Gotos[q[len - (n - 1)]]
            /\ \A m \in 1 .. n - 1 : q[len - (n - 1) + m] \in Items[symbol][m]
        BY <1>1, <3>1 DEF IsRooted
      <3>3. /\ n < i /\ i - n = len - (n - 1) /\ i - n \in 1 .. len
            /\ \A m \in 1 .. n - 1 : i - n + m = len - (n - 1) + m /\ i - n + m \in 1 .. len
            /\ i - n + n = len + 1
        BY <1>1, <2>1, <2>4, <3>2
      <3>4. symbol \in DOMAIN Gotos[r[i - n]]
        BY <1>3, <3>2, <3>3
      <3>5. ASSUME NEW m \in 1 .. n PROVE r[i - n + m] \in Items[symbol][m]
        <4>1. CASE m = n
          BY <1>3, <2>4, <3>3, <4>1
        <4>2. CASE m \in 1 .. n - 1
          BY <1>3, <3>2, <3>3, <4>2
        <4>. QED
          BY <2>1, <4>1, <4>2
      <3>. QED
        BY <3>3, <3>4, <3>5
    <2>. QED
      BY <1>1, <1>3, <2>1, <2>2, <2>3, <2>4
  <1>. QED
    BY <1>3, <1>4, <1>5 DEF r

LEMMA PopKeepsStack ==
    ASSUME NEW q \in Seq(ParseStates), IsRooted(q), Grounded(q), NEW k \in 1 .. Len(q)
    PROVE  /\ SubSeq(q, 1, k) \in Seq(ParseStates) /\ SubSeq(q, 1, k) # << >>
           /\ Len(SubSeq(q, 1, k)) = k /\ SubSeq(q, 1, k)[k] = q[k]
           /\ IsRooted(SubSeq(q, 1, k)) /\ Grounded(SubSeq(q, 1, k))
  <1>. DEFINE len == Len(q)
              r == SubSeq(q, 1, k)
  <1>1. len \in Nat /\ DOMAIN q = 1 .. len /\ k \in 1 .. len
    OBVIOUS
  <1>2. /\ r \in Seq(ParseStates) /\ r # << >> /\ Len(r) = k
        /\ DOMAIN r = 1 .. k
        /\ \A i \in 1 .. k : r[i] = q[i]
    BY <1>1
  <1>. HIDE DEF len, r
  <1>3. Grounded(r)
    BY <1>1, <1>2 DEF Grounded, len
  <1>4. IsRooted(r)
    <2>. SUFFICES ASSUME NEW i \in DOMAIN r, NEW symbol \in DOMAIN Items,
                         NEW n \in DOMAIN Items[symbol], r[i] \in Items[symbol][n]
                  PROVE  /\ n < i
                         /\ symbol \in DOMAIN Gotos[r[i - n]]
                         /\ \A m \in 1 .. n : r[i - n + m] \in Items[symbol][m]
      BY DEF IsRooted
    <2>1. n \in Nat /\ n >= 1
      BY ItemsAreLists
    <2>2. /\ n < i
          /\ symbol \in DOMAIN Gotos[q[i - n]]
          /\ \A m \in 1 .. n : q[i - n + m] \in Items[symbol][m]
      BY <1>1, <1>2 DEF IsRooted
    <2>3. i - n \in 1 .. k /\ \A m \in 1 .. n : i - n + m \in 1 .. k
      BY <1>1, <1>2, <2>1, <2>2
    <2>. QED
      BY <1>2, <2>2, <2>3
  <1>. QED
    BY <1>1, <1>2, <1>3, <1>4 DEF r

(* A state that reduces has its production's children behind it, and below *)
(* them a state with a goto.                                               *)
LEMMA ReductionFindsChildren ==
    ASSUME NEW q \in Seq(ParseStates), q # << >>, IsRooted(q), Reduces[q[Len(q)]] # {}
    PROVE  LET p == Productions[q[Len(q)]]
               k == Len(q) - p.children
           IN  /\ p.precedence \in Int /\ p.children \in Nat
               /\ k \in 1 .. Len(q)
               /\ p.symbol \in DOMAIN Gotos[q[k]]
               /\ p.children > 0 => p.symbol \in DOMAIN Items
                                       /\ p.children \in DOMAIN Items[p.symbol]
               /\ \A m \in 1 .. p.children : q[k + m] \in Items[p.symbol][m]
  <1>. DEFINE len == Len(q)
              p == Productions[q[len]]
  <1>1. len \in Nat /\ len >= 1 /\ DOMAIN q = 1 .. len /\ q[len] \in ParseStates
    OBVIOUS
  <1>2. /\ p.precedence \in Int
        /\ \/ p.children = 0 /\ p.symbol \in DOMAIN Gotos[q[len]]
           \/ /\ p.symbol \in DOMAIN Items
              /\ p.children \in DOMAIN Items[p.symbol]
              /\ q[len] \in Items[p.symbol][p.children]
    BY <1>1, ReductionsFit
  <1>. HIDE DEF len, p
  <1>3. CASE p.children = 0 /\ p.symbol \in DOMAIN Gotos[q[len]]
    BY <1>1, <1>2, <1>3 DEF len, p
  <1>4. CASE /\ p.symbol \in DOMAIN Items
             /\ p.children \in DOMAIN Items[p.symbol]
             /\ q[len] \in Items[p.symbol][p.children]
    <2>1. p.children \in Nat /\ p.children >= 1
      BY <1>4, ItemsAreLists
    <2>2. /\ p.children < len
          /\ p.symbol \in DOMAIN Gotos[q[len - p.children]]
          /\ \A m \in 1 .. p.children : q[len - p.children + m] \in Items[p.symbol][m]
      BY <1>1, <1>4 DEF IsRooted
    <2>. QED
      BY <1>1, <1>2, <1>4, <2>1, <2>2 DEF len, p
  <1>. QED
    BY <1>2, <1>3, <1>4

-----------------------------------------------------------------------------
(* The parser: the inductive invariant.                                    *)

(* set_contains is called in the middle of a token, on a character that is *)
(* still there when it answers.                                            *)
Calling ==
    /\ answer # "open" => table # "none"
    /\ table # "none" =>
          phase = "running" /\ peek = "none" /\ unread # << >> /\ Classes[lexState] # << >>

StackInv ==
    /\ Rooted
    /\ Grounded(stack)
    /\ phase = "accepted" => Top = 360

LexTyped ==
    /\ unread \in Seq(Character) /\ ahead \in Seq(Character)
    /\ covered \subseteq BOOLEAN
    /\ lexState \in LexStates
    /\ token \in Tokens \cup {"none", "error"} /\ peek \in Tokens \cup {"none", "error"}

TreeTyped ==
    /\ dialect \in DOMAIN Dialects
    /\ stack \in Seq(ParseStates) /\ stack # << >>
    /\ phase \in {"running", "accepted", "failed"}
    /\ unstable \in BOOLEAN /\ control \in BOOLEAN
    /\ misread \in 0 .. Of.misreadings /\ score \in Int

ModelInv == LexTyped /\ TreeTyped /\ Calling /\ StackInv

LEMMA HeadIsCharacter ==
    ASSUME unread \in Seq(Character), unread # << >>
    PROVE  /\ Head(unread) \in Character /\ Tail(unread) \in Seq(Character)
           /\ Here \in Characters /\ CodePoint[Here] \in Int
  <1>1. Head(unread) \in Character /\ Tail(unread) \in Seq(Character)
    OBVIOUS
  <1>2. Here \in Characters
    BY <1>1 DEF Here, Character
  <1>. QED
    BY <1>1, <1>2, LexerFits

LEMMA AcceptedTokens ==
    ASSUME NEW s \in LexStates
    PROVE  Accepts[s] \in Tokens \cup {"none"}
  BY DEF Tokens

LEMMA AdvanceIsTyped ==
    ASSUME LexTyped, unread # << >>, NEW s \in LexStates, Advance(s)
    PROVE  /\ unread' \in Seq(Character) /\ ahead' \in Seq(Character)
           /\ covered' \subseteq BOOLEAN /\ lexState' \in LexStates
           /\ token' \in Tokens \cup {"none", "error"}
  <1>. DEFINE read == Append(ahead, Head(unread))
  <1>1. /\ Head(unread) \in Character /\ Tail(unread) \in Seq(Character)
        /\ ahead \in Seq(Character)
    BY HeadIsCharacter DEF LexTyped
  <1>2. read \in Seq(Character)
    BY <1>1
  <1>3. { read[i].literal : i \in DOMAIN read } \subseteq BOOLEAN
    <2>1. \A i \in DOMAIN read : read[i] \in Character
      BY <1>2
    <2>. QED
      BY <2>1 DEF Character
  <1>4. unread' = Tail(unread) /\ lexState' = s
    BY DEF Advance
  <1>5. CASE Accepts[s] # "none"
    <2>1. /\ token' = Accepts[s] /\ ahead' = << >>
          /\ covered' = covered \cup { read[i].literal : i \in DOMAIN read }
      BY <1>5 DEF Advance
    <2>. QED
      BY <1>1, <1>3, <1>4, <2>1, AcceptedTokens, EmptyIsSeq DEF LexTyped
  <1>6. CASE ~ (Accepts[s] # "none")
    <2>1. token' = token /\ covered' = covered /\ ahead' = read
      BY <1>6 DEF Advance
    <2>. QED
      BY <1>1, <1>2, <1>4, <2>1 DEF LexTyped
  <1>. QED
    BY <1>5, <1>6

LEMMA EndTokenIsTyped ==
    ASSUME LexTyped, EndToken
    PROVE  LexTyped'
  <1>1. unread' = ahead \o unread /\ ahead' = << >>
    BY DEF EndToken
  <1>2. unread' \in Seq(Character) /\ ahead' \in Seq(Character)
    BY <1>1, EmptyIsSeq, ConcatIsSeq DEF LexTyped
  <1>3. covered' = covered
    BY DEF EndToken
  <1>4. CASE token = "none"
    <2>1. lexState' = 0 /\ token' = "error" /\ peek' = peek
      BY <1>4 DEF EndToken
    <2>. QED
      BY <1>2, <1>3, <2>1 DEF LexTyped, LexStates
  <1>5. CASE token # "none"
    <2>1. peek' = token /\ token' = token /\ lexState' = lexState
      BY <1>5 DEF EndToken
    <2>. QED
      BY <1>2, <1>3, <2>1 DEF LexTyped
  <1>. QED
    BY <1>4, <1>5

(* Nothing but the parser's own actions touches the stack and the tree.    *)
LEMMA TreeStays ==
    ASSUME TreeTyped, UNCHANGED <<dialect, control, treeVars>>
    PROVE  TreeTyped'
  BY DEF TreeTyped, treeVars, Of

LEMMA StackStays ==
    ASSUME StackInv, UNCHANGED <<stack, phase>>
    PROVE  StackInv'
  BY DEF StackInv, Rooted, IsRooted, Grounded, Top

LEMMA NoCall ==
    ASSUME Calling, phase # "running" \/ peek # "none" \/ unread = << >>
    PROVE  table = "none" /\ answer = "open"
  BY DEF Calling

LEMMA CallStays ==
    ASSUME table = "none", answer = "open", UNCHANGED setVars
    PROVE  Calling'
  BY DEF Calling, setVars

-----------------------------------------------------------------------------
(* Each step keeps types, calls and stack.                                 *)

LEMMA MoveOnKeepsModel ==
    ASSUME ModelInv, MoveOn
    PROVE  ModelInv'
  <1>1. /\ LexTyped /\ TreeTyped /\ Calling /\ StackInv
        /\ table = "none" /\ answer = "open" /\ unread # << >>
    BY DEF ModelInv, MoveOn, Lexing, Calling
  <1>2. PICK s \in LexStates : Advance(s)
    <2>1. lexState \in LexStates
      BY <1>1 DEF LexTyped
    <2>2. ASSUME Here \in DOMAIN Row, Advance(Row[Here]) PROVE \E s \in LexStates : Advance(s)
      <3>1. Row[Here] \in LexStates
        BY <2>1, <2>2, LexerFits DEF Row
      <3>. QED
        BY <2>2, <3>1
    <2>3. ASSUME OnOther, Advance(Others[lexState][2]) PROVE \E s \in LexStates : Advance(s)
      <3>1. Others[lexState][2] \in LexStates
        BY <2>1, <2>3, LexerFits DEF OnOther
      <3>. QED
        BY <2>3, <3>1
    <2>. QED
      BY <2>2, <2>3 DEF MoveOn
  <1>3. UNCHANGED <<setVars, dialect, control, peek, treeVars>>
    BY DEF MoveOn, Unlexed
  <1>4. LexTyped'
    BY <1>1, <1>2, <1>3, AdvanceIsTyped DEF LexTyped
  <1>5. TreeTyped' /\ StackInv'
    BY <1>1, <1>3, TreeStays, StackStays DEF treeVars
  <1>. QED
    BY <1>1, <1>3, <1>4, <1>5, CallStays DEF ModelInv

LEMMA SkipSpaceKeepsModel ==
    ASSUME ModelInv, SkipSpace
    PROVE  ModelInv'
  <1>1. /\ LexTyped /\ TreeTyped /\ Calling /\ StackInv
        /\ table = "none" /\ answer = "open" /\ unread # << >>
    BY DEF ModelInv, SkipSpace, Lexing, Calling
  <1>2. /\ unread' = Tail(unread) /\ lexState' = Skips[lexState] /\ OnSpace
        /\ UNCHANGED <<setVars, dialect, control, token, ahead, covered, peek, treeVars>>
    BY DEF SkipSpace, Unlexed
  <1>3. lexState' \in LexStates
    BY <1>1, <1>2, LexerFits DEF LexTyped, OnSpace
  <1>4. LexTyped'
    BY <1>1, <1>2, <1>3, HeadIsCharacter DEF LexTyped
  <1>5. TreeTyped' /\ StackInv'
    BY <1>1, <1>2, TreeStays, StackStays DEF treeVars
  <1>. QED
    BY <1>1, <1>2, <1>4, <1>5, CallStays DEF ModelInv

LEMMA AskClassKeepsModel ==
    ASSUME ModelInv, AskClass
    PROVE  /\ ModelInv'
           /\ \E n \in DOMAIN Tables, c \in Int : Contains(n, c)
  <1>1. /\ LexTyped /\ TreeTyped /\ Calling /\ StackInv
        /\ table = "none" /\ unread # << >> /\ phase = "running" /\ peek = "none"
    BY DEF ModelInv, AskClass, Lexing
  <1>2. /\ UNCHANGED <<textVars, lexVars, peek, treeVars>>
        /\ Contains(Classes[lexState][1], CodePoint[Here])
        /\ Classes[lexState] # << >>
    BY DEF AskClass, OnClass
  <1>3. Classes[lexState][1] \in DOMAIN Tables
    BY <1>1, <1>2, LexerFits, ClassesAssumption DEF LexTyped
  <1>4. CodePoint[Here] \in Int
    BY <1>1, HeadIsCharacter DEF LexTyped
  <1>5. answer' = "open"
    BY <1>2 DEF Contains
  <1>6. LexTyped'
    BY <1>1, <1>2 DEF LexTyped, textVars, lexVars
  <1>7. TreeTyped' /\ StackInv'
    BY <1>1, <1>2, TreeStays, StackStays DEF textVars, treeVars
  <1>8. Calling'
    BY <1>1, <1>2, <1>5 DEF Calling, textVars, lexVars, treeVars
  <1>. QED
    BY <1>2, <1>3, <1>4, <1>6, <1>7, <1>8 DEF ModelInv

LEMMA SearchKeepsModel ==
    ASSUME ModelInv, Search
    PROVE  ModelInv'
  <1>1. LexTyped /\ TreeTyped /\ Calling /\ StackInv
    BY DEF ModelInv
  <1>2. UNCHANGED <<textVars, lexVars, peek, treeVars>>
    BY DEF Search
  <1>3. table # "none" /\ table' = table
    BY DEF Search, Halve, Decide
  <1>4. LexTyped'
    BY <1>1, <1>2 DEF LexTyped, textVars, lexVars
  <1>5. TreeTyped' /\ StackInv'
    BY <1>1, <1>2, TreeStays, StackStays DEF textVars, treeVars
  <1>6. Calling'
    BY <1>1, <1>2, <1>3 DEF Calling, textVars, lexVars, treeVars
  <1>. QED
    BY <1>4, <1>5, <1>6 DEF ModelInv

LEMMA TakeAnswerKeepsModel ==
    ASSUME ModelInv, TakeAnswer
    PROVE  ModelInv'
  <1>1. LexTyped /\ TreeTyped /\ Calling /\ StackInv
    BY DEF ModelInv
  <1>2. /\ table # "none" /\ unread # << >> /\ Classes[lexState] # << >>
        /\ table' = "none" /\ answer' = "open"
    BY <1>1 DEF TakeAnswer, Return, Calling
  <1>3. UNCHANGED <<dialect, control, treeVars>>
    BY DEF TakeAnswer, Unlexed
  <1>4. LexTyped'
    <2>1. CASE answer = "in"
      <3>1. Classes[lexState][2] \in LexStates
        BY <1>1, <1>2, LexerFits DEF LexTyped
      <3>2. Advance(Classes[lexState][2]) /\ peek' = peek
        BY <2>1 DEF TakeAnswer
      <3>. QED
        BY <1>1, <1>2, <3>1, <3>2, AdvanceIsTyped DEF LexTyped
    <2>2. CASE answer # "in"
      BY <1>1, <2>2, EndTokenIsTyped DEF TakeAnswer
    <2>. QED
      BY <2>1, <2>2
  <1>5. TreeTyped' /\ StackInv'
    BY <1>1, <1>3, TreeStays, StackStays DEF treeVars
  <1>6. Calling'
    BY <1>2 DEF Calling
  <1>. QED
    BY <1>4, <1>5, <1>6 DEF ModelInv

LEMMA StopKeepsModel ==
    ASSUME ModelInv, Stop
    PROVE  ModelInv'
  <1>1. /\ LexTyped /\ TreeTyped /\ Calling /\ StackInv
        /\ table = "none" /\ answer = "open"
    BY DEF ModelInv, Stop, Lexing, Calling
  <1>2. EndToken /\ UNCHANGED <<setVars, dialect, control, treeVars>>
    BY DEF Stop, Unlexed
  <1>3. LexTyped'
    BY <1>1, <1>2, EndTokenIsTyped
  <1>4. TreeTyped' /\ StackInv'
    BY <1>1, <1>2, TreeStays, StackStays DEF treeVars
  <1>. QED
    BY <1>1, <1>2, <1>3, <1>4, CallStays DEF ModelInv

LEMMA EndOfInputKeepsModel ==
    ASSUME ModelInv, EndOfInput
    PROVE  ModelInv'
  <1>1. /\ LexTyped /\ TreeTyped /\ Calling /\ StackInv
        /\ table = "none" /\ answer = "open"
    BY DEF ModelInv, EndOfInput, Lexing, Calling
  <1>2. peek' = Accepts[92] /\ UNCHANGED <<setVars, textVars, lexVars, treeVars>>
    BY DEF EndOfInput
  <1>3. peek' \in Tokens \cup {"none", "error"}
    <2>1. 92 \in LexStates
      BY DEF LexStates
    <2>. QED
      BY <1>2, <2>1, AcceptedTokens
  <1>4. LexTyped'
    BY <1>1, <1>2, <1>3 DEF LexTyped, textVars, lexVars
  <1>5. TreeTyped' /\ StackInv'
    BY <1>1, <1>2, TreeStays, StackStays DEF textVars, treeVars
  <1>. QED
    BY <1>1, <1>2, <1>4, <1>5, CallStays DEF ModelInv

(* A step of the parser's takes no call, and the document stays.           *)
LEMMA ParsingIsNoCall ==
    ASSUME Calling, Parsing
    PROVE  table = "none" /\ answer = "open" /\ phase = "running"
  BY NoCall DEF Parsing

LEMMA ChoiceIsTyped ==
    ASSUME TreeTyped, dialect' = dialect, NEW over, Choose(over)
    PROVE  misread' \in 0 .. Of.misreadings /\ Of' = Of
  <1>1. Of.misreadings \in Nat /\ misread \in Nat
    BY PartsAreCharacters DEF TreeTyped
  <1>2. misread' \in {misread, misread + 1} /\ misread' =< Of.misreadings
    BY DEF Choose
  <1>3. Of' = Of
    BY DEF Of
  <1>. QED
    BY <1>1, <1>2, <1>3

LEMMA ShiftKeepsModel ==
    ASSUME ModelInv, Shift
    PROVE  ModelInv'
  <1>. DEFINE s == Shifts[Top][peek]
  <1>1. /\ LexTyped /\ TreeTyped /\ Calling /\ StackInv
        /\ table = "none" /\ answer = "open" /\ phase = "running"
    BY ParsingIsNoCall DEF ModelInv, Shift
  <1>2. /\ stack' = Append(stack, s) /\ lexState' = LexMode[s]
        /\ peek' = "none" /\ token' = "none" /\ ahead' = << >> /\ covered' = {}
        /\ UNCHANGED <<setVars, textVars, phase, unstable, score>>
    BY DEF Shift
  <1>3. s \in After(stack[Len(stack)])
    BY DEF Shift, Shiftable, After, Top
  <1>4. stack[Len(stack)] \in ParseStates
    BY <1>1 DEF TreeTyped
  <1>5. LexMode[s] \in LexStates
    BY <1>3, <1>4, TablesFit
  <1>. HIDE DEF s
  <1>6. LexTyped'
    BY <1>1, <1>2, <1>5, EmptyIsSeq DEF LexTyped, textVars
  <1>7. /\ stack' \in Seq(ParseStates) /\ stack' # << >>
        /\ IsRooted(stack') /\ Grounded(stack')
    BY <1>1, <1>2, <1>3, PushKeepsStack DEF TreeTyped, StackInv, Rooted
  <1>8. misread' \in 0 .. Of.misreadings /\ Of' = Of
    BY <1>1, <1>2, ChoiceIsTyped DEF Shift, textVars
  <1>9. TreeTyped'
    BY <1>1, <1>2, <1>7, <1>8 DEF TreeTyped, textVars
  <1>10. StackInv'
    BY <1>1, <1>2, <1>7 DEF StackInv, Rooted
  <1>. QED
    BY <1>1, <1>2, <1>6, <1>9, <1>10, CallStays DEF ModelInv

LEMMA ReduceKeepsModel ==
    ASSUME ModelInv, Reduce
    PROVE  ModelInv'
  <1>. DEFINE p == Productions[Top]
              k == Len(stack) - p.children
              below == SubSeq(stack, 1, k)
              goto == Gotos[below[Len(below)]][p.symbol]
  <1>1. /\ LexTyped /\ TreeTyped /\ Calling /\ StackInv
        /\ table = "none" /\ answer = "open" /\ phase = "running"
    BY ParsingIsNoCall DEF ModelInv, Reduce
  <1>2. /\ stack' = Append(below, goto)
        /\ unstable' = (unstable \/ p.symbol \in ControlFlow)
        /\ score' = score + p.precedence
        /\ UNCHANGED <<setVars, textVars, lexVars, peek, phase>>
    BY DEF Reduce
  <1>3. /\ stack \in Seq(ParseStates) /\ stack # << >> /\ IsRooted(stack) /\ Grounded(stack)
        /\ Reduces[stack[Len(stack)]] # {}
    BY <1>1 DEF TreeTyped, StackInv, Rooted, Reduce, Reducible, Top
  <1>4. p.precedence \in Int /\ k \in 1 .. Len(stack) /\ p.symbol \in DOMAIN Gotos[stack[k]]
    BY <1>3, ReductionFindsChildren DEF Top
  <1>. HIDE DEF p, k
  <1>5. /\ below \in Seq(ParseStates) /\ below # << >>
        /\ Len(below) = k /\ below[k] = stack[k]
        /\ IsRooted(below) /\ Grounded(below)
    BY <1>3, <1>4, PopKeepsStack
  <1>6. goto \in After(below[Len(below)])
    BY <1>4, <1>5 DEF After
  <1>. HIDE DEF below, goto
  <1>7. /\ stack' \in Seq(ParseStates) /\ stack' # << >>
        /\ IsRooted(stack') /\ Grounded(stack')
    BY <1>2, <1>5, <1>6, PushKeepsStack
  <1>8. misread' \in 0 .. Of.misreadings /\ Of' = Of
    BY <1>1, <1>2, ChoiceIsTyped DEF Reduce, textVars
  <1>9. unstable' \in BOOLEAN /\ score' \in Int
    BY <1>1, <1>2, <1>4 DEF TreeTyped
  <1>10. TreeTyped'
    BY <1>1, <1>2, <1>7, <1>8, <1>9 DEF TreeTyped, textVars
  <1>11. StackInv'
    BY <1>1, <1>2, <1>7 DEF StackInv, Rooted
  <1>12. LexTyped'
    BY <1>1, <1>2 DEF LexTyped, textVars, lexVars
  <1>. QED
    BY <1>1, <1>2, <1>10, <1>11, <1>12, CallStays DEF ModelInv

LEMMA AcceptKeepsModel ==
    ASSUME ModelInv, Accept \/ Fail
    PROVE  ModelInv'
  <1>1. /\ LexTyped /\ TreeTyped /\ Calling /\ StackInv
        /\ table = "none" /\ answer = "open"
    BY ParsingIsNoCall DEF ModelInv, Accept, Fail
  <1>2. /\ phase' \in {"accepted", "failed"}
        /\ phase' = "accepted" => Top = 360
        /\ UNCHANGED <<setVars, textVars, lexVars, peek, stack, unstable, misread, score>>
    BY DEF Accept, Fail
  <1>3. LexTyped'
    BY <1>1, <1>2 DEF LexTyped, textVars, lexVars
  <1>4. TreeTyped'
    BY <1>1, <1>2 DEF TreeTyped, textVars, Of
  <1>5. StackInv'
    BY <1>1, <1>2 DEF StackInv, Rooted, IsRooted, Grounded, Top
  <1>. QED
    BY <1>1, <1>2, <1>3, <1>4, <1>5, CallStays DEF ModelInv

LEMMA MoreInputKeepsModel ==
    ASSUME ModelInv, MoreInput
    PROVE  ModelInv'
  <1>1. /\ LexTyped /\ TreeTyped /\ Calling /\ StackInv
        /\ table = "none" /\ answer = "open"
    BY DEF ModelInv, MoreInput, Lexing, Calling
  <1>2. WriteMore /\ UNCHANGED <<setVars, lexVars, peek, stack, phase, unstable, misread>>
    BY DEF MoreInput
  <1>3. dialect' = dialect /\ unread' \in Seq(Character) /\ control' \in BOOLEAN
    BY <1>1, <1>2, WriteMoreIsTyped DEF LexTyped, TreeTyped
  <1>4. \A block : Worth(block) \in Int
    BY DEF Worth
  <1>5. score' \in Int
    <2>1. score' \in {score} \cup { score - Worth(block) : block \in {open'[Len(open)]} }
      BY DEF MoreInput
    <2>. QED
      BY <1>1, <1>4, <2>1 DEF TreeTyped
  <1>6. LexTyped'
    BY <1>1, <1>2, <1>3 DEF LexTyped, lexVars
  <1>7. TreeTyped'
    BY <1>1, <1>2, <1>3, <1>5 DEF TreeTyped, Of
  <1>8. StackInv'
    BY <1>1, <1>2, StackStays
  <1>. QED
    BY <1>1, <1>2, <1>6, <1>7, <1>8, CallStays DEF ModelInv

-----------------------------------------------------------------------------
(* The invariant of the parser, and what follows from it.                  *)

LEMMA InitEstablishesModel == Init => ModelInv
  <1>. SUFFICES ASSUME Init PROVE ModelInv
    OBVIOUS
  <1>1. 1 \in ParseStates /\ LexMode[1] \in LexStates
    <2>1. 1 \in ParseStates
      BY DEF ParseStates
    <2>2. \A s \in ParseStates : LexMode[s] \in LexStates
      BY TablesFit
    <2>. QED
      BY <2>1, <2>2
  <1>2. /\ stack = <<1>> /\ lexState = LexMode[1]
        /\ token = "none" /\ ahead = << >> /\ covered = {} /\ peek = "none"
        /\ phase = "running" /\ unstable = FALSE /\ misread = 0 /\ score = 0
        /\ dialect \in DOMAIN Dialects /\ unread = << >> /\ control = FALSE
        /\ table = "none" /\ answer = "open"
    BY DEF Init, TextInit, SetInit
  <1>3. LexTyped
    BY <1>1, <1>2, EmptyIsSeq DEF LexTyped
  <1>4. TreeTyped
    <2>1. Of.misreadings \in Nat
      BY <1>2, PartsAreCharacters
    <2>2. stack \in Seq(ParseStates) /\ stack # << >>
      BY <1>1, <1>2, SingletonIsSeq
    <2>3. misread \in 0 .. Of.misreadings /\ score \in Int
      BY <1>2, <2>1
    <2>. QED
      BY <1>2, <2>2, <2>3 DEF TreeTyped
  <1>5. Rooted
    <2>1. \A symbol \in DOMAIN Items : \A n \in DOMAIN Items[symbol] : 1 \notin Items[symbol][n]
      BY ItemsAreLists
    <2>. QED
      BY <1>2, <2>1 DEF Rooted, IsRooted
  <1>6. StackInv
    BY <1>2, <1>5 DEF StackInv, Grounded
  <1>. QED
    BY <1>2, <1>3, <1>4, <1>6 DEF ModelInv, Calling

LEMMA StepKeepsModel ==
    ASSUME ModelInv, [Next]_vars
    PROVE  ModelInv'
  <1>1. CASE MoveOn
    BY <1>1, MoveOnKeepsModel
  <1>2. CASE SkipSpace
    BY <1>2, SkipSpaceKeepsModel
  <1>3. CASE AskClass
    BY <1>3, AskClassKeepsModel
  <1>4. CASE Search
    BY <1>4, SearchKeepsModel
  <1>5. CASE TakeAnswer
    BY <1>5, TakeAnswerKeepsModel
  <1>6. CASE Stop
    BY <1>6, StopKeepsModel
  <1>7. CASE EndOfInput
    BY <1>7, EndOfInputKeepsModel
  <1>8. CASE Shift
    BY <1>8, ShiftKeepsModel
  <1>9. CASE Reduce
    BY <1>9, ReduceKeepsModel
  <1>10. CASE Accept \/ Fail
    BY <1>10, AcceptKeepsModel
  <1>11. CASE MoreInput
    BY <1>11, MoreInputKeepsModel
  <1>12. CASE UNCHANGED vars
    <2>1. LexTyped /\ TreeTyped /\ Calling /\ StackInv
      BY DEF ModelInv
    <2>2. UNCHANGED <<setVars, textVars, lexVars, peek, treeVars>>
      BY <1>12 DEF vars
    <2>3. LexTyped'
      BY <2>1, <2>2 DEF LexTyped, textVars, lexVars
    <2>4. TreeTyped' /\ StackInv'
      BY <2>1, <2>2, TreeStays, StackStays DEF textVars, treeVars
    <2>5. Calling'
      BY <2>1, <2>2 DEF Calling, setVars, textVars, lexVars, treeVars
    <2>. QED
      BY <2>3, <2>4, <2>5 DEF ModelInv
  <1>. QED
    BY <1>1, <1>2, <1>3, <1>4, <1>5, <1>6, <1>7, <1>8, <1>9, <1>10, <1>11, <1>12
    DEF Next, ReadOn, Finished

(* Every step is one of set_contains or leaves its variables alone.        *)
LEMMA StepSearches ==
    ASSUME ModelInv, [Next]_vars
    PROVE  [SetNext]_setVars
  <1>1. CASE AskClass
    BY <1>1, AskClassKeepsModel DEF SetNext
  <1>2. CASE Search
    BY <1>2 DEF Search, SetNext
  <1>3. CASE TakeAnswer
    BY <1>3 DEF TakeAnswer, SetNext
  <1>4. CASE MoveOn \/ SkipSpace \/ Stop \/ EndOfInput
    BY <1>4 DEF MoveOn, SkipSpace, Stop, EndOfInput
  <1>5. CASE Shift \/ Reduce \/ Accept \/ Fail \/ MoreInput
    BY <1>5 DEF Shift, Reduce, Accept, Fail, MoreInput
  <1>6. CASE UNCHANGED vars
    BY <1>6 DEF vars
  <1>. QED
    BY <1>1, <1>2, <1>3, <1>4, <1>5, <1>6 DEF Next, ReadOn, Finished

LEMMA ModelHolds == Spec => []ModelInv
  BY InitEstablishesModel, StepKeepsModel, PTL DEF Spec

(* The generated lexer and parser stay inside their tables: every state    *)
(* they are in has a row, and every token is one of the grammar's.         *)
THEOREM ParserTypes == Spec => []TypeOK
  <1>1. ModelInv => TypeOK
    BY DEF ModelInv, LexTyped, TreeTyped, Character, TypeOK
  <1>. QED
    BY <1>1, ModelHolds, PTL

(* The lexer around it uses set_contains as its specification says: it     *)
(* asks about classes that there are, one at a time, and takes each answer *)
(* once.                                                                   *)
THEOREM LexerSearches == Spec => SetSpec
  <1>1. Init => SetInit
    BY DEF Init
  <1>. QED
    BY <1>1, ModelHolds, StepSearches, PTL DEF Spec, SetSpec

(* So the classes of the lexer are exact: a character goes into a name, a  *)
(* variable or a rune exactly when a range of that class holds it.         *)
THEOREM ClassesAreExact == Spec => []MembershipIsExact
  BY LexerSearches, SearchIsExact, PTL

(* Whatever is on the stack has below it what its items count on.          *)
THEOREM StackIsRooted == Spec => []Rooted
  <1>1. ModelInv => Rooted
    BY DEF ModelInv, StackInv
  <1>. QED
    BY <1>1, ModelHolds, PTL

(* The runtime pops without looking, and may: no reduction finds too few   *)
(* states or no goto below them, however long the document and however     *)
(* deep its blocks, and an accepted document leaves nothing open.          *)
THEOREM ReductionsFindTheirStates == Spec => []StackFits
  <1>1. ASSUME ModelInv PROVE StackFits
    <2>1. /\ stack \in Seq(ParseStates) /\ stack # << >> /\ IsRooted(stack)
          /\ Grounded(stack)
          /\ phase = "accepted" => Top = 360
      BY <1>1 DEF ModelInv, TreeTyped, StackInv, Rooted
    <2>2. CASE phase = "running" /\ Reduces[Top] # {}
      <3>1. /\ stack \in Seq(ParseStates) /\ stack # << >> /\ IsRooted(stack)
            /\ Reduces[stack[Len(stack)]] # {} /\ Len(stack) \in Nat
        BY <2>1, <2>2 DEF Top
      <3>. DEFINE k == Len(stack) - Productions[stack[Len(stack)]].children
      <3>2. /\ k \in 1 .. Len(stack)
            /\ Productions[stack[Len(stack)]].symbol \in DOMAIN Gotos[stack[k]]
        BY <3>1, ReductionFindsChildren
      <3>3. k >= 1
        BY <3>1, <3>2
      <3>. QED
        BY <2>2, <3>2, <3>3 DEF StackFits, Top
    <2>3. CASE phase = "accepted"
      <3>1. /\ Len(stack) \in Nat /\ Len(stack) >= 1 /\ DOMAIN stack = 1 .. Len(stack)
            /\ stack[Len(stack)] = 360
        BY <2>1, <2>3 DEF Top
      <3>2. Len(stack) = 2 /\ stack[1] = 1
        <4>1. Len(stack) # 1
          BY <2>1, <3>1 DEF Grounded
        <4>2. stack[Len(stack) - 1] = 1
          BY <2>1, <3>1, <4>1 DEF Grounded
        <4>3. Len(stack) - 1 \notin 2 .. Len(stack)
          BY <2>1, <4>2 DEF Grounded
        <4>. QED
          BY <2>1, <3>1, <4>1, <4>3 DEF Grounded
      <3>. QED
        BY <2>1, <2>3, <3>1, <3>2 DEF StackFits
    <2>. QED
      BY <2>2, <2>3 DEF StackFits
  <1>. QED
    BY <1>1, ModelHolds, PTL

(* templateRegions sees a word of control flow in the tree when it was     *)
(* read, and sees none that was not.                                       *)
THEOREM ControlFlowIsNoticed == Spec => ControlIsNoticed
  <1>1. ASSUME ModelInv, Reduce
        PROVE  unstable' <=>
                   unstable \/ \E i \in Len(stack') .. Len(stack) : stack[i] \in ControlWords
    <2>. DEFINE p == Productions[Top]
                k == Len(stack) - p.children
                below == SubSeq(stack, 1, k)
    <2>1. /\ stack \in Seq(ParseStates) /\ stack # << >> /\ IsRooted(stack) /\ Grounded(stack)
          /\ unstable \in BOOLEAN
      BY <1>1 DEF ModelInv, TreeTyped, StackInv, Rooted
    <2>2. /\ Reduces[Top] # {} /\ Top \in ParseStates
          /\ unstable' = (unstable \/ p.symbol \in ControlFlow)
          /\ \E goto : stack' = Append(below, goto)
      <3>1. Reduces[Top] # {}
        BY <1>1 DEF Reduce, Reducible
      <3>2. Top \in ParseStates
        BY <2>1 DEF Top
      <3>3. unstable' = (unstable \/ p.symbol \in ControlFlow)
        BY <1>1 DEF Reduce
      <3>4. stack' = Append(below, Gotos[below[Len(below)]][p.symbol])
        BY <1>1 DEF Reduce
      <3>. QED
        BY <3>1, <3>2, <3>3, <3>4
    <2>3. /\ p.children \in Nat /\ k \in 1 .. Len(stack)
          /\ p.children > 0 => p.symbol \in DOMAIN Items
                                  /\ p.children \in DOMAIN Items[p.symbol]
          /\ \A m \in 1 .. p.children : stack[k + m] \in Items[p.symbol][m]
      BY <2>1, <2>2, ReductionFindsChildren DEF Top
    <2>4. Len(stack) \in Nat /\ k + p.children = Len(stack)
      BY <2>1, <2>3
    <2>5. p.symbol \in ControlFlow => p.children >= 2
      BY <2>2, ControlFits
    <2>. HIDE DEF p, k
    <2>6. Len(below) = k
      BY <2>1, <2>3
    <2>7. Len(stack') = k + 1
      BY <2>1, <2>2, <2>3, <2>6
    <2>8. ASSUME p.children > 0
          PROVE  DOMAIN Items[p.symbol] = 1 .. Len(Items[p.symbol])
                   /\ 1 .. p.children \subseteq DOMAIN Items[p.symbol]
      BY <2>3, <2>8, ItemsAreLists
    <2>9. ASSUME p.symbol \in ControlFlow
          PROVE  \E i \in Len(stack') .. Len(stack) : stack[i] \in ControlWords
      <3>1. 2 \in 1 .. p.children /\ p.children > 0
        BY <2>3, <2>5, <2>9
      <3>2. stack[k + 2] \in ControlWords
        BY <2>3, <2>8, <2>9, <3>1, ControlFits
      <3>3. k + 2 \in Len(stack') .. Len(stack)
        BY <2>3, <2>4, <2>7, <3>1
      <3>. QED
        BY <3>2, <3>3
    <2>10. ASSUME NEW i \in Len(stack') .. Len(stack), stack[i] \in ControlWords
           PROVE  p.symbol \in ControlFlow
      <3>1. i - k \in 1 .. p.children /\ i = k + (i - k) /\ p.children > 0
        BY <2>3, <2>4, <2>7
      <3>2. stack[i] \in Items[p.symbol][i - k] /\ i - k \in DOMAIN Items[p.symbol]
        BY <2>3, <2>8, <3>1
      <3>. QED
        BY <2>3, <2>10, <3>1, <3>2, ControlFits
    <2>. QED
      BY <2>1, <2>2, <2>9, <2>10
  <1>2. ASSUME ModelInv, [Next]_vars
        PROVE  [Reduce =>
                  (unstable' <=> unstable \/
                     \E i \in Len(stack') .. Len(stack) : stack[i] \in ControlWords)]_vars
    BY <1>1, <1>2
  <1>. QED
    BY <1>2, ModelHolds, PTL DEF Spec, ControlIsNoticed
=============================================================================
