-------------------------- MODULE ProjectionProofs --------------------------
(***************************************************************************)
(* The projection's invariants, for documents of any length: all four follow *)
(* from what the document is made of, by an induction along its runes.       *)
(***************************************************************************)
EXTENDS Projection, DataTheorems

----------------------------------------------------------------------------
(* Offsets and positions in any text.                                       *)

\* Where the n-th rune ends.
Off(runes, n) == ByteLen(SubSeq(runes, 1, n))

HowMany(runes, n, rune) == Cardinality({i \in 1 .. n : runes[i] = rune})

\* A rune more, and there may be one more of its kind.
LEMMA HowManyStep ==
  ASSUME NEW S, NEW runes \in Seq(S), NEW rune
  PROVE  /\ HowMany(runes, 0, rune) = 0
         /\ \A n \in 0 .. Len(runes) : HowMany(runes, n, rune) \in Nat
         /\ \A n \in 1 .. Len(runes) :
              HowMany(runes, n, rune) =
                HowMany(runes, n - 1, rune) + (IF runes[n] = rune THEN 1 ELSE 0)
<1> DEFINE at(n) == {i \in 1 .. n : runes[i] = rune}
<1>1. at(0) = {}
  OBVIOUS
<1>2. ASSUME NEW n \in 0 .. Len(runes)
      PROVE  IsFiniteSet(at(n)) /\ Cardinality(at(n)) \in Nat
  <2>1. IsFiniteSet(1 .. n) /\ at(n) \in SUBSET (1 .. n)
    BY FS_Interval
  <2> QED
    BY <2>1, FS_Subset, FS_CardinalityType
<1>3. ASSUME NEW n \in 1 .. Len(runes)
      PROVE  /\ runes[n] = rune => at(n) = at(n - 1) \cup {n} /\ n \notin at(n - 1)
             /\ runes[n] # rune => at(n) = at(n - 1)
  <2>1. 1 .. n = (1 .. (n - 1)) \cup {n} /\ n \notin 1 .. (n - 1)
    OBVIOUS
  <2> QED
    BY <2>1
<1>4. ASSUME NEW n \in 1 .. Len(runes)
      PROVE  Cardinality(at(n)) = Cardinality(at(n - 1)) + (IF runes[n] = rune THEN 1 ELSE 0)
  <2>1. n - 1 \in 0 .. Len(runes)
    OBVIOUS
  <2>2. IsFiniteSet(at(n - 1)) /\ Cardinality(at(n - 1)) \in Nat
    BY <1>2, <2>1
  <2> HIDE DEF at
  <2>3. CASE runes[n] = rune
    <3>1. at(n) = at(n - 1) \cup {n} /\ n \notin at(n - 1)
      BY <1>3, <2>3
    <3> QED
      BY <2>2, <2>3, <3>1, OneMore
  <2>4. CASE runes[n] # rune
    <3>1. at(n) = at(n - 1)
      BY <1>3, <2>4
    <3> QED
      BY <2>2, <2>4, <3>1
  <2> QED
    BY <2>3, <2>4
<1> HIDE DEF at
<1> QED
  BY <1>1, <1>2, <1>4, FS_EmptySet DEF HowMany, at

\* An offset grows by the bytes of each rune.
LEMMA OffStep ==
  ASSUME NEW S, NEW runes \in Seq(S)
  PROVE  /\ Off(runes, 0) = 0
         /\ \A n \in 0 .. Len(runes) : Off(runes, n) \in Nat
         /\ \A n \in 1 .. Len(runes) : Off(runes, n) = Off(runes, n - 1) + Bytes(runes[n])
<1>1. ASSUME NEW n \in 0 .. Len(runes)
      PROVE  Off(runes, n) = n + 3 * HowMany(runes, n, "g")
  <2> DEFINE part == SubSeq(runes, 1, n)
  <2>1. part \in Seq(S) /\ Len(part) = n /\ \A i \in 1 .. n : part[i] = runes[i]
    BY InitialPart
  <2> HIDE DEF part
  <2>2. {i \in DOMAIN part : part[i] = "g"} = {i \in 1 .. n : runes[i] = "g"}
    BY <2>1
  <2> QED
    BY <2>1, <2>2 DEF Off, ByteLen, HowMany, part
<1>2. \A n \in 1 .. Len(runes) : n - 1 \in 0 .. Len(runes) /\ n \in 0 .. Len(runes)
  OBVIOUS
<1>3. 0 \in 0 .. Len(runes)
  OBVIOUS
<1>4. ASSUME NEW n \in 1 .. Len(runes)
      PROVE  Off(runes, n) = Off(runes, n - 1) + Bytes(runes[n])
  <2>1. /\ HowMany(runes, n, "g") \in Nat /\ HowMany(runes, n - 1, "g") \in Nat
        /\ HowMany(runes, n, "g") =
             HowMany(runes, n - 1, "g") + (IF runes[n] = "g" THEN 1 ELSE 0)
    BY <1>2, HowManyStep
  <2>2. /\ Off(runes, n) = n + 3 * HowMany(runes, n, "g")
        /\ Off(runes, n - 1) = n - 1 + 3 * HowMany(runes, n - 1, "g")
    BY <1>1, <1>2
  <2> QED
    BY <2>1, <2>2 DEF Bytes
<1>5. \A n \in 0 .. Len(runes) : Off(runes, n) \in Nat
  BY <1>1, HowManyStep
<1>6. Off(runes, 0) = 0
  BY <1>1, <1>3, HowManyStep
<1> QED
  BY <1>4, <1>5, <1>6

\* A line end takes a position to the next line, another rune along its line.
LEMMA AfterStep ==
  ASSUME NEW S, NEW runes \in Seq(S)
  PROVE  /\ After(runes, 0).line = 0 /\ After(runes, 0).character = 0
         /\ \A n \in 0 .. Len(runes) :
              After(runes, n).line \in Nat /\ After(runes, n).character \in Nat
         /\ \A n \in 1 .. Len(runes) :
              IF runes[n] = "nl"
              THEN /\ After(runes, n).line = After(runes, n - 1).line + 1
                   /\ After(runes, n).character = 0
              ELSE /\ After(runes, n).line = After(runes, n - 1).line
                   /\ After(runes, n).character =
                        After(runes, n - 1).character + (IF runes[n] = "g" THEN 2 ELSE 1)
<1> DEFINE wide(n) == {i \in Line(runes, n) : runes[i] = "g"}
<1>1. Line(runes, 0) = {} /\ wide(0) = {}
  BY DEF Line
<1>2. ASSUME NEW n \in 0 .. Len(runes)
      PROVE  /\ IsFiniteSet(Line(runes, n)) /\ Cardinality(Line(runes, n)) \in Nat
             /\ IsFiniteSet(wide(n)) /\ Cardinality(wide(n)) \in Nat
             /\ Line(runes, n) \subseteq 1 .. n
  <2>1. /\ IsFiniteSet(1 .. n) /\ Line(runes, n) \in SUBSET (1 .. n)
        /\ wide(n) \in SUBSET (1 .. n)
    BY FS_Interval DEF Line
  <2> HIDE DEF wide
  <2> QED
    BY <2>1, FS_Subset, FS_CardinalityType
<1>3. ASSUME NEW n \in 1 .. Len(runes), runes[n] = "nl"
      PROVE  Line(runes, n) = {} /\ wide(n) = {}
  BY <1>3 DEF Line
<1>4. ASSUME NEW n \in 1 .. Len(runes), runes[n] # "nl"
      PROVE  /\ Line(runes, n) = Line(runes, n - 1) \cup {n}
             /\ wide(n) = IF runes[n] = "g" THEN wide(n - 1) \cup {n} ELSE wide(n - 1)
             /\ n \notin Line(runes, n - 1) /\ n \notin wide(n - 1)
  <2>1. 1 .. n = (1 .. (n - 1)) \cup {n} /\ n \notin 1 .. (n - 1) /\ n .. n = {n}
    OBVIOUS
  <2>2. \A i \in 1 .. (n - 1) : i .. n = (i .. (n - 1)) \cup {n}
    OBVIOUS
  <2>3. Line(runes, n) = Line(runes, n - 1) \cup {n}
    BY <1>4, <2>1, <2>2 DEF Line
  <2>4. n \notin Line(runes, n - 1)
    BY <2>1 DEF Line
  <2> QED
    BY <2>3, <2>4
<1>5. \A n \in 0 .. Len(runes) :
        /\ After(runes, n).line = HowMany(runes, n, "nl")
        /\ After(runes, n).character = Cardinality(Line(runes, n)) + Cardinality(wide(n))
  BY DEF After, HowMany
<1> HIDE DEF wide
<1>6. \A n \in 1 .. Len(runes) : n - 1 \in 0 .. Len(runes) /\ n \in 0 .. Len(runes)
  OBVIOUS
<1>7. 0 \in 0 .. Len(runes)
  OBVIOUS
<1>8. ASSUME NEW n \in 1 .. Len(runes), runes[n] # "nl"
      PROVE  After(runes, n).character =
               After(runes, n - 1).character + (IF runes[n] = "g" THEN 2 ELSE 1)
  <2>0. /\ IsFiniteSet(Line(runes, n - 1)) /\ IsFiniteSet(wide(n - 1))
        /\ Cardinality(Line(runes, n - 1)) \in Nat /\ Cardinality(wide(n - 1)) \in Nat
    BY <1>2, <1>6
  <2>1. Cardinality(Line(runes, n)) = Cardinality(Line(runes, n - 1)) + 1
    BY <1>4, <1>8, <2>0, OneMore
  <2>2. Cardinality(wide(n)) = Cardinality(wide(n - 1)) + (IF runes[n] = "g" THEN 1 ELSE 0)
    <3>1. CASE runes[n] = "g"
      BY <1>4, <1>8, <2>0, <3>1, OneMore
    <3>2. CASE runes[n] # "g"
      BY <1>4, <1>8, <2>0, <3>2
    <3> QED
      BY <3>1, <3>2
  <2>3. /\ After(runes, n).character = Cardinality(Line(runes, n)) + Cardinality(wide(n))
        /\ After(runes, n - 1).character =
             Cardinality(Line(runes, n - 1)) + Cardinality(wide(n - 1))
    BY <1>5, <1>6
  <2> QED
    BY <2>0, <2>1, <2>2, <2>3
<1>9. ASSUME NEW n \in 1 .. Len(runes), runes[n] = "nl"
      PROVE  After(runes, n).character = 0
  <2>1. Cardinality(Line(runes, n)) = 0 /\ Cardinality(wide(n)) = 0
    BY <1>3, <1>9, FS_EmptySet
  <2>2. After(runes, n).character = Cardinality(Line(runes, n)) + Cardinality(wide(n))
    BY <1>5, <1>6
  <2> QED
    BY <2>1, <2>2
<1>10. ASSUME NEW n \in 1 .. Len(runes)
      PROVE  After(runes, n).line = After(runes, n - 1).line + (IF runes[n] = "nl" THEN 1 ELSE 0)
  <2>1. /\ After(runes, n).line = HowMany(runes, n, "nl")
        /\ After(runes, n - 1).line = HowMany(runes, n - 1, "nl")
    BY <1>5, <1>6
  <2>2. HowMany(runes, n, "nl") =
          HowMany(runes, n - 1, "nl") + (IF runes[n] = "nl" THEN 1 ELSE 0)
    BY HowManyStep
  <2> QED
    BY <2>1, <2>2
<1>11. After(runes, 0).line = 0 /\ After(runes, 0).character = 0
  <2>1. Cardinality(Line(runes, 0)) = 0 /\ Cardinality(wide(0)) = 0
    BY <1>1, FS_EmptySet
  <2>2. /\ After(runes, 0).line = HowMany(runes, 0, "nl")
        /\ After(runes, 0).character = Cardinality(Line(runes, 0)) + Cardinality(wide(0))
    BY <1>5, <1>7
  <2>3. HowMany(runes, 0, "nl") = 0
    BY HowManyStep
  <2> QED
    BY <2>1, <2>2, <2>3
<1>12. ASSUME NEW n \in 0 .. Len(runes)
      PROVE  After(runes, n).line \in Nat /\ After(runes, n).character \in Nat
  BY <1>2, <1>5, HowManyStep
<1>13. ASSUME NEW n \in 1 .. Len(runes)
      PROVE  After(runes, n - 1).line \in Nat
  BY <1>6, <1>12
<1> QED
  BY <1>8, <1>9, <1>10, <1>11, <1>12, <1>13

\* Offsets are in the order of the text.
LEMMA OffGrows ==
  ASSUME NEW S, NEW runes \in Seq(S)
  PROVE  \A m, n \in 0 .. Len(runes) :
           /\ m < n => Off(runes, m) < Off(runes, n)
           /\ Off(runes, m) = Off(runes, n) => m = n
<1> DEFINE I == {n \in 0 .. Len(runes) : \A m \in 0 .. n : m < n => Off(runes, m) < Off(runes, n)}
<1>1. 0 \in I /\ Len(runes) \in Nat
  OBVIOUS
<1>2. ASSUME NEW k \in 1 .. Len(runes), k - 1 \in I
      PROVE  k \in I
  <2>1. /\ Off(runes, k) = Off(runes, k - 1) + Bytes(runes[k])
        /\ \A m \in 0 .. Len(runes) : Off(runes, m) \in Nat
    BY OffStep
  <2>2. Bytes(runes[k]) \in {1, 4}
    BY DEF Bytes
  <2>3. ASSUME NEW m \in 0 .. k, m < k
        PROVE  Off(runes, m) < Off(runes, k)
    <3>1. m \in 0 .. (k - 1) /\ (m = k - 1 \/ m < k - 1) /\ k - 1 \in 0 .. Len(runes)
      BY <2>3
    <3>2. m \in 0 .. Len(runes)
      BY <3>1
    <3>3. Off(runes, m) \in Nat /\ Off(runes, k - 1) \in Nat
      BY <2>1, <3>1, <3>2
    <3>4. m < k - 1 => Off(runes, m) < Off(runes, k - 1)
      BY <1>2, <3>1
    <3> QED
      BY <2>1, <2>2, <3>1, <3>3, <3>4
  <2> QED
    BY <2>3
<1>3. \A n \in 0 .. Len(runes) : n \in I
  <2> HIDE DEF I
  <2> QED
    BY <1>1, <1>2, Induction
<1>4. ASSUME NEW m \in 0 .. Len(runes), NEW n \in 0 .. Len(runes), m < n
      PROVE  Off(runes, m) < Off(runes, n)
  BY <1>3, <1>4
<1>5. \A n \in 0 .. Len(runes) : Off(runes, n) \in Nat
  BY OffStep
<1> QED
  BY <1>4, <1>5

\* Positions are in the order of the text, and no two places share one.
LEMMA AfterGrows ==
  ASSUME NEW S, NEW runes \in Seq(S)
  PROVE  \A m, n \in 0 .. Len(runes) :
           /\ m <= n => After(runes, m).line <= After(runes, n).line
           /\ m < n /\ After(runes, m).line = After(runes, n).line =>
                After(runes, m).character < After(runes, n).character
           /\ After(runes, m) = After(runes, n) => m = n
<1> DEFINE line(n) == After(runes, n).line
           character(n) == After(runes, n).character
           Ordered(m, n) == /\ line(m) <= line(n)
                            /\ m < n /\ line(m) = line(n) => character(m) < character(n)
           I == {n \in 0 .. Len(runes) : \A m \in 0 .. n : Ordered(m, n)}
<1>0. \A m \in 0 .. Len(runes) : line(m) \in Nat /\ character(m) \in Nat
  BY AfterStep
<1>1. 0 \in I /\ Len(runes) \in Nat
  <2>1. Len(runes) \in Nat
    OBVIOUS
  <2>2. 0 \in 0 .. Len(runes) /\ \A m \in 0 .. 0 : m = 0
    BY <2>1
  <2>3. line(0) \in Nat
    BY <1>0, <2>2
  <2>4. Ordered(0, 0)
    BY <2>3
  <2> QED
    BY <2>1, <2>2, <2>4
<1>2. ASSUME NEW k \in 1 .. Len(runes), k - 1 \in I
      PROVE  k \in I
  <2>1. /\ runes[k] = "nl" => line(k) = line(k - 1) + 1
        /\ runes[k] # "nl" =>
             /\ line(k) = line(k - 1)
             /\ character(k) = character(k - 1) + (IF runes[k] = "g" THEN 2 ELSE 1)
    BY AfterStep
  <2>2. k - 1 \in 0 .. Len(runes) /\ k \in 0 .. Len(runes)
    OBVIOUS
  <2>3. /\ line(k) \in Nat /\ character(k) \in Nat
        /\ line(k - 1) \in Nat /\ character(k - 1) \in Nat
    BY <1>0, <2>2
  <2>4. ASSUME NEW m \in 0 .. k
        PROVE  Ordered(m, k)
    <3>1. m = k \/ (m \in 0 .. (k - 1) /\ (m = k - 1 \/ m < k - 1) /\ m < k)
      OBVIOUS
    <3>2. m \in 0 .. (k - 1) => Ordered(m, k - 1)
      BY <1>2
    <3>3. line(m) \in Nat /\ character(m) \in Nat
      BY <1>0, <2>2
    <3> HIDE DEF line, character
    <3> QED
      BY <2>1, <2>3, <3>1, <3>2, <3>3
  <2> QED
    BY <2>2, <2>4
<1>3. \A n \in 0 .. Len(runes) : n \in I
  <2> HIDE DEF I
  <2> QED
    BY <1>1, <1>2, Induction
<1>4. ASSUME NEW m \in 0 .. Len(runes), NEW n \in 0 .. Len(runes), m <= n
      PROVE  Ordered(m, n)
  <2>1. m \in 0 .. n /\ n \in I
    BY <1>3, <1>4
  <2> QED
    BY <2>1
<1>5. ASSUME NEW m \in 0 .. Len(runes), NEW n \in 0 .. Len(runes),
             After(runes, m) = After(runes, n)
      PROVE  m = n
  <2>1. line(m) = line(n) /\ character(m) = character(n)
    BY <1>5
  <2>2. line(m) \in Nat /\ character(m) \in Nat
    BY <1>0
  <2>3. m \in Int /\ n \in Int /\ (m < n => Ordered(m, n)) /\ (n < m => Ordered(n, m))
    BY <1>4
  <2> HIDE DEF line, character
  <2> QED
    BY <2>1, <2>2, <2>3
<1> QED
  BY <1>4, <1>5

\* A place in the text, its offset and its position determine one another.
LEMMA PlaceOf ==
  ASSUME NEW S, NEW runes \in Seq(S), NEW n \in 0 .. Len(runes)
  PROVE  /\ RunesBefore(runes, Off(runes, n)) = n
         /\ Position(runes, Off(runes, n)) = After(runes, n)
         /\ ByteOffset(runes, After(runes, n)) = {Off(runes, n)}
<1>1. RunesBefore(runes, Off(runes, n)) = n
  <2>1. \A m \in 0 .. Len(runes) : ByteLen(SubSeq(runes, 1, m)) = Off(runes, n) <=> m = n
    BY OffGrows DEF Off
  <2> QED
    BY <2>1 DEF RunesBefore
<1>2. \A m \in 0 .. Len(runes) : After(runes, m) = After(runes, n) <=> m = n
  BY AfterGrows
<1>3. {m \in 0 .. Len(runes) : After(runes, m) = After(runes, n)} = {n}
  BY <1>2
<1> QED
  BY <1>1, <1>3 DEF Position, ByteOffset, Off

\* The end of a line is the last place on it.
LEMMA LineEndIsLast ==
  ASSUME NEW S, NEW runes \in Seq(S), NEW n \in LineEnds(runes), NEW m \in 0 .. Len(runes),
         After(runes, m).line = After(runes, n).line
  PROVE  m <= n
<1>1. Len(runes) \in Nat /\ n \in 0 .. Len(runes)
  BY DEF LineEnds
<1> SUFFICES ASSUME n < m PROVE FALSE
  BY <1>1
<1>2. PICK k \in 1 .. Len(runes) : k = n + 1 /\ k \in 0 .. Len(runes) /\ k <= m /\ k - 1 = n
  <2>1. n + 1 \in Int /\ m \in Int /\ m <= Len(runes)
    BY <1>1
  <2>2. PICK k \in Int : k = n + 1
    BY <2>1
  <2>3. k \in 1 .. Len(runes) /\ k \in 0 .. Len(runes) /\ k <= m /\ k - 1 = n
    BY <1>1, <2>1, <2>2
  <2> QED
    BY <2>2, <2>3
<1>3. runes[k] = "nl"
  BY <1>1, <1>2 DEF LineEnds
<1>4. After(runes, k).line = After(runes, n).line + 1
  BY <1>2, <1>3, AfterStep
<1>5. After(runes, k).line <= After(runes, m).line
  BY <1>2, AfterGrows
<1>6. After(runes, n).line \in Nat
  BY <1>1, AfterStep
<1> QED
  BY <1>4, <1>5, <1>6
----------------------------------------------------------------------------
(* How the projection is laid out.                                          *)

TextRunes == {"a", "g", "$", "brace", "nl", "blank"}

Overwritten(doc, i) == doc[i].part = "action" \/ i \in Selectors(doc)

\* What a rune of a document can be; only a "$" of literal text is a selector.
LEMMA CharValues ==
  ASSUME NEW doc \in Seq(Chars), NEW i \in 1 .. Len(doc)
  PROVE  /\ doc[i].rune \in {"a", "g", "$", "brace", "nl"} /\ doc[i].part \in {"text", "action"}
         /\ doc[i].rune \in {"$", "brace"} => doc[i].part = "text"
         /\ i \in Selectors(doc) => doc[i].rune = "$"
<1>1. doc[i] \in Chars /\ DOMAIN doc = 1 .. Len(doc)
  OBVIOUS
<1>2. doc[i].rune \in {"a", "g", "$", "brace", "nl"} /\ doc[i].part \in {"text", "action"}
      /\ (doc[i].rune \in {"$", "brace"} => doc[i].part = "text")
  BY <1>1 DEF Chars
<1> QED
  BY <1>2 DEF Selectors

\* Masked gives an overwritten rune as many blanks as it has bytes, but for the
\* end of a line, and leaves the others.
LEMMA MaskedValues ==
  ASSUME NEW doc \in Seq(Chars), NEW i \in 1 .. Len(doc)
  PROVE  /\ Masked(doc, i) \in Seq(TextRunes)
         /\ Overwritten(doc, i) /\ doc[i].rune # "nl" =>
              /\ Len(Masked(doc, i)) = Bytes(doc[i].rune)
              /\ \A b \in 1 .. Bytes(doc[i].rune) : Masked(doc, i)[b] = "blank"
         /\ ~(Overwritten(doc, i) /\ doc[i].rune # "nl") =>
              Len(Masked(doc, i)) = 1 /\ Masked(doc, i)[1] = doc[i].rune
<1>1. /\ doc[i].rune \in {"a", "g", "$", "brace", "nl"} /\ doc[i].part \in {"text", "action"}
      /\ doc[i].rune = "$" => doc[i].part = "text"
      /\ i \in Selectors(doc) => doc[i].rune = "$"
  BY CharValues
<1>2. \A x \in TextRunes : <<x>> \in Seq(TextRunes) /\ Len(<<x>>) = 1 /\ <<x>>[1] = x
  OBVIOUS
<1>3. "blank" \in TextRunes /\ doc[i].rune \in TextRunes
  BY <1>1 DEF TextRunes
<1>4. CASE doc[i].part = "action" /\ doc[i].rune # "nl"
  <2> DEFINE w == Bytes(doc[i].rune)
             blanks == [b \in 1 .. w |-> "blank"]
  <2>1. w \in Nat
    BY DEF Bytes
  <2>2. blanks \in Seq(TextRunes) /\ Len(blanks) = w /\ \A b \in 1 .. w : blanks[b] = "blank"
    <3> HIDE DEF w
    <3> QED
      BY <1>3, <2>1
  <2>3. Masked(doc, i) = blanks
    <3>1. i \notin Selectors(doc)
      BY <1>1, <1>4
    <3> QED
      BY <1>4, <3>1 DEF Masked
  <2> HIDE DEF blanks
  <2> QED
    BY <1>4, <2>2, <2>3 DEF Overwritten
<1>5. CASE ~(doc[i].part = "action" /\ doc[i].rune # "nl") /\ i \in Selectors(doc)
  <2>1. Masked(doc, i) = <<"blank">>
    BY <1>5 DEF Masked
  <2>2. Bytes(doc[i].rune) = 1 /\ doc[i].rune # "nl" /\ Overwritten(doc, i)
    BY <1>1, <1>5 DEF Bytes, Overwritten
  <2> QED
    BY <1>2, <1>3, <2>1, <2>2
<1>6. CASE ~(doc[i].part = "action" /\ doc[i].rune # "nl") /\ i \notin Selectors(doc)
  <2>1. Masked(doc, i) = <<doc[i].rune>>
    BY <1>6 DEF Masked
  <2>2. ~(Overwritten(doc, i) /\ doc[i].rune # "nl")
    BY <1>6 DEF Overwritten
  <2> QED
    BY <1>2, <1>3, <2>1, <2>2
<1> QED
  BY <1>4, <1>5, <1>6

\* M[i] runes of the projection stand for the first i of the document.
Layout(doc, M) ==
  LET text == ProjectedText(doc)
  IN /\ M \in [0 .. Len(doc) -> Nat]
     /\ M[0] = 0 /\ Len(text) = M[Len(doc)]
     /\ \A i \in 1 .. Len(doc) :
          IF Overwritten(doc, i) /\ doc[i].rune # "nl"
          THEN /\ M[i] = M[i - 1] + Bytes(doc[i].rune)
               /\ \A b \in 1 .. Bytes(doc[i].rune) : text[M[i - 1] + b] = "blank"
          ELSE M[i] = M[i - 1] + 1 /\ text[M[i]] = doc[i].rune

\* ProjectedText has a layout.
LEMMA LaidOut ==
  ASSUME NEW doc \in Seq(Chars)
  PROVE  /\ ProjectedText(doc) \in Seq(TextRunes) /\ Runes(doc) \in Seq(TextRunes)
         /\ Len(Runes(doc)) = Len(doc) /\ \A i \in 1 .. Len(doc) : Runes(doc)[i] = doc[i].rune
         /\ \E M : Layout(doc, M)
<1> DEFINE seqs == [i \in DOMAIN doc |-> Masked(doc, i)]
           text == ProjectedText(doc)
<1>1. DOMAIN doc = 1 .. Len(doc) /\ Len(doc) \in Nat
  OBVIOUS
<1>2. /\ seqs \in Seq(Seq(TextRunes)) /\ Len(seqs) = Len(doc)
      /\ \A i \in 1 .. Len(doc) : seqs[i] = Masked(doc, i)
  <2>1. \A i \in 1 .. Len(doc) : Masked(doc, i) \in Seq(TextRunes)
    BY MaskedValues
  <2> QED
    BY <1>1, <2>1
<1> HIDE DEF seqs
<1>3. text = FlattenSeq(seqs)
  BY DEF ProjectedText, seqs
<1> HIDE DEF text
<1>4. text \in Seq(TextRunes) /\ \E M : Laid(seqs, text, M)
  BY <1>2, <1>3, FlattenValues
<1>5. PICK M : Laid(seqs, text, M)
  BY <1>4
<1>6. /\ M \in [0 .. Len(doc) -> Nat]
      /\ M[0] = 0 /\ Len(text) = M[Len(doc)]
      /\ \A i \in 1 .. Len(doc) :
           /\ M[i] = M[i - 1] + Len(Masked(doc, i))
           /\ \A b \in 1 .. Len(Masked(doc, i)) : text[M[i - 1] + b] = Masked(doc, i)[b]
  BY <1>2, <1>5 DEF Laid
<1>7. ASSUME NEW i \in 1 .. Len(doc)
      PROVE  IF Overwritten(doc, i) /\ doc[i].rune # "nl"
             THEN /\ M[i] = M[i - 1] + Bytes(doc[i].rune)
                  /\ \A b \in 1 .. Bytes(doc[i].rune) : text[M[i - 1] + b] = "blank"
             ELSE M[i] = M[i - 1] + 1 /\ text[M[i]] = doc[i].rune
  <2>1. /\ M[i] = M[i - 1] + Len(Masked(doc, i))
        /\ \A b \in 1 .. Len(Masked(doc, i)) : text[M[i - 1] + b] = Masked(doc, i)[b]
    BY <1>6
  <2>2. CASE Overwritten(doc, i) /\ doc[i].rune # "nl"
    BY <2>1, <2>2, MaskedValues
  <2>3. CASE ~(Overwritten(doc, i) /\ doc[i].rune # "nl")
    <3>1. Len(Masked(doc, i)) = 1 /\ Masked(doc, i)[1] = doc[i].rune
      BY <2>3, MaskedValues
    <3> QED
      BY <2>1, <2>3, <3>1
  <2> QED
    BY <2>2, <2>3
<1>8. Layout(doc, M)
  BY <1>6, <1>7 DEF Layout, text
<1>9. /\ Runes(doc) \in Seq(TextRunes) /\ Len(Runes(doc)) = Len(doc)
      /\ \A i \in 1 .. Len(doc) : Runes(doc)[i] = doc[i].rune
  <2>1. \A i \in 1 .. Len(doc) : doc[i].rune \in TextRunes
    BY CharValues DEF TextRunes
  <2> QED
    BY <1>1, <2>1 DEF Runes
<1> QED
  BY <1>4, <1>8, <1>9 DEF text
\* A blank is one byte, one unit, and stays on its line.
LEMMA BlankStep ==
  ASSUME NEW S, NEW runes \in Seq(S), NEW n \in 0 .. Len(runes), NEW w \in {1, 4},
         n + w <= Len(runes), \A b \in 1 .. w : runes[n + b] = "blank"
  PROVE  /\ Off(runes, n + w) = Off(runes, n) + w
         /\ After(runes, n + w).line = After(runes, n).line
         /\ w = 1 => After(runes, n + w).character = After(runes, n).character + 1
<1>1. ASSUME NEW k \in 1 .. Len(runes), runes[k] = "blank"
      PROVE  /\ Off(runes, k) = Off(runes, k - 1) + 1
             /\ After(runes, k).line = After(runes, k - 1).line
             /\ After(runes, k).character = After(runes, k - 1).character + 1
  <2>1. Bytes(runes[k]) = 1 /\ runes[k] # "nl" /\ runes[k] # "g"
    BY <1>1 DEF Bytes
  <2>2. Off(runes, k) = Off(runes, k - 1) + 1
    BY <2>1, OffStep
  <2> QED
    BY <2>1, <2>2, AfterStep
<1>2. Len(runes) \in Nat /\ n \in Nat
  OBVIOUS
<1>3. ASSUME NEW b \in 1 .. w
      PROVE  /\ Off(runes, n + b) = Off(runes, n + b - 1) + 1
             /\ After(runes, n + b).line = After(runes, n + b - 1).line
             /\ After(runes, n + b).character = After(runes, n + b - 1).character + 1
  <2>1. n + b \in 1 .. Len(runes)
    BY <1>2
  <2>2. runes[n + b] = "blank"
    OBVIOUS
  <2> DEFINE k == n + b
  <2>3. k \in 1 .. Len(runes) /\ runes[k] = "blank"
    BY <2>1, <2>2
  <2>4. /\ Off(runes, k) = Off(runes, k - 1) + 1
        /\ After(runes, k).line = After(runes, k - 1).line
        /\ After(runes, k).character = After(runes, k - 1).character + 1
    <3> HIDE DEF k
    <3> QED
      BY <1>1, <2>3
  <2> QED
    BY <2>4
<1>4. Off(runes, n) \in Nat
  BY OffStep
<1>5. CASE w = 1
  <2>1. 1 \in 1 .. w /\ n + 1 - 1 = n
    BY <1>2, <1>5
  <2>2. /\ Off(runes, n + 1) = Off(runes, n + 1 - 1) + 1
        /\ After(runes, n + 1).line = After(runes, n + 1 - 1).line
        /\ After(runes, n + 1).character = After(runes, n + 1 - 1).character + 1
    BY <1>3, <2>1
  <2> QED
    BY <1>5, <2>1, <2>2
<1>6. CASE w = 4
  <2>1. /\ n + 1 - 1 = n /\ n + 2 - 1 = n + 1 /\ n + 3 - 1 = n + 2 /\ n + 4 - 1 = n + 3
        /\ 1 \in 1 .. w /\ 2 \in 1 .. w /\ 3 \in 1 .. w /\ 4 \in 1 .. w
    BY <1>2, <1>6
  <2>2. /\ Off(runes, n + 1) = Off(runes, n) + 1
        /\ Off(runes, n + 2) = Off(runes, n + 1) + 1
        /\ Off(runes, n + 3) = Off(runes, n + 2) + 1
        /\ Off(runes, n + 4) = Off(runes, n + 3) + 1
    BY <1>3, <2>1
  <2>3. /\ After(runes, n + 1).line = After(runes, n).line
        /\ After(runes, n + 2).line = After(runes, n + 1).line
        /\ After(runes, n + 3).line = After(runes, n + 2).line
        /\ After(runes, n + 4).line = After(runes, n + 3).line
    BY <1>3, <2>1
  <2>4. Off(runes, n + 4) = Off(runes, n) + 4
    BY <1>4, <2>2
  <2> QED
    BY <1>6, <2>3, <2>4
<1> QED
  BY <1>5, <1>6

\* The i-th rune of the document stands where its image does: at the same byte
\* and line, and at the same character unless something before it on the line
\* was overwritten.
Corresponds(doc, M, i) ==
  LET text == ProjectedText(doc)
      runes == Runes(doc)
  IN /\ Off(text, M[i]) = Off(runes, i)
     /\ After(text, M[i]).line = After(runes, i).line
     /\ (\A k \in 1 .. i : After(runes, k).line = After(runes, i).line => ~Overwritten(doc, k))
          => After(text, M[i]).character = After(runes, i).character

\* The images of the places are in the order of the places.
LEMMA WithinLayout ==
  ASSUME NEW doc \in Seq(Chars), NEW M, Layout(doc, M)
  PROVE  /\ \A i, j \in 0 .. Len(doc) : i < j => M[i] < M[j]
         /\ \A i \in 0 .. Len(doc) : M[i] \in 0 .. Len(ProjectedText(doc))
<1> DEFINE I == {j \in 0 .. Len(doc) : \A i \in 0 .. j : i < j => M[i] < M[j]}
<1>1. Len(doc) \in Nat /\ 0 \in I
  OBVIOUS
<1>2. \A i \in 0 .. Len(doc) : M[i] \in Nat
  BY DEF Layout
<1>3. ASSUME NEW k \in 1 .. Len(doc), k - 1 \in I
      PROVE  k \in I
  <2>1. M[k - 1] < M[k]
    <3>1. M[k - 1] \in Nat /\ Bytes(doc[k].rune) \in {1, 4}
      BY <1>2 DEF Bytes
    <3>2. M[k] = M[k - 1] + Bytes(doc[k].rune) \/ M[k] = M[k - 1] + 1
      BY DEF Layout
    <3> QED
      BY <3>1, <3>2
  <2>2. ASSUME NEW i \in 0 .. k, i < k
        PROVE  M[i] < M[k]
    <3>1. i \in 0 .. (k - 1) /\ (i = k - 1 \/ i < k - 1) /\ i \in 0 .. Len(doc)
      BY <2>2
    <3>2. i < k - 1 => M[i] < M[k - 1]
      BY <1>3, <3>1
    <3>3. M[i] \in Nat /\ M[k] \in Nat /\ M[k - 1] \in Nat
      BY <1>2, <3>1
    <3> QED
      BY <2>1, <3>1, <3>2, <3>3
  <2> QED
    BY <2>2
<1>4. \A j \in 0 .. Len(doc) : j \in I
  <2> HIDE DEF I
  <2> QED
    BY <1>1, <1>3, Induction
<1>5. ASSUME NEW i \in 0 .. Len(doc), NEW j \in 0 .. Len(doc), i < j
      PROVE  M[i] < M[j]
  <2>1. j \in I /\ i \in 0 .. j
    BY <1>4, <1>5
  <2> QED
    BY <1>5, <2>1
<1>6. ASSUME NEW i \in 0 .. Len(doc)
      PROVE  M[i] \in 0 .. Len(ProjectedText(doc))
  <2>1. Len(doc) \in 0 .. Len(doc) /\ Len(ProjectedText(doc)) = M[Len(doc)]
    BY <1>1 DEF Layout
  <2>2. i < Len(doc) => M[i] < M[Len(doc)]
    BY <1>5, <2>1
  <2>3. M[i] \in Nat /\ M[Len(doc)] \in Nat
    BY <1>2, <2>1
  <2> QED
    BY <1>1, <2>1, <2>2, <2>3
<1> QED
  BY <1>5, <1>6
\* Masking moves no byte and no line.
LEMMA AllCorrespond ==
  ASSUME NEW doc \in Seq(Chars), NEW M, Layout(doc, M)
  PROVE  \A i \in 0 .. Len(doc) : Corresponds(doc, M, i)
<1> DEFINE text == ProjectedText(doc)
           runes == Runes(doc)
           I == {i \in 0 .. Len(doc) : Corresponds(doc, M, i)}
<1>1. /\ text \in Seq(TextRunes) /\ runes \in Seq(TextRunes)
      /\ Len(runes) = Len(doc) /\ \A i \in 1 .. Len(doc) : runes[i] = doc[i].rune
  BY LaidOut
<1>2. \A i \in 0 .. Len(doc) : M[i] \in 0 .. Len(text)
  BY WithinLayout
<1>3. \A i \in 1 .. Len(doc) : M[i - 1] < M[i]
  <2>1. \A i \in 1 .. Len(doc) : i - 1 \in 0 .. Len(doc) /\ i \in 0 .. Len(doc) /\ i - 1 < i
    OBVIOUS
  <2> QED
    BY <2>1, WithinLayout
<1>4. \A i \in 1 .. Len(doc) :
        IF Overwritten(doc, i) /\ doc[i].rune # "nl"
        THEN /\ M[i] = M[i - 1] + Bytes(doc[i].rune)
             /\ \A b \in 1 .. Bytes(doc[i].rune) : text[M[i - 1] + b] = "blank"
        ELSE M[i] = M[i - 1] + 1 /\ text[M[i]] = doc[i].rune
  BY DEF Layout
<1>5. M[0] = 0 /\ Len(doc) \in Nat
  BY DEF Layout
<1> HIDE DEF text, runes
<1>6. 0 \in I
  <2>1. Corresponds(doc, M, 0)
    BY <1>1, <1>5, OffStep, AfterStep DEF Corresponds, text, runes
  <2> QED
    BY <1>5, <2>1
<1>7. ASSUME NEW k \in 1 .. Len(doc), k - 1 \in I
      PROVE  k \in I
  <2> DEFINE n == M[k - 1]
  <2>1. /\ Off(text, n) = Off(runes, k - 1)
        /\ After(text, n).line = After(runes, k - 1).line
        /\ (\A i \in 1 .. (k - 1) :
              After(runes, i).line = After(runes, k - 1).line => ~Overwritten(doc, i))
             => After(text, n).character = After(runes, k - 1).character
    BY <1>7 DEF Corresponds, text, runes
  <2>2. /\ k \in 1 .. Len(runes) /\ runes[k] = doc[k].rune
        /\ n \in 0 .. Len(text) /\ M[k] \in 0 .. Len(text) /\ n < M[k]
        /\ k - 1 \in 0 .. Len(doc) /\ k \in 0 .. Len(doc)
    <3>1. k - 1 \in 0 .. Len(doc) /\ k \in 0 .. Len(doc)
      OBVIOUS
    <3> QED
      BY <1>1, <1>2, <1>3, <3>1
  <2>3. /\ Off(runes, k) = Off(runes, k - 1) + Bytes(runes[k])
        /\ IF runes[k] = "nl"
           THEN /\ After(runes, k).line = After(runes, k - 1).line + 1
                /\ After(runes, k).character = 0
           ELSE /\ After(runes, k).line = After(runes, k - 1).line
                /\ After(runes, k).character =
                     After(runes, k - 1).character + (IF runes[k] = "g" THEN 2 ELSE 1)
    BY <1>1, <2>2, OffStep, AfterStep
  <2> HIDE DEF n
  <2>4. CASE Overwritten(doc, k) /\ doc[k].rune # "nl"
    <3> DEFINE w == Bytes(doc[k].rune)
    <3>1. w \in {1, 4}
      BY DEF Bytes
    <3>2. M[k] = n + w /\ \A b \in 1 .. w : text[n + b] = "blank"
      BY <1>4, <2>4 DEF n
    <3> HIDE DEF w
    <3>3. n + w <= Len(text)
      BY <2>2, <3>2, <1>1
    <3>4. Off(text, n + w) = Off(text, n) + w /\ After(text, n + w).line = After(text, n).line
      BY <1>1, <2>2, <3>1, <3>2, <3>3, BlankStep
    <3>5. Off(text, M[k]) = Off(runes, k) /\ After(text, M[k]).line = After(runes, k).line
      BY <2>1, <2>2, <2>3, <2>4, <3>2, <3>4 DEF w
    <3>6. Corresponds(doc, M, k)
      BY <2>4, <3>5 DEF Corresponds, text, runes
    <3> QED
      BY <2>2, <3>6
  <2>5. CASE ~(Overwritten(doc, k) /\ doc[k].rune # "nl")
    <3>1. PICK m \in 1 .. Len(text) : m = M[k] /\ m = n + 1 /\ m - 1 = n /\ text[m] = runes[k]
      <4>1. M[k] = n + 1 /\ text[M[k]] = runes[k]
        BY <1>4, <2>2, <2>5 DEF n
      <4>2. M[k] \in 1 .. Len(text) /\ M[k] - 1 = n
        BY <1>1, <2>2, <4>1
      <4> QED
        BY <4>1, <4>2
    <3>2. /\ Off(text, m) = Off(text, n) + Bytes(text[m])
          /\ IF text[m] = "nl"
             THEN /\ After(text, m).line = After(text, n).line + 1
                  /\ After(text, m).character = 0
             ELSE /\ After(text, m).line = After(text, n).line
                  /\ After(text, m).character =
                       After(text, n).character + (IF text[m] = "g" THEN 2 ELSE 1)
      BY <1>1, <3>1, OffStep, AfterStep
    <3>3. Off(text, m) = Off(runes, k) /\ After(text, m).line = After(runes, k).line
      BY <2>1, <2>3, <3>1, <3>2
    <3>4. ASSUME \A i \in 1 .. k : After(runes, i).line = After(runes, k).line => ~Overwritten(doc, i)
          PROVE  After(text, m).character = After(runes, k).character
      <4>1. CASE runes[k] = "nl"
        BY <2>3, <3>1, <3>2, <4>1
      <4>2. CASE runes[k] # "nl"
        <5>1. 1 .. (k - 1) \subseteq 1 .. k /\ After(runes, k - 1).line = After(runes, k).line
          BY <2>3, <4>2
        <5>2. After(text, n).character = After(runes, k - 1).character
          BY <2>1, <3>4, <5>1
        <5> QED
          BY <2>3, <3>1, <3>2, <4>2, <5>2
      <4> QED
        BY <4>1, <4>2
    <3>5. Corresponds(doc, M, k)
      BY <3>1, <3>3, <3>4 DEF Corresponds, text, runes
    <3> QED
      BY <2>2, <3>5
  <2> QED
    BY <2>4, <2>5
<1> HIDE DEF I
<1>8. \A i \in 0 .. Len(doc) : i \in I
  BY <1>5, <1>6, <1>7, Induction
<1> QED
  BY <1>8 DEF I

----------------------------------------------------------------------------
(* Literals and synthetic spans.                                            *)

\* A run of runes in tokens of one kind that is as long as it can be.
Run(doc, kind, a, b) ==
  /\ a \in 1 .. Len(doc) /\ b \in 1 .. Len(doc) /\ a <= b
  /\ \A i \in a .. b : Token(doc, i) = kind
  /\ a > 1 => Token(doc, a - 1) # kind
  /\ b < Len(doc) => Token(doc, b + 1) # kind

\* The runes of a literal token: a run of text, or a brace.
LiteralRun(doc, a, b) == Run(doc, "text", a, b) \/ (a = b /\ doc[a].rune = "brace")

SpanOf(doc, a, b) == [start |-> Off(Runes(doc), a - 1), end |-> Off(Runes(doc), b)]

\* At is the offset of a place.
LEMMA AtValue ==
  ASSUME NEW doc \in Seq(Chars), NEW i \in 1 .. Len(doc) + 1
  PROVE  At(doc, i) = Off(Runes(doc), i - 1)
<1> DEFINE n == i - 1
           first == SubSeq(doc, 1, n)
           runes == Runes(doc)
           firstRunes == SubSeq(runes, 1, n)
<1>1. /\ runes \in Seq(TextRunes) /\ Len(runes) = Len(doc)
      /\ \A j \in 1 .. Len(doc) : runes[j] = doc[j].rune
  BY LaidOut
<1>2. n \in 0 .. Len(doc)
  OBVIOUS
<1> HIDE DEF runes, n
<1>3. /\ first \in Seq(Chars) /\ Len(first) = n /\ \A j \in 1 .. n : first[j] = doc[j]
  BY <1>2, InitialPart
<1>4. /\ firstRunes \in Seq(TextRunes) /\ Len(firstRunes) = n
      /\ \A j \in 1 .. n : firstRunes[j] = runes[j]
  BY <1>1, <1>2, InitialPart
<1> HIDE DEF first, firstRunes
<1>5. Runes(first) = firstRunes
  <2>1. DOMAIN first = 1 .. n /\ DOMAIN firstRunes = 1 .. n /\ firstRunes = [j \in 1 .. n |-> firstRunes[j]]
    BY <1>3, <1>4
  <2>2. \A j \in 1 .. n : first[j].rune = firstRunes[j]
    <3>1. \A j \in 1 .. n : j \in 1 .. Len(doc)
      BY <1>2
    <3> QED
      BY <1>1, <1>3, <1>4, <3>1
  <2> QED
    BY <2>1, <2>2 DEF Runes
<1> QED
  BY <1>5 DEF At, Off, first, firstRunes, runes, n

\* Spans are the spans of the runs.
LEMMA SpansValue ==
  ASSUME NEW doc \in Seq(Chars), NEW kind, NEW s
  PROVE  s \in Spans(doc, kind) <=>
           \E a, b \in 1 .. Len(doc) : Run(doc, kind, a, b) /\ s = SpanOf(doc, a, b)
<1>1. DOMAIN doc = 1 .. Len(doc) /\ Len(doc) \in Nat
  OBVIOUS
<1>2. ASSUME NEW a \in 1 .. Len(doc), NEW b \in 1 .. Len(doc)
      PROVE  [start |-> At(doc, a), end |-> At(doc, b + 1)] = SpanOf(doc, a, b)
  <2>1. a \in 1 .. Len(doc) + 1 /\ b + 1 \in 1 .. Len(doc) + 1 /\ b + 1 - 1 = b
    BY <1>1
  <2>2. At(doc, a) = Off(Runes(doc), a - 1) /\ At(doc, b + 1) = Off(Runes(doc), b + 1 - 1)
    BY <2>1, AtValue
  <2> QED
    BY <2>1, <2>2 DEF SpanOf
<1>3. ASSUME NEW r \in (DOMAIN doc) \X (DOMAIN doc)
      PROVE  r[1] \in 1 .. Len(doc) /\ r[2] \in 1 .. Len(doc)
  BY <1>1
<1>4. ASSUME s \in Spans(doc, kind)
      PROVE  \E a, b \in 1 .. Len(doc) : Run(doc, kind, a, b) /\ s = SpanOf(doc, a, b)
  <2>1. PICK r \in (DOMAIN doc) \X (DOMAIN doc) :
          /\ r[1] <= r[2]
          /\ \A i \in r[1] .. r[2] : Token(doc, i) = kind
          /\ r[1] > 1 => Token(doc, r[1] - 1) # kind
          /\ r[2] < Len(doc) => Token(doc, r[2] + 1) # kind
          /\ s = [start |-> At(doc, r[1]), end |-> At(doc, r[2] + 1)]
    BY <1>4 DEF Spans
  <2>2. Run(doc, kind, r[1], r[2])
    BY <1>3, <2>1 DEF Run
  <2>3. s = SpanOf(doc, r[1], r[2])
    BY <1>2, <1>3, <2>1
  <2> QED
    BY <1>3, <2>2, <2>3
<1>5. ASSUME NEW a \in 1 .. Len(doc), NEW b \in 1 .. Len(doc),
             Run(doc, kind, a, b), s = SpanOf(doc, a, b)
      PROVE  s \in Spans(doc, kind)
  <2> DEFINE r == <<a, b>>
  <2>1. r \in (DOMAIN doc) \X (DOMAIN doc) /\ r[1] = a /\ r[2] = b
    BY <1>1
  <2> HIDE DEF r
  <2>2. s = [start |-> At(doc, r[1]), end |-> At(doc, r[2] + 1)]
    BY <1>2, <1>5, <2>1
  <2> QED
    BY <1>5, <2>1, <2>2 DEF Spans, Run
<1> QED
  BY <1>4, <1>5
\* Runes of one kind are in a run of that kind.
LEMMA RunAround ==
  ASSUME NEW doc \in Seq(Chars), NEW kind, NEW i \in 1 .. Len(doc), NEW j \in 1 .. Len(doc),
         i <= j, \A k \in i .. j : Token(doc, k) = kind
  PROVE  \E a, b \in 1 .. Len(doc) : Run(doc, kind, a, b) /\ a <= i /\ j <= b
<1> DEFINE n == Len(doc)
           A == {x \in 1 .. i : \A k \in x .. i : Token(doc, k) = kind}
           B == {y \in j .. n : \A k \in j .. y : Token(doc, k) = kind}
<1>1. n \in Nat
  OBVIOUS
<1>2. PICK a \in A : \A x \in A : a <= x
  <2>1. i \in A /\ A \in SUBSET Nat
    OBVIOUS
  <2> HIDE DEF A
  <2> QED
    BY <2>1, LeastNatural
<1>3. PICK b \in B : \A y \in B : y <= b
  <2>1. j \in B /\ B \in SUBSET (0 .. n)
    BY <1>1
  <2> HIDE DEF B
  <2>2. Max(B) \in B /\ \A y \in B : y <= Max(B)
    BY <1>1, <2>1, MaxOfSet
  <2> QED
    BY <2>2
<1>4. /\ a \in 1 .. n /\ b \in 1 .. n /\ a <= i /\ j <= b
  BY <1>1
<1>5. \A k \in a .. b : Token(doc, k) = kind
  <2>1. \A k \in a .. b : k \in a .. i \/ k \in i .. j \/ k \in j .. b
    BY <1>4
  <2> QED
    BY <2>1
<1>6. ASSUME a > 1, Token(doc, a - 1) = kind
      PROVE  FALSE
  <2>1. \A k \in (a - 1) .. i : k = a - 1 \/ k \in a .. i
    BY <1>4
  <2>2. a - 1 \in 1 .. i
    BY <1>4, <1>6
  <2>3. a - 1 \in A
    BY <1>6, <2>1, <2>2
  <2>4. a <= a - 1
    <3> HIDE DEF A
    <3> QED
      BY <1>2, <2>3
  <2> QED
    BY <1>4, <2>4
<1>7. ASSUME b < n, Token(doc, b + 1) = kind
      PROVE  FALSE
  <2>1. \A k \in j .. (b + 1) : k = b + 1 \/ k \in j .. b
    BY <1>4
  <2>2. b + 1 \in j .. n
    BY <1>1, <1>4, <1>7
  <2>3. b + 1 \in B
    BY <1>7, <2>1, <2>2
  <2>4. b + 1 <= b
    <3> HIDE DEF B
    <3> QED
      BY <1>3, <2>3
  <2> QED
    BY <1>4, <2>4
<1>8. Run(doc, kind, a, b)
  BY <1>4, <1>5, <1>6, <1>7 DEF Run
<1> QED
  BY <1>4, <1>8

\* Literals are the spans of the tokens.
LEMMA LiteralsValue ==
  ASSUME NEW doc \in Seq(Chars), NEW s
  PROVE  s \in Literals(doc) <=>
           \E a, b \in 1 .. Len(doc) : LiteralRun(doc, a, b) /\ s = SpanOf(doc, a, b)
<1> DEFINE Braces == {[start |-> At(doc, i), end |-> At(doc, i + 1)] :
                        i \in {j \in DOMAIN doc : doc[j].rune = "brace"}}
<1>1. DOMAIN doc = 1 .. Len(doc) /\ Len(doc) \in Nat
  OBVIOUS
<1>2. ASSUME NEW i \in 1 .. Len(doc)
      PROVE  [start |-> At(doc, i), end |-> At(doc, i + 1)] = SpanOf(doc, i, i)
  <2>1. i \in 1 .. Len(doc) + 1 /\ i + 1 \in 1 .. Len(doc) + 1 /\ i + 1 - 1 = i
    BY <1>1
  <2>2. At(doc, i) = Off(Runes(doc), i - 1) /\ At(doc, i + 1) = Off(Runes(doc), i + 1 - 1)
    BY <2>1, AtValue
  <2> QED
    BY <2>1, <2>2 DEF SpanOf
<1>3. s \in Braces <=> \E i \in 1 .. Len(doc) : doc[i].rune = "brace" /\ s = SpanOf(doc, i, i)
  BY <1>1, <1>2
<1>4. s \in Literals(doc) <=> s \in Spans(doc, "text") \/ s \in Braces
  BY DEF Literals
<1> HIDE DEF Braces
<1> QED
  BY <1>3, <1>4, SpansValue DEF LiteralRun

LEMMA LiteralsAreText ==
  ASSUME NEW doc \in Seq(Chars), NEW a \in 1 .. Len(doc), NEW b \in 1 .. Len(doc),
         LiteralRun(doc, a, b)
  PROVE  a <= b /\ \A i \in a .. b : doc[i].part = "text"
<1>1. CASE Run(doc, "text", a, b)
  BY <1>1 DEF Run, Token
<1>2. CASE a = b /\ doc[a].rune = "brace"
  <2>1. doc[a].part = "text" /\ a <= b
    BY <1>2, CharValues
  <2> QED
    BY <1>2, <2>1
<1> QED
  BY <1>1, <1>2 DEF LiteralRun

\* Runes of literal text, of which none is a brace or which are one rune, are in
\* one token.
LEMMA TokenAround ==
  ASSUME NEW doc \in Seq(Chars), NEW i \in 1 .. Len(doc), NEW j \in 1 .. Len(doc), i <= j,
         \A k \in i .. j : doc[k].part = "text",
         i < j => \A k \in i .. j : doc[k].rune # "brace"
  PROVE  \E a, b \in 1 .. Len(doc) : LiteralRun(doc, a, b) /\ a <= i /\ j <= b
<1>1. CASE \A k \in i .. j : doc[k].rune # "brace"
  <2>1. \A k \in i .. j : Token(doc, k) = "text"
    BY <1>1 DEF Token
  <2> QED
    BY <2>1, RunAround DEF LiteralRun
<1>2. CASE ~ \A k \in i .. j : doc[k].rune # "brace"
  <2>1. i = j /\ doc[i].rune = "brace"
    BY <1>2
  <2> QED
    BY <2>1 DEF LiteralRun
<1> QED
  BY <1>1, <1>2

\* The runes of a synthetic span are overwritten, and every rune that is
\* overwritten is in one.
LEMMA SyntheticValue ==
  ASSUME NEW doc \in Seq(Chars)
  PROVE  /\ \A s \in Synthetic(doc) : \E a, b \in 1 .. Len(doc) :
              /\ a <= b /\ s = SpanOf(doc, a, b)
              /\ \A k \in a .. b : Overwritten(doc, k)
         /\ \A k \in 1 .. Len(doc) : Overwritten(doc, k) =>
              \E a, b \in 1 .. Len(doc) : a <= k /\ k <= b /\ SpanOf(doc, a, b) \in Synthetic(doc)
<1>1. DOMAIN doc = 1 .. Len(doc) /\ Selectors(doc) \subseteq 1 .. Len(doc)
  <2>1. DOMAIN doc = 1 .. Len(doc)
    OBVIOUS
  <2> QED
    BY <2>1 DEF Selectors
<1>2. ASSUME NEW k \in Selectors(doc)
      PROVE  [start |-> At(doc, k), end |-> At(doc, k) + 1] = SpanOf(doc, k, k)
  <2>1. k \in 1 .. Len(doc) /\ doc[k].rune = "$"
    BY <1>1, CharValues
  <2>2. k \in 1 .. Len(doc) + 1
    BY <2>1
  <2>3. At(doc, k) = Off(Runes(doc), k - 1)
    BY <2>2, AtValue
  <2>4. Runes(doc) \in Seq(TextRunes) /\ k \in 1 .. Len(Runes(doc)) /\ Runes(doc)[k] = "$"
    BY <2>1, LaidOut
  <2>5. Off(Runes(doc), k) = Off(Runes(doc), k - 1) + 1
    BY <2>4, OffStep DEF Bytes
  <2> QED
    BY <2>3, <2>5 DEF SpanOf
<1>3. ASSUME NEW s \in Synthetic(doc)
      PROVE  \E a, b \in 1 .. Len(doc) :
               a <= b /\ s = SpanOf(doc, a, b) /\ \A k \in a .. b : Overwritten(doc, k)
  <2>1. CASE s \in Spans(doc, "action")
    <3>1. PICK a, b \in 1 .. Len(doc) : Run(doc, "action", a, b) /\ s = SpanOf(doc, a, b)
      BY <2>1, SpansValue
    <3>2. \A k \in a .. b : doc[k].part = "action"
      BY <3>1 DEF Run, Token
    <3> QED
      BY <3>1, <3>2 DEF Run, Overwritten
  <2>2. CASE s \notin Spans(doc, "action")
    <3>1. PICK k \in Selectors(doc) : s = [start |-> At(doc, k), end |-> At(doc, k) + 1]
      BY <2>2 DEF Synthetic
    <3>2. k \in 1 .. Len(doc) /\ s = SpanOf(doc, k, k) /\ \A x \in k .. k : x = k
      BY <1>1, <1>2, <3>1
    <3> QED
      BY <3>2 DEF Overwritten
  <2> QED
    BY <2>1, <2>2
<1>4. ASSUME NEW k \in 1 .. Len(doc), Overwritten(doc, k)
      PROVE  \E a, b \in 1 .. Len(doc) : a <= k /\ k <= b /\ SpanOf(doc, a, b) \in Synthetic(doc)
  <2>1. CASE doc[k].part = "action"
    <3>1. k <= k /\ \A x \in k .. k : Token(doc, x) = "action"
      <4>1. doc[k].rune # "brace"
        BY <2>1, CharValues
      <4> QED
        BY <2>1, <4>1 DEF Token
    <3>2. PICK a, b \in 1 .. Len(doc) : Run(doc, "action", a, b) /\ a <= k /\ k <= b
      BY <3>1, RunAround
    <3>3. SpanOf(doc, a, b) \in Spans(doc, "action")
      BY <3>2, SpansValue
    <3> QED
      BY <3>2, <3>3 DEF Synthetic
  <2>2. CASE doc[k].part # "action"
    <3>1. k \in Selectors(doc) /\ k <= k
      BY <1>4, <2>2 DEF Overwritten
    <3>2. SpanOf(doc, k, k) \in Synthetic(doc)
      BY <1>2, <3>1 DEF Synthetic
    <3> QED
      BY <3>1, <3>2
  <2> QED
    BY <2>1, <2>2
<1> QED
  BY <1>3, <1>4

\* A place of the document has its line in the projection too.
LEMMA SameLine ==
  ASSUME NEW doc \in Seq(Chars), NEW n \in 0 .. Len(doc)
  PROVE  Position(ProjectedText(doc), Off(Runes(doc), n)).line = After(Runes(doc), n).line
<1>1. PICK M : Layout(doc, M)
  BY LaidOut
<1>2. /\ Off(ProjectedText(doc), M[n]) = Off(Runes(doc), n)
      /\ After(ProjectedText(doc), M[n]).line = After(Runes(doc), n).line
  BY <1>1, AllCorrespond DEF Corresponds
<1>3. M[n] \in 0 .. Len(ProjectedText(doc)) /\ ProjectedText(doc) \in Seq(TextRunes)
  BY <1>1, WithinLayout, LaidOut
<1>4. Position(ProjectedText(doc), Off(ProjectedText(doc), M[n])) = After(ProjectedText(doc), M[n])
  BY <1>3, PlaceOf
<1> QED
  BY <1>2, <1>4

\* Where the lines of a diagnostic are literal, nothing that touches them is
\* overwritten.
LEMMA LiteralLines ==
  ASSUME NEW doc \in Seq(Chars), NEW d, LinesAreLiteral(MakeProjection(doc), d),
         d.start.line \in Nat, d.end.line \in Nat,
         NEW k \in 1 .. Len(doc), Overwritten(doc, k)
  PROVE  ~(/\ After(Runes(doc), k - 1).line <= d.end.line
           /\ After(Runes(doc), k).line >= d.start.line)
<1> DEFINE runes == Runes(doc)
           text == ProjectedText(doc)
<1>1. PICK a, b \in 1 .. Len(doc) : a <= k /\ k <= b /\ SpanOf(doc, a, b) \in Synthetic(doc)
  BY SyntheticValue
<1>2. ~(/\ Position(text, SpanOf(doc, a, b).start).line <= d.end.line
        /\ Position(text, SpanOf(doc, a, b).end).line >= d.start.line)
  BY <1>1 DEF LinesAreLiteral, MakeProjection
<1>3. /\ a - 1 \in 0 .. Len(doc) /\ b \in 0 .. Len(doc) /\ k - 1 \in 0 .. Len(doc)
      /\ k \in 0 .. Len(doc) /\ a - 1 <= k - 1
  BY <1>1
<1>4. /\ Position(text, SpanOf(doc, a, b).start).line = After(runes, a - 1).line
      /\ Position(text, SpanOf(doc, a, b).end).line = After(runes, b).line
  BY <1>3, SameLine DEF SpanOf
<1>5. runes \in Seq(TextRunes) /\ Len(runes) = Len(doc)
  BY LaidOut
<1> HIDE DEF runes
<1>6. After(runes, a - 1).line <= After(runes, k - 1).line /\ After(runes, k).line <= After(runes, b).line
  BY <1>1, <1>3, <1>5, AfterGrows
<1>7. /\ After(runes, a - 1).line \in Nat /\ After(runes, k - 1).line \in Nat
      /\ After(runes, k).line \in Nat /\ After(runes, b).line \in Nat
  BY <1>3, <1>5, AfterStep
<1>8. ~(/\ After(runes, k - 1).line <= d.end.line /\ After(runes, k).line >= d.start.line)
  <2> DEFINE line(n) == After(runes, n).line
             low == d.start.line
             high == d.end.line
  <2>1. ~(line(a - 1) <= high /\ line(b) >= low)
    BY <1>2, <1>4
  <2>2. line(a - 1) <= line(k - 1) /\ line(k) <= line(b)
    BY <1>6
  <2>3. /\ line(a - 1) \in Nat /\ line(k - 1) \in Nat /\ line(k) \in Nat /\ line(b) \in Nat
        /\ low \in Nat /\ high \in Nat
    BY <1>7
  <2>4. ~(line(k - 1) <= high /\ line(k) >= low)
    <3> HIDE DEF line, low, high
    <3> QED
      BY <2>1, <2>2, <2>3
  <2> QED
    BY <2>4
<1> QED
  BY <1>8 DEF runes
Places == [line : Nat, character : Nat]

\* A position is a line and a character.
LEMMA AfterIsPlace ==
  ASSUME NEW S, NEW runes \in Seq(S), NEW n \in 0 .. Len(runes)
  PROVE  After(runes, n) \in Places
<1>1. After(runes, n).line \in Nat /\ After(runes, n).character \in Nat
  BY AfterStep
<1>2. After(runes, n) = [line |-> After(runes, n).line, character |-> After(runes, n).character]
  BY DEF After
<1> QED
  BY <1>1, <1>2 DEF Places

\* The ends of a diagnostic's range: exactly there, or the end of a line passed.
EndsAt(runes, pos, n) ==
  /\ After(runes, n).line = pos.line
  /\ \/ After(runes, n) = pos
     \/ n \in LineEnds(runes) /\ After(runes, n).character < pos.character

\* What byteOffset and clampEndOfLine make of the end of a range.
LEMMA EndOffsetValue ==
  ASSUME NEW S, NEW runes \in Seq(S), NEW pos \in Places, NEW o \in EndOffset(runes, pos)
  PROVE  \E n \in 0 .. Len(runes) : o = Off(runes, n) /\ EndsAt(runes, pos, n)
<1>1. CASE ByteOffset(runes, pos) # {}
  <2>1. o \in ByteOffset(runes, pos)
    BY <1>1 DEF EndOffset
  <2>2. PICK n \in 0 .. Len(runes) : After(runes, n) = pos /\ o = Off(runes, n)
    BY <2>1 DEF ByteOffset, Off
  <2> QED
    BY <2>2 DEF EndsAt
<1>2. CASE ByteOffset(runes, pos) = {}
  <2>1. o \in ClampEndOfLine(runes, pos)
    BY <1>2 DEF EndOffset
  <2>2. PICK n \in LineEnds(runes) : /\ After(runes, n).line = pos.line
                                     /\ pos.character >= After(runes, n).character
                                     /\ o = Off(runes, n)
    BY <2>1 DEF ClampEndOfLine, Off
  <2>3. n \in 0 .. Len(runes)
    BY DEF LineEnds
  <2>4. After(runes, n) # pos
    BY <1>2, <2>3 DEF ByteOffset
  <2>5. After(runes, n) \in Places
    BY <2>3, AfterIsPlace
  <2>6. After(runes, n).character # pos.character
    BY <2>2, <2>4, <2>5 DEF Places
  <2>7. After(runes, n).character < pos.character
    BY <2>2, <2>5, <2>6 DEF Places
  <2> QED
    BY <2>2, <2>3, <2>7 DEF EndsAt
<1> QED
  BY <1>1, <1>2

TextOnly(doc, a, b) == b \in a .. Len(doc) /\ \A i \in a .. b : doc[i].part = "text"

\* Within a literal the projection has one rune for each of the document's.
LEMMA InsideLiteral ==
  ASSUME NEW doc \in Seq(Chars), NEW M, Layout(doc, M), NEW a \in 1 .. Len(doc),
         NEW b, TextOnly(doc, a, b)
  PROVE  \A i \in a .. b : M[i] = M[a - 1] + (i - (a - 1))
<1>0. b \in a .. Len(doc) /\ \A i \in a .. b : doc[i].part = "text"
  BY DEF TextOnly
<1> DEFINE n == b - (a - 1)
           I == {x \in 0 .. n : M[a - 1 + x] = M[a - 1] + x}
<1>1. n \in Nat
  BY <1>0
<1>2. \A i \in a .. b : M[i] = M[i - 1] + 1
  <2>1. ASSUME NEW i \in a .. b
        PROVE  M[i] = M[i - 1] + 1
    <3>1. i \in 1 .. Len(doc) /\ doc[i].part = "text"
      BY <1>0
    <3>2. i \in Selectors(doc) => Bytes(doc[i].rune) = 1
      BY <3>1, CharValues DEF Bytes
    <3>3. Overwritten(doc, i) => i \in Selectors(doc)
      BY <3>1 DEF Overwritten
    <3> QED
      BY <3>1, <3>2, <3>3 DEF Layout
  <2> QED
    BY <2>1
<1>3. \A i \in 0 .. Len(doc) : M[i] \in Nat
  BY DEF Layout
<1>4. 0 \in I
  <2>1. a - 1 + 0 = a - 1 /\ a - 1 \in 0 .. Len(doc)
    BY <1>0
  <2>2. M[a - 1] \in Nat
    BY <1>3, <2>1
  <2>3. M[a - 1 + 0] = M[a - 1] + 0
    BY <2>1, <2>2
  <2> QED
    BY <1>1, <2>3
<1>5. ASSUME NEW x \in 1 .. n, x - 1 \in I
      PROVE  x \in I
  <2>1. /\ a - 1 + x \in a .. b /\ a - 1 + x - 1 = a - 1 + (x - 1)
        /\ a - 1 \in 0 .. Len(doc)
    BY <1>0
  <2>2. M[a - 1 + x] = M[a - 1 + x - 1] + 1
    BY <1>2, <2>1
  <2>3. M[a - 1 + (x - 1)] = M[a - 1] + (x - 1)
    BY <1>5
  <2>4. M[a - 1] \in Nat
    BY <1>3, <2>1
  <2>5. M[a - 1 + x] = M[a - 1] + (x - 1) + 1
    BY <2>1, <2>2, <2>3
  <2>6. M[a - 1 + x] = M[a - 1] + x
    BY <2>4, <2>5
  <2> QED
    BY <2>6
<1> HIDE DEF I
<1>6. \A x \in 0 .. n : x \in I
  BY <1>1, <1>4, <1>5, Induction
<1>7. ASSUME NEW i \in a .. b
      PROVE  M[i] = M[a - 1] + (i - (a - 1))
  <2>1. i - (a - 1) \in 0 .. n /\ a - 1 + (i - (a - 1)) = i
    BY <1>0
  <2>2. i - (a - 1) \in I
    BY <1>6, <2>1
  <2> QED
    BY <2>1, <2>2 DEF I
<1> QED
  BY <1>7

\* An offset between the ends of a literal is that of a place in the document.
LEMMA PlaceInLiteral ==
  ASSUME NEW doc \in Seq(Chars), NEW M, Layout(doc, M), NEW a \in 1 .. Len(doc),
         NEW b, TextOnly(doc, a, b),
         NEW m \in 0 .. Len(ProjectedText(doc)),
         Off(Runes(doc), a - 1) <= Off(ProjectedText(doc), m),
         Off(ProjectedText(doc), m) <= Off(Runes(doc), b)
  PROVE  \E n \in (a - 1) .. b : m = M[n]
<1> DEFINE text == ProjectedText(doc)
<1>1. a - 1 \in 0 .. Len(doc) /\ b \in 0 .. Len(doc) /\ b \in a .. b /\ b \in Int
  BY DEF TextOnly
<1>2. text \in Seq(TextRunes) /\ M[a - 1] \in 0 .. Len(text) /\ M[b] \in 0 .. Len(text)
  BY <1>1, LaidOut, WithinLayout
<1>3. Off(text, M[a - 1]) <= Off(text, m) /\ Off(text, m) <= Off(text, M[b])
  BY <1>1, AllCorrespond DEF Corresponds
<1> HIDE DEF text
<1>4. Off(text, M[a - 1]) \in Nat /\ Off(text, m) \in Nat /\ Off(text, M[b]) \in Nat
  BY <1>2, OffStep DEF text
<1>5. M[a - 1] <= m /\ m <= M[b]
  <2>1. m \in 0 .. Len(text)
    BY DEF text
  <2>2. m < M[a - 1] => Off(text, m) < Off(text, M[a - 1])
    BY <1>2, <2>1, OffGrows
  <2>3. M[b] < m => Off(text, M[b]) < Off(text, m)
    BY <1>2, <2>1, OffGrows
  <2> QED
    BY <1>2, <1>3, <1>4, <2>1, <2>2, <2>3
<1>6. \A i \in a .. b : M[i] = M[a - 1] + (i - (a - 1))
  BY InsideLiteral
<1> DEFINE n == m - M[a - 1] + (a - 1)
<1>7. M[b] = M[a - 1] + (b - (a - 1))
  BY <1>1, <1>6
<1>8. n \in (a - 1) .. b
  BY <1>1, <1>2, <1>5, <1>7
<1>9. CASE n = a - 1
  <2>1. m = M[a - 1]
    BY <1>2, <1>9
  <2> QED
    BY <1>8, <1>9, <2>1
<1>10. CASE n # a - 1
  <2>1. n \in a .. b
    BY <1>8, <1>10
  <2>2. M[n] = M[a - 1] + (n - (a - 1))
    <3> HIDE DEF n
    <3> QED
      BY <1>6, <2>1
  <2>3. m = M[n]
    BY <1>2, <2>2
  <2> HIDE DEF n
  <2> QED
    BY <1>8, <2>3
<1> QED
  BY <1>9, <1>10
----------------------------------------------------------------------------
(* What it means that a diagnostic is shown.                                *)

\* The diagnostic d is shown at the runes from + 1 .. to of the document.
ShownAt(doc, M, d, range, from, to) ==
  LET text == ProjectedText(doc)
      runes == Runes(doc)
  IN /\ MakeProjection(doc).safe
     /\ from < to /\ \A k \in (from + 1) .. to : doc[k].part = "text" /\ ~Overwritten(doc, k)
     /\ \A n \in from .. to : M[n] = M[from] + (n - from)
     /\ range = [start |-> After(runes, from), end |-> After(runes, to)]
     /\ d.start = After(text, M[from]) /\ EndsAt(text, d.end, M[to])
     /\ \A k \in 1 .. Len(doc) : Overwritten(doc, k) =>
          ~(/\ After(runes, k - 1).line <= After(runes, to).line
            /\ After(runes, k).line >= After(runes, from).line)

\* A diagnostic that mapDiagnostic does not withhold is shown so.
LEMMA Shown ==
  ASSUME NEW doc \in Seq(Chars), NEW M, Layout(doc, M),
         NEW d \in [start : Places, end : Places],
         NEW range \in MapDiagnostic(MakeProjection(doc), d)
  PROVE  \E from, to \in 0 .. Len(doc) : ShownAt(doc, M, d, range, from, to)
<1> DEFINE p == MakeProjection(doc)
           text == ProjectedText(doc)
           runes == Runes(doc)
<1>1. p.source = runes /\ p.text = text /\ p.literals = Literals(doc) /\ p.synthetic = Synthetic(doc)
  BY DEF MakeProjection
<1>2. p.safe /\ \E o \in ByteOffset(text, d.start) \X EndOffset(text, d.end) :
        /\ InLiteral(p, o[1], o[2]) /\ LinesAreLiteral(p, d)
        /\ range = [start |-> Position(runes, o[1]), end |-> Position(runes, o[2])]
  <2>1. range \in MapDiagnostic(p, d)
    OBVIOUS
  <2> HIDE DEF p, text, runes
  <2>2. p.safe
    BY <2>1 DEF MapDiagnostic
  <2>3. range \in Mapped(p, {o \in ByteOffset(text, d.start) \X EndOffset(text, d.end) :
                               InLiteral(p, o[1], o[2]) /\ LinesAreLiteral(p, d)})
    BY <1>1, <2>1, <2>2 DEF MapDiagnostic
  <2>4. PICK o \in {o \in ByteOffset(text, d.start) \X EndOffset(text, d.end) :
                       InLiteral(p, o[1], o[2]) /\ LinesAreLiteral(p, d)} :
          range = [start |-> Position(p.source, o[1]), end |-> Position(p.source, o[2])]
    BY <2>3 DEF Mapped
  <2> QED
    BY <1>1, <2>2, <2>4
<1>3. PICK o \in ByteOffset(text, d.start) \X EndOffset(text, d.end) :
        /\ InLiteral(p, o[1], o[2]) /\ LinesAreLiteral(p, d)
        /\ range = [start |-> Position(runes, o[1]), end |-> Position(runes, o[2])]
  BY <1>2
<1>4. /\ text \in Seq(TextRunes) /\ runes \in Seq(TextRunes) /\ Len(runes) = Len(doc)
      /\ Len(doc) \in Nat
  BY LaidOut
<1>5. d.start \in Places /\ d.end \in Places
  OBVIOUS
<1>6. PICK m1 \in 0 .. Len(text) : o[1] = Off(text, m1) /\ After(text, m1) = d.start
  <2>1. o[1] \in ByteOffset(text, d.start)
    BY <1>3
  <2> QED
    BY <2>1 DEF ByteOffset, Off
<1>7. PICK m2 \in 0 .. Len(text) : o[2] = Off(text, m2) /\ EndsAt(text, d.end, m2)
  <2>1. o[2] \in EndOffset(text, d.end)
    BY <1>3
  <2> HIDE DEF text
  <2> QED
    BY <1>4, <1>5, <2>1, EndOffsetValue
<1>8. PICK a, b \in 1 .. Len(doc) :
        /\ LiteralRun(doc, a, b)
        /\ o[1] >= Off(runes, a - 1) /\ o[2] <= Off(runes, b) /\ o[1] < o[2]
  <2>1. PICK s \in Literals(doc) : o[1] >= s.start /\ o[2] <= s.end /\ o[1] < o[2]
    BY <1>1, <1>3 DEF InLiteral
  <2>2. PICK a, b \in 1 .. Len(doc) : LiteralRun(doc, a, b) /\ s = SpanOf(doc, a, b)
    BY LiteralsValue
  <2> QED
    BY <2>1, <2>2 DEF SpanOf
<1>9. TextOnly(doc, a, b) /\ \A i \in a .. b : doc[i].part = "text"
  <2>1. a <= b /\ \A i \in a .. b : doc[i].part = "text"
    BY <1>8, LiteralsAreText
  <2> QED
    BY <2>1 DEF TextOnly
<1>10. /\ a - 1 \in 0 .. Len(doc) /\ b \in 0 .. Len(doc)
       /\ Off(runes, a - 1) \in Nat /\ Off(runes, b) \in Nat
       /\ Off(text, m1) \in Nat /\ Off(text, m2) \in Nat
  <2>1. a - 1 \in 0 .. Len(doc) /\ b \in 0 .. Len(doc)
    OBVIOUS
  <2> HIDE DEF text, runes
  <2> QED
    BY <1>4, <2>1, OffStep
<1>11. PICK from \in (a - 1) .. b : m1 = M[from]
  <2>1. Off(runes, a - 1) <= Off(text, m1) /\ Off(text, m1) <= Off(runes, b)
    <3> HIDE DEF text, runes
    <3> QED
      BY <1>6, <1>7, <1>8, <1>10
  <2> QED
    BY <1>9, <2>1, PlaceInLiteral
<1>12. PICK to \in (a - 1) .. b : m2 = M[to]
  <2>1. Off(runes, a - 1) <= Off(text, m2) /\ Off(text, m2) <= Off(runes, b)
    <3> HIDE DEF text, runes
    <3> QED
      BY <1>6, <1>7, <1>8, <1>10
  <2> QED
    BY <1>9, <2>1, PlaceInLiteral
<1>13. /\ from \in 0 .. Len(doc) /\ to \in 0 .. Len(doc)
       /\ o[1] = Off(runes, from) /\ o[2] = Off(runes, to)
       /\ After(text, m1).line = After(runes, from).line
       /\ After(text, m2).line = After(runes, to).line
  <2>1. from \in 0 .. Len(doc) /\ to \in 0 .. Len(doc)
    OBVIOUS
  <2>2. Corresponds(doc, M, from) /\ Corresponds(doc, M, to)
    BY <2>1, AllCorrespond
  <2> QED
    BY <1>6, <1>7, <1>11, <1>12, <2>1, <2>2 DEF Corresponds
<1>14. range = [start |-> After(runes, from), end |-> After(runes, to)]
  <2>1. Position(runes, o[1]) = After(runes, from) /\ Position(runes, o[2]) = After(runes, to)
    <3> HIDE DEF runes
    <3> QED
      BY <1>4, <1>13, PlaceOf
  <2> QED
    BY <1>3, <2>1
<1>15. from < to
  <2> HIDE DEF runes
  <2>1. /\ Off(runes, from) < Off(runes, to)
        /\ Off(runes, from) \in Nat /\ Off(runes, to) \in Nat
    BY <1>4, <1>8, <1>13, OffStep
  <2>2. to < from => Off(runes, to) < Off(runes, from)
    BY <1>4, <1>13, OffGrows
  <2> QED
    BY <1>13, <2>1, <2>2
<1>16. /\ d.start.line = After(runes, from).line /\ d.end.line = After(runes, to).line
       /\ d.start.line \in Nat /\ d.end.line \in Nat
  BY <1>5, <1>6, <1>7, <1>13 DEF EndsAt, Places
<1>17. ASSUME NEW k \in 1 .. Len(doc), Overwritten(doc, k)
       PROVE  ~(/\ After(runes, k - 1).line <= After(runes, to).line
                /\ After(runes, k).line >= After(runes, from).line)
  <2>1. ~(/\ After(runes, k - 1).line <= d.end.line /\ After(runes, k).line >= d.start.line)
    BY <1>3, <1>16, <1>17, LiteralLines
  <2> QED
    BY <1>16, <2>1
<1>18. ASSUME NEW k \in (from + 1) .. to
       PROVE  doc[k].part = "text" /\ ~Overwritten(doc, k)
  <2>1. /\ k \in a .. b /\ k \in 1 .. Len(doc) /\ k - 1 \in 0 .. Len(doc) /\ k \in 0 .. Len(doc)
        /\ k - 1 <= to /\ from <= k
    OBVIOUS
  <2> HIDE DEF runes
  <2>2. /\ After(runes, k - 1).line <= After(runes, to).line
        /\ After(runes, from).line <= After(runes, k).line
    BY <1>4, <1>13, <2>1, AfterGrows
  <2>3. After(runes, from).line \in Nat /\ After(runes, k).line \in Nat
    BY <1>4, <1>13, <2>1, AfterStep
  <2> QED
    BY <1>9, <1>17, <2>1, <2>2, <2>3
<1>19. ASSUME NEW n \in from .. to
       PROVE  M[n] = M[from] + (n - from)
  <2>1. ASSUME NEW i \in (a - 1) .. b
        PROVE  M[i] = M[a - 1] + (i - (a - 1))
    <3>1. CASE i = a - 1
      <4>1. M[a - 1] \in Nat
        BY <1>10, WithinLayout
      <4> QED
        BY <3>1, <4>1
    <3>2. CASE i # a - 1
      <4>1. i \in a .. b
        BY <3>2
      <4> QED
        BY <1>9, <4>1, InsideLiteral
    <3> QED
      BY <3>1, <3>2
  <2>2. n \in (a - 1) .. b /\ from \in (a - 1) .. b /\ M[a - 1] \in Nat
    <3>1. M[a - 1] \in Nat
      BY <1>10, WithinLayout
    <3> QED
      BY <3>1
  <2>3. M[n] = M[a - 1] + (n - (a - 1)) /\ M[from] = M[a - 1] + (from - (a - 1))
    BY <2>1, <2>2
  <2> QED
    BY <2>2, <2>3
<1>20. ShownAt(doc, M, d, range, from, to)
  BY <1>2, <1>6, <1>7, <1>11, <1>12, <1>14, <1>15, <1>17, <1>18, <1>19 DEF ShownAt
<1> QED
  BY <1>13, <1>20
\* Lines end at the same places in both texts.
LEMMA LineEndsCorrespond ==
  ASSUME NEW doc \in Seq(Chars), NEW M, Layout(doc, M), NEW n \in 0 .. Len(doc)
  PROVE  M[n] \in LineEnds(ProjectedText(doc)) <=> n \in LineEnds(Runes(doc))
<1> DEFINE text == ProjectedText(doc)
           runes == Runes(doc)
<1>1. /\ text \in Seq(TextRunes) /\ runes \in Seq(TextRunes)
      /\ Len(runes) = Len(doc) /\ \A i \in 1 .. Len(doc) : runes[i] = doc[i].rune
      /\ Len(doc) \in Nat /\ Len(text) \in Nat /\ Len(text) = M[Len(doc)]
  BY LaidOut DEF Layout
<1>2. M[n] \in 0 .. Len(text) /\ (n < Len(doc) => M[n] < Len(text))
  <2>1. Len(doc) \in 0 .. Len(doc)
    BY <1>1
  <2> QED
    BY <1>1, <2>1, WithinLayout
<1>3. /\ M[n] \in LineEnds(text) <=> M[n] = Len(text) \/ text[M[n] + 1] = "nl"
      /\ n \in LineEnds(runes) <=> n = Len(doc) \/ runes[n + 1] = "nl"
  BY <1>1, <1>2 DEF LineEnds
<1>4. ASSUME n < Len(doc)
      PROVE  text[M[n] + 1] = "nl" <=> runes[n + 1] = "nl"
  <2>1. n + 1 \in Int
    OBVIOUS
  <2>2. PICK k \in Int : k = n + 1
    BY <2>1
  <2>3. k \in 1 .. Len(doc) /\ k - 1 = n
    BY <1>1, <1>4, <2>2
  <2>4. CASE Overwritten(doc, k) /\ doc[k].rune # "nl"
    <3>1. 1 \in 1 .. Bytes(doc[k].rune)
      BY DEF Bytes
    <3>2. text[M[n] + 1] = "blank"
      BY <2>3, <2>4, <3>1 DEF Layout
    <3> QED
      BY <1>1, <2>2, <2>3, <2>4, <3>2
  <2>5. CASE ~(Overwritten(doc, k) /\ doc[k].rune # "nl")
    <3>1. M[k] = M[n] + 1 /\ text[M[k]] = doc[k].rune
      BY <2>3, <2>5 DEF Layout
    <3> QED
      BY <1>1, <2>2, <2>3, <3>1
  <2> QED
    BY <2>4, <2>5
<1> HIDE DEF text, runes
<1>5. M[n] \in LineEnds(text) <=> n \in LineEnds(runes)
  <2>1. CASE n = Len(doc)
    BY <1>1, <1>3, <2>1
  <2>2. CASE n # Len(doc)
    <3>1. n < Len(doc)
      BY <1>1, <2>2
    <3> QED
      BY <1>1, <1>2, <1>3, <1>4, <2>2, <3>1
  <2> QED
    BY <2>1, <2>2
<1> QED
  BY <1>5 DEF text, runes

\* Where nothing before a place is overwritten on its line, the projection has
\* the same position there.
LEMMA SamePosition ==
  ASSUME NEW doc \in Seq(Chars), NEW M, Layout(doc, M), NEW n \in 0 .. Len(doc),
         \A k \in 1 .. n :
           After(Runes(doc), k).line = After(Runes(doc), n).line => ~Overwritten(doc, k)
  PROVE  After(ProjectedText(doc), M[n]) = After(Runes(doc), n)
<1> DEFINE x == After(ProjectedText(doc), M[n])
           y == After(Runes(doc), n)
<1>1. Corresponds(doc, M, n)
  BY AllCorrespond
<1>2. x.line = y.line /\ x.character = y.character
  BY <1>1 DEF Corresponds
<1>3. x \in Places /\ y \in Places
  <2>1. M[n] \in 0 .. Len(ProjectedText(doc))
    BY WithinLayout
  <2> QED
    BY <2>1, LaidOut, AfterIsPlace
<1> HIDE DEF x, y
<1>4. x = y
  BY <1>2, <1>3 DEF Places
<1> QED
  BY <1>4 DEF x, y

\* A diagnostic that is shown has the same positions in both texts.
LEMMA ShownUnmoved ==
  ASSUME NEW doc \in Seq(Chars), NEW M, Layout(doc, M), NEW d, NEW range,
         NEW from \in 0 .. Len(doc), NEW to \in 0 .. Len(doc), ShownAt(doc, M, d, range, from, to)
  PROVE  /\ After(ProjectedText(doc), M[from]) = After(Runes(doc), from)
         /\ After(ProjectedText(doc), M[to]) = After(Runes(doc), to)
<1> DEFINE runes == Runes(doc)
<1>1. runes \in Seq(TextRunes) /\ Len(runes) = Len(doc)
  BY LaidOut
<1>2. /\ from < to
      /\ \A k \in 1 .. Len(doc) : Overwritten(doc, k) =>
           ~(/\ After(runes, k - 1).line <= After(runes, to).line
             /\ After(runes, k).line >= After(runes, from).line)
  BY DEF ShownAt
<1> HIDE DEF runes
<1>3. ASSUME NEW n \in {from, to}, NEW k \in 1 .. n, After(runes, k).line = After(runes, n).line
      PROVE  ~Overwritten(doc, k)
  <2>1. /\ k \in 1 .. Len(doc) /\ k - 1 \in 0 .. Len(doc) /\ k \in 0 .. Len(doc)
        /\ n \in 0 .. Len(doc) /\ k - 1 <= to /\ from <= n
    BY <1>2
  <2>2. After(runes, k - 1).line <= After(runes, to).line /\ After(runes, from).line <= After(runes, n).line
    BY <1>1, <2>1, AfterGrows
  <2>3. After(runes, from).line \in Nat /\ After(runes, n).line \in Nat
    BY <1>1, <2>1, AfterStep
  <2> QED
    BY <1>2, <1>3, <2>1, <2>2, <2>3
<1> QED
  BY <1>3, SamePosition DEF runes

----------------------------------------------------------------------------
(* The invariants.                                                          *)

Typed ==
  /\ source \in Seq(Chars) /\ Len(source) <= MaxLen
  /\ host \in {"yaml", "bash"} /\ unstable \in BOOLEAN /\ block \in BOOLEAN

\* A document stays one.
LEMMA TypedAlways == Spec => []Typed
<1>1. Init => Typed
  <2>1. <<>> \in Seq(Chars) /\ Len(<<>>) = 0
    OBVIOUS
  <2> QED
    BY <2>1, MaxLenAssumption DEF Init, Typed
<1>2. Typed /\ [Next]_vars => Typed'
  <2> SUFFICES ASSUME Typed, [Next]_vars PROVE Typed'
    OBVIOUS
  <2>1. CASE Next
    <3>1. PICK c \in Chars : Type(c)
      BY <2>1 DEF Next
    <3>2. Append(source, c) \in Seq(Chars) /\ Len(Append(source, c)) = Len(source) + 1 /\ Len(source) \in Nat
      BY DEF Typed
    <3>3. Len(source) + 1 <= MaxLen
      BY <3>1, <3>2, MaxLenAssumption DEF Type
    <3> QED
      BY <3>1, <3>2, <3>3 DEF Typed, Type
  <2>2. CASE UNCHANGED vars
    BY <2>2 DEF Typed, vars
  <2> QED
    BY <2>1, <2>2
<1> QED
  BY <1>1, <1>2, PTL DEF Spec

\* The length of a text is the offset of its end.
LEMMA ByteLenIsOff ==
  ASSUME NEW S, NEW runes \in Seq(S)
  PROVE  ByteLen(runes) = Off(runes, Len(runes)) /\ Len(runes) \in 0 .. Len(runes)
<1>1. SubSeq(runes, 1, Len(runes)) = runes /\ Len(runes) \in 0 .. Len(runes)
  OBVIOUS
<1> QED
  BY <1>1 DEF Off

\* ProjectionTypes, of one state.
LEMMA TypedProjection == Typed => TypeOK
<1> SUFFICES ASSUME Typed PROVE TypeOK
  OBVIOUS
<1> DEFINE text == ProjectedText(source)
           runes == Runes(source)
           n == Len(source)
           p == MakeProjection(source)
           spans == {s \in [start : 0 .. ByteLen(text), end : 0 .. ByteLen(text)] : s.start < s.end}
<1>1. source \in Seq(Chars)
  BY DEF Typed
<1>2. PICK M : Layout(source, M)
  BY <1>1, LaidOut
<1>3. text \in Seq(TextRunes) /\ runes \in Seq(TextRunes) /\ Len(runes) = n /\ n \in Nat
  BY <1>1, LaidOut
<1>4. ByteLen(text) = ByteLen(runes) /\ ByteLen(text) = Off(runes, n) /\ Off(runes, n) \in Nat
  <2>1. n \in 0 .. n /\ Len(text) = M[n]
    BY <1>2, <1>3 DEF Layout
  <2>2. Off(text, M[n]) = Off(runes, n)
    BY <1>1, <1>2, <2>1, AllCorrespond DEF Corresponds
  <2> HIDE DEF text, runes
  <2> QED
    BY <1>3, <2>1, <2>2, ByteLenIsOff, OffStep
<1>5. ASSUME NEW a \in 1 .. n, NEW b \in 1 .. n, a <= b
      PROVE  SpanOf(source, a, b) \in spans
  <2>1. a - 1 \in 0 .. n /\ b \in 0 .. n /\ n \in 0 .. n /\ a - 1 < b /\ (b = n \/ b < n)
    BY <1>3, <1>5
  <2> HIDE DEF runes
  <2>2. Off(runes, a - 1) \in Nat /\ Off(runes, b) \in Nat
    BY <1>3, <2>1, OffStep
  <2>3. Off(runes, a - 1) < Off(runes, b) /\ (b < n => Off(runes, b) < Off(runes, n))
    BY <1>3, <2>1, OffGrows
  <2>4. Off(runes, b) <= Off(runes, n)
    BY <1>4, <2>1, <2>2, <2>3
  <2>5. Off(runes, a - 1) \in 0 .. ByteLen(text) /\ Off(runes, b) \in 0 .. ByteLen(text)
    <3> HIDE DEF text, n
    <3> QED
      BY <1>4, <2>2, <2>3, <2>4
  <2> QED
    BY <2>3, <2>5 DEF SpanOf, runes
<1> HIDE DEF spans
<1>6. Literals(source) \subseteq spans
  <2>1. ASSUME NEW s \in Literals(source)
        PROVE  s \in spans
    <3>1. PICK a, b \in 1 .. n : LiteralRun(source, a, b) /\ s = SpanOf(source, a, b)
      BY <1>1, LiteralsValue
    <3>2. a <= b
      BY <1>1, <3>1, LiteralsAreText
    <3> QED
      BY <1>5, <3>1, <3>2
  <2> QED
    BY <2>1
<1>7. Synthetic(source) \subseteq spans
  <2>1. ASSUME NEW s \in Synthetic(source)
        PROVE  s \in spans
    <3>1. PICK a, b \in 1 .. n : a <= b /\ s = SpanOf(source, a, b)
      BY <1>1, SyntheticValue
    <3> QED
      BY <1>5, <3>1
  <2> QED
    BY <2>1
<1>8. p.source = runes /\ p.text = text /\ p.literals = Literals(source) /\ p.synthetic = Synthetic(source)
  BY DEF MakeProjection
<1> QED
  BY <1>4, <1>6, <1>7, <1>8 DEF TypeOK, Typed, spans
\* The ranges that a backend may report are pairs of positions.
LEMMA RangesArePlaces ==
  ASSUME Typed, NEW d \in Ranges
  PROVE  d \in [start : Places, end : Places]
<1> DEFINE text == ProjectedText(source)
<1>1. text \in Seq(TextRunes)
  BY LaidOut DEF Typed
<1>2. ASSUME NEW pos \in Positions
      PROVE  pos \in Places
  <2>1. PICK end \in {After(text, n) : n \in LineEnds(text)} :
          pos \in {[line |-> end.line, character |-> c] : c \in 0 .. end.character + 1}
    BY DEF Positions
  <2> HIDE DEF text
  <2>2. PICK n \in LineEnds(text) : end = After(text, n)
    BY <2>1
  <2>3. n \in 0 .. Len(text)
    BY DEF LineEnds
  <2>4. end.line \in Nat /\ end.character \in Nat
    BY <1>1, <2>2, <2>3, AfterStep
  <2>5. PICK c \in 0 .. end.character + 1 : pos = [line |-> end.line, character |-> c]
    BY <2>1
  <2>6. c \in Nat
    BY <2>4
  <2> QED
    BY <2>4, <2>5, <2>6 DEF Places
<1> QED
  BY <1>2 DEF Ranges

\* ShownIsUnmoved, of one state.
LEMMA TypedKeepsRanges == Typed => RangeIsKept
<1> DEFINE p == MakeProjection(source)
           text == ProjectedText(source)
           runes == Runes(source)
           lineEnds == {After(runes, n) : n \in LineEnds(runes)}
<1> SUFFICES ASSUME Typed, NEW d \in Ranges, NEW range \in MapDiagnostic(p, d)
             PROVE  /\ range.start = d.start
                    /\ range.end = d.end \/ /\ range.end \in lineEnds
                                            /\ range.end.line = d.end.line
                                            /\ range.end.character < d.end.character
  BY DEF RangeIsKept, MakeProjection
<1>1. source \in Seq(Chars) /\ d \in [start : Places, end : Places]
  BY RangesArePlaces DEF Typed
<1>2. PICK M : Layout(source, M)
  BY <1>1, LaidOut
<1>3. PICK from, to \in 0 .. Len(source) : ShownAt(source, M, d, range, from, to)
  BY <1>1, <1>2, Shown
<1>4. After(text, M[from]) = After(runes, from) /\ After(text, M[to]) = After(runes, to)
  BY <1>1, <1>2, <1>3, ShownUnmoved
<1>5. /\ range.start = After(runes, from) /\ range.end = After(runes, to)
      /\ d.start = After(text, M[from]) /\ EndsAt(text, d.end, M[to])
  BY <1>3 DEF ShownAt
<1>6. M[to] \in LineEnds(text) => to \in LineEnds(runes)
  BY <1>1, <1>2, LineEndsCorrespond
<1> HIDE DEF text, runes
<1> QED
  BY <1>4, <1>5, <1>6 DEF EndsAt

\* ShownIsAttributable, of one state.
LEMMA TypedIsAttributable == Typed => Attributable
<1> DEFINE p == MakeProjection(source)
           text == ProjectedText(source)
           runes == Runes(source)
           first(r) == RunesBefore(p.source, CHOOSE o \in ByteOffset(p.source, r.start) : TRUE)
           last(r) == RunesBefore(p.source, CHOOSE o \in ByteOffset(p.source, r.end) : TRUE)
           begin(x) == RunesBefore(p.text, CHOOSE o \in ByteOffset(p.text, x.start) : TRUE)
           chosen(r) == SubSeq(p.source, first(r) + 1, last(r))
<1> SUFFICES ASSUME Typed, NEW d \in Ranges, NEW range \in MapDiagnostic(p, d)
             PROVE  /\ ~unstable /\ (block => Synthetic(source) = {})
                    /\ PartsOnLines(range) = {"text"}
                    /\ chosen(range) # <<>>
                    /\ chosen(range) = SubSeq(p.text, begin(d) + 1, begin(d) + Len(chosen(range)))
  BY DEF Attributable
<1>0. p.source = runes /\ p.text = text
  BY DEF MakeProjection
<1>1. source \in Seq(Chars) /\ d \in [start : Places, end : Places]
  BY RangesArePlaces DEF Typed
<1>2. PICK M : Layout(source, M)
  BY <1>1, LaidOut
<1>3. PICK from, to \in 0 .. Len(source) : ShownAt(source, M, d, range, from, to)
  BY <1>1, <1>2, Shown
<1>4. ~unstable /\ (block => Synthetic(source) = {})
  BY <1>3 DEF ShownAt, MakeProjection
<1>5. /\ from < to
      /\ \A k \in (from + 1) .. to : source[k].part = "text" /\ ~Overwritten(source, k)
      /\ \A n \in from .. to : M[n] = M[from] + (n - from)
      /\ range.start = After(runes, from) /\ range.end = After(runes, to)
      /\ d.start = After(text, M[from])
      /\ \A k \in 1 .. Len(source) : Overwritten(source, k) =>
           ~(/\ After(runes, k - 1).line <= After(runes, to).line
             /\ After(runes, k).line >= After(runes, from).line)
  BY <1>3 DEF ShownAt
<1>6. /\ text \in Seq(TextRunes) /\ runes \in Seq(TextRunes) /\ Len(runes) = Len(source)
      /\ \A i \in 1 .. Len(source) : runes[i] = source[i].rune
      /\ Len(source) \in Nat /\ DOMAIN source = 1 .. Len(source) /\ Len(text) \in Nat
  BY <1>1, LaidOut
<1>7. M[from] \in 0 .. Len(text) /\ M[to] \in 0 .. Len(text) /\ M[to] = M[from] + (to - from)
  <2>1. to \in from .. to
    BY <1>5
  <2> QED
    BY <1>1, <1>2, <1>5, <2>1, WithinLayout
<1>8. PartsOnLines(range) = {"text"}
  <2>1. ASSUME NEW j \in 1 .. Len(source),
               After(runes, j - 1).line \in After(runes, from).line .. After(runes, to).line
        PROVE  source[j].part = "text"
    <3>1. j - 1 \in 0 .. Len(runes) /\ j \in 0 .. Len(runes) /\ j - 1 <= j
      BY <1>6
    <3> HIDE DEF runes
    <3>2. /\ After(runes, j - 1).line <= After(runes, j).line
          /\ After(runes, j - 1).line \in Nat /\ After(runes, j).line \in Nat
          /\ After(runes, from).line \in Nat /\ After(runes, to).line \in Nat
      BY <1>6, <3>1, AfterGrows, AfterStep
    <3>3. ~Overwritten(source, j)
      BY <1>5, <2>1, <3>2
    <3>4. source[j].part \in {"text", "action"}
      BY <1>1, CharValues
    <3> QED
      BY <3>3, <3>4 DEF Overwritten
  <2>2. /\ from + 1 \in 1 .. Len(source) /\ from + 1 \in (from + 1) .. to /\ from + 1 - 1 = from
    BY <1>5, <1>6
  <2>3. After(runes, from).line \in After(runes, from).line .. After(runes, to).line
    <3> HIDE DEF runes
    <3>1. /\ After(runes, from).line <= After(runes, to).line
          /\ After(runes, from).line \in Nat /\ After(runes, to).line \in Nat
      BY <1>5, <1>6, AfterGrows, AfterStep
    <3> QED
      BY <3>1
  <2>4. source[from + 1].part = "text"
    BY <1>5, <2>2
  <2>5. PartsOnLines(range) =
          {source[i].part : i \in {j \in 1 .. Len(source) :
             After(runes, j - 1).line \in After(runes, from).line .. After(runes, to).line}}
    BY <1>5, <1>6 DEF PartsOnLines
  <2>6. from + 1 \in {j \in 1 .. Len(source) :
             After(runes, j - 1).line \in After(runes, from).line .. After(runes, to).line}
    BY <2>2, <2>3
  <2> HIDE DEF runes
  <2> QED
    BY <2>1, <2>4, <2>5, <2>6
<1>9. first(range) = from /\ last(range) = to
  <2>1. from \in 0 .. Len(runes) /\ to \in 0 .. Len(runes)
    BY <1>6
  <2> HIDE DEF runes
  <2>2. /\ ByteOffset(runes, range.start) = {Off(runes, from)}
        /\ ByteOffset(runes, range.end) = {Off(runes, to)}
        /\ RunesBefore(runes, Off(runes, from)) = from /\ RunesBefore(runes, Off(runes, to)) = to
    BY <1>5, <1>6, <2>1, PlaceOf
  <2>3. /\ (CHOOSE o \in ByteOffset(runes, range.start) : TRUE) = Off(runes, from)
        /\ (CHOOSE o \in ByteOffset(runes, range.end) : TRUE) = Off(runes, to)
    BY <2>2
  <2> HIDE DEF p
  <2> QED
    BY <1>0, <2>2, <2>3
<1>10. begin(d) = M[from]
  <2> HIDE DEF text
  <2>1. /\ ByteOffset(text, d.start) = {Off(text, M[from])}
        /\ RunesBefore(text, Off(text, M[from])) = M[from]
    BY <1>5, <1>6, <1>7, PlaceOf
  <2>2. (CHOOSE o \in ByteOffset(text, d.start) : TRUE) = Off(text, M[from])
    BY <2>1
  <2> HIDE DEF p
  <2> QED
    BY <1>0, <2>1, <2>2
<1>11. ASSUME NEW x \in 1 .. (to - from)
       PROVE  text[M[from] + x] = runes[from + x]
  <2>1. from + x \in Int
    OBVIOUS
  <2>2. PICK k \in Int : k = from + x
    BY <2>1
  <2>3. k \in 1 .. Len(source) /\ k \in (from + 1) .. to /\ k \in from .. to /\ k - from = x
    BY <1>5, <1>6, <2>2
  <2>4. M[k] = M[from] + x /\ ~Overwritten(source, k)
    BY <1>5, <2>3
  <2>5. text[M[k]] = source[k].rune
    BY <1>2, <2>3, <2>4 DEF Layout
  <2> QED
    BY <1>6, <2>2, <2>3, <2>4, <2>5
<1> DEFINE left == SubSeq(runes, from + 1, to)
           right == SubSeq(text, M[from] + 1, M[from] + (to - from))
<1>12. Len(left) = to - from /\ left # <<>> /\ left = right
  <2> HIDE DEF text, runes
  <2>1. /\ to - from \in Nat /\ from \in Nat /\ from + (to - from) = to /\ to <= Len(runes)
        /\ M[from] \in Nat /\ M[from] + (to - from) <= Len(text)
    <3> DEFINE m == M[from]
               l == Len(text)
    <3>1. /\ m \in Nat /\ l \in Nat /\ M[to] = m + (to - from) /\ M[to] <= l
          /\ Len(runes) \in Nat /\ from \in 0 .. Len(runes) /\ to \in 0 .. Len(runes)
      BY <1>6, <1>7
    <3>2. m + (to - from) <= l /\ m \in Nat
      BY <3>1
    <3> HIDE DEF m, l
    <3>3. to - from \in Nat /\ from \in Nat /\ from + (to - from) = to /\ to <= Len(runes)
      BY <1>5, <3>1
    <3> QED
      BY <3>2, <3>3 DEF m, l
  <2>2. /\ left \in Seq(TextRunes) /\ Len(left) = to - from
        /\ \A x \in 1 .. (to - from) : left[x] = runes[from + x]
    <3> DEFINE low == from + 1
               w == to - from
    <3>1. low \in Nat /\ to \in Nat /\ w \in Nat /\ low = from + 1 /\ to = from + w
      BY <2>1
    <3>2. left = SubSeq(runes, low, to)
      OBVIOUS
    <3> HIDE DEF left, low, w
    <3>3. /\ left \in Seq(TextRunes) /\ Len(left) = w /\ \A x \in 1 .. w : left[x] = runes[from + x]
      BY <1>6, <2>1, <3>1, <3>2, MiddlePart
    <3> QED
      BY <3>3 DEF w
  <2>4. /\ right \in Seq(TextRunes) /\ Len(right) = to - from
        /\ \A x \in 1 .. (to - from) : right[x] = text[M[from] + x]
    <3> DEFINE m == M[from]
               low == m + 1
               w == to - from
               high == m + w
    <3>1. /\ m \in Nat /\ low \in Nat /\ high \in Nat /\ w \in Nat /\ low = m + 1 /\ high = m + w
          /\ high <= Len(text)
      BY <2>1
    <3>2. right = SubSeq(text, low, high)
      OBVIOUS
    <3> HIDE DEF right, low, high, w, m
    <3>3. /\ right \in Seq(TextRunes) /\ Len(right) = w
          /\ \A x \in 1 .. w : right[x] = text[m + x]
      BY <1>6, <3>1, <3>2, MiddlePart
    <3> QED
      BY <3>3 DEF w, m
  <2>5. \A x \in 1 .. (to - from) : left[x] = right[x]
    BY <1>11, <2>2, <2>4
  <2> HIDE DEF left, right
  <2>6. left = right
    BY <2>2, <2>4, <2>5
  <2> QED
    BY <1>5, <2>1, <2>2, <2>6
<1> HIDE DEF p, text, runes, first, last, begin
<1>13. chosen(range) = left
  BY <1>0, <1>9
<1> HIDE DEF left, chosen
<1> QED
  BY <1>0, <1>4, <1>8, <1>10, <1>12, <1>13
\* AttributableIsShown, of one state.
LEMMA TypedLosesNothing == Typed => NothingLost
<1> DEFINE p == MakeProjection(source)
           text == ProjectedText(source)
           runes == Runes(source)
           start(i) == After(runes, i - 1)
           end(j) == After(runes, j)
           reported(i, j) == [start |-> Position(p.text, At(source, i)),
                              end |-> Position(p.text, At(source, j + 1))]
           overrun(i, j) == [reported(i, j) EXCEPT !.end.character = @ + 1]
<1> SUFFICES ASSUME Typed, p.safe, NEW i \in DOMAIN source, NEW j \in DOMAIN source, i <= j,
                    \A k \in i .. j : source[k].part = "text",
                    i < j => \A k \in i .. j : source[k].rune # "brace",
                    \A k \in DOMAIN source : ~Replaced(k, start(i).line .. end(j).line)
             PROVE  /\ MapDiagnostic(p, reported(i, j)) = {[start |-> start(i), end |-> end(j)]}
                    /\ j \in LineEnds(runes) =>
                         MapDiagnostic(p, overrun(i, j)) = {[start |-> start(i), end |-> end(j)]}
  BY DEF NothingLost
<1>1. source \in Seq(Chars)
  BY DEF Typed
<1>2. PICK M : Layout(source, M)
  BY <1>1, LaidOut
<1>3. /\ text \in Seq(TextRunes) /\ runes \in Seq(TextRunes) /\ Len(runes) = Len(source)
      /\ Len(source) \in Nat /\ DOMAIN source = 1 .. Len(source) /\ Len(text) \in Nat
  BY <1>1, LaidOut
<1>4. /\ p.source = runes /\ p.text = text
      /\ p.literals = Literals(source) /\ p.synthetic = Synthetic(source)
  BY DEF MakeProjection
<1> DEFINE from == i - 1
<1>5. /\ i \in 1 .. Len(source) /\ j \in 1 .. Len(source)
      /\ from \in 0 .. Len(source) /\ j \in 0 .. Len(source) /\ from < j
      /\ i \in 1 .. Len(source) + 1 /\ j + 1 \in 1 .. Len(source) + 1 /\ j + 1 - 1 = j
  BY <1>3
<1>6. M[from] \in 0 .. Len(text) /\ M[j] \in 0 .. Len(text)
  BY <1>1, <1>2, <1>5, WithinLayout
<1>7. Off(text, M[from]) = Off(runes, from) /\ Off(text, M[j]) = Off(runes, j)
  BY <1>1, <1>2, <1>5, AllCorrespond DEF Corresponds
<1> HIDE DEF p
<1>8. ASSUME NEW k \in 1 .. Len(source), Overwritten(source, k)
      PROVE  /\ After(runes, k - 1).line \notin start(i).line .. end(j).line
             /\ After(runes, k).line \notin start(i).line .. end(j).line
  BY <1>3, <1>8 DEF Replaced, Overwritten
<1> HIDE DEF text, from
<1>9. /\ \A n \in 0 .. Len(source) : After(runes, n).line \in Nat
      /\ \A m, n \in 0 .. Len(source) : m <= n => After(runes, m).line <= After(runes, n).line
  <2> HIDE DEF runes
  <2> QED
    BY <1>3, AfterStep, AfterGrows
<1>10. start(i) = After(runes, from) /\ end(j) = After(runes, j)
  BY DEF from
<1> HIDE DEF runes, start, end
<1>11. start(i).line \in Nat /\ end(j).line \in Nat /\ start(i).line <= end(j).line
  BY <1>5, <1>9, <1>10
\* Each place on the way has its position in the projection.
<1>12. ASSUME NEW n \in {from, j}
       PROVE  After(text, M[n]) = After(runes, n)
  <2>1. n \in 0 .. Len(source) /\ (n = from \/ n = j)
    BY <1>5
  <2>2. ASSUME NEW k \in 1 .. n, After(runes, k).line = After(runes, n).line
        PROVE  ~Overwritten(source, k)
    <3>1. k \in 1 .. Len(source)
      BY <2>1, <1>3
    <3>2. After(runes, n).line \in start(i).line .. end(j).line
      BY <1>10, <1>11, <2>1
    <3> QED
      BY <1>8, <2>2, <3>1, <3>2
  <2> QED
    BY <1>1, <1>2, <2>1, <2>2, SamePosition DEF text, runes
<1>13. /\ At(source, i) = Off(runes, from) /\ At(source, j + 1) = Off(runes, j)
  <2>1. At(source, i) = Off(runes, i - 1) /\ At(source, j + 1) = Off(runes, j + 1 - 1)
    BY <1>1, <1>5, AtValue DEF runes
  <2> QED
    BY <1>5, <2>1 DEF from
<1>14. reported(i, j) = [start |-> start(i), end |-> end(j)]
  <2>1. /\ Position(text, Off(text, M[from])) = After(text, M[from])
        /\ Position(text, Off(text, M[j])) = After(text, M[j])
    BY <1>3, <1>6, PlaceOf
  <2> QED
    BY <1>4, <1>7, <1>10, <1>12, <1>13, <2>1
<1>15. /\ ByteOffset(text, start(i)) = {Off(runes, from)}
       /\ ByteOffset(text, end(j)) = {Off(runes, j)}
  <2>1. /\ ByteOffset(text, After(text, M[from])) = {Off(text, M[from])}
        /\ ByteOffset(text, After(text, M[j])) = {Off(text, M[j])}
    BY <1>3, <1>6, PlaceOf
  <2> QED
    BY <1>7, <1>10, <1>12, <2>1
<1>16. InLiteral(p, Off(runes, from), Off(runes, j))
  <2>1. PICK a, b \in 1 .. Len(source) : LiteralRun(source, a, b) /\ a <= i /\ j <= b
    BY <1>1, <1>5, TokenAround
  <2>2. SpanOf(source, a, b) \in p.literals
    BY <1>1, <1>4, <2>1, LiteralsValue
  <2>3. a - 1 \in 0 .. Len(source) /\ b \in 0 .. Len(source) /\ (a - 1 = from \/ a - 1 < from) /\ (j = b \/ j < b)
    BY <1>3, <1>5, <2>1 DEF from
  <2>4. /\ Off(runes, from) < Off(runes, j)
        /\ a - 1 < from => Off(runes, a - 1) < Off(runes, from)
        /\ j < b => Off(runes, j) < Off(runes, b)
    BY <1>3, <1>5, <2>3, OffGrows
  <2>5. /\ Off(runes, from) \in Nat /\ Off(runes, j) \in Nat
        /\ Off(runes, a - 1) \in Nat /\ Off(runes, b) \in Nat
    BY <1>3, <1>5, <2>3, OffStep
  <2>6. Off(runes, from) >= Off(runes, a - 1) /\ Off(runes, j) <= Off(runes, b)
    BY <2>3, <2>4, <2>5
  <2>7. SpanOf(source, a, b).start = Off(runes, a - 1) /\ SpanOf(source, a, b).end = Off(runes, b)
    BY DEF SpanOf, runes
  <2> QED
    BY <2>2, <2>4, <2>6, <2>7 DEF InLiteral
\* No synthetic span touches the lines of the runes.
<1>17. ASSUME NEW d, d.start.line = start(i).line, d.end.line = end(j).line
       PROVE  LinesAreLiteral(p, d)
  <2> SUFFICES ASSUME NEW s \in Synthetic(source),
                      Position(text, s.start).line <= end(j).line,
                      Position(text, s.end).line >= start(i).line
               PROVE  FALSE
    BY <1>4, <1>17 DEF LinesAreLiteral
  <2>1. PICK u, v \in 1 .. Len(source) :
          u <= v /\ s = SpanOf(source, u, v) /\ \A k \in u .. v : Overwritten(source, k)
    BY <1>1, SyntheticValue
  <2>2. /\ u - 1 \in 0 .. Len(source) /\ v \in 0 .. Len(source) /\ u \in u .. v /\ v \in u .. v
    BY <1>3, <2>1
  <2>3. Position(text, s.start).line = After(runes, u - 1).line /\ Position(text, s.end).line = After(runes, v).line
    <3>1. s.start = Off(runes, u - 1) /\ s.end = Off(runes, v)
      BY <2>1 DEF SpanOf, runes
    <3> QED
      BY <1>1, <2>2, <3>1, SameLine DEF text, runes
  <2>4. After(runes, u - 1).line <= end(j).line /\ After(runes, v).line >= start(i).line
    BY <2>3
  <2>5. CASE v <= from
    <3>1. After(runes, v).line <= start(i).line /\ After(runes, v).line \in Nat
      BY <1>5, <1>9, <1>10, <2>2, <2>5
    <3>2. After(runes, v).line \in start(i).line .. end(j).line
      BY <1>11, <2>4, <3>1
    <3> QED
      BY <1>8, <2>1, <2>2, <3>2
  <2>6. CASE j <= u - 1
    <3>1. After(runes, u - 1).line >= end(j).line /\ After(runes, u - 1).line \in Nat
      BY <1>5, <1>9, <1>10, <2>2, <2>6
    <3>2. After(runes, u - 1).line \in start(i).line .. end(j).line
      BY <1>11, <2>4, <3>1
    <3> QED
      BY <1>8, <2>1, <2>2, <3>2
  <2>7. CASE from < v /\ u - 1 < j
    <3>1. PICK k \in Int : k \in u .. v /\ k \in i .. j
      <4>1. i <= v /\ u <= j
        BY <1>3, <1>5, <2>1, <2>7 DEF from
      <4>2. CASE u <= i
        BY <1>3, <1>5, <2>1, <4>1, <4>2
      <4>3. CASE i < u
        BY <1>3, <1>5, <2>1, <4>1, <4>3
      <4> QED
        BY <1>5, <2>1, <4>2, <4>3
    <3>2. k \in 1 .. Len(source) /\ k \in 0 .. Len(source) /\ k <= j /\ from <= k
      BY <1>3, <1>5, <3>1 DEF from
    <3>3. After(runes, k).line \in start(i).line .. end(j).line
      BY <1>5, <1>9, <1>10, <1>11, <3>2
    <3> QED
      BY <1>8, <2>1, <3>1, <3>2, <3>3
  <2> QED
    BY <1>3, <1>5, <2>2, <2>5, <2>6, <2>7
\* So a diagnostic with these offsets is shown.
<1>18. ASSUME NEW d, ByteOffset(text, d.start) = {Off(runes, from)}, EndOffset(text, d.end) = {Off(runes, j)},
              d.start.line = start(i).line, d.end.line = end(j).line
       PROVE  MapDiagnostic(p, d) = {[start |-> start(i), end |-> end(j)]}
  <2> DEFINE o == <<Off(runes, from), Off(runes, j)>>
  <2>1. LinesAreLiteral(p, d)
    BY <1>17, <1>18
  <2>2. {x \in ByteOffset(text, d.start) \X EndOffset(text, d.end) :
           InLiteral(p, x[1], x[2]) /\ LinesAreLiteral(p, d)} = {o}
    <3>1. ByteOffset(text, d.start) \X EndOffset(text, d.end) = {o}
      BY <1>18
    <3>2. InLiteral(p, o[1], o[2])
      BY <1>16
    <3> HIDE DEF o
    <3> QED
      BY <2>1, <3>1, <3>2
  <2>3. Position(runes, o[1]) = start(i) /\ Position(runes, o[2]) = end(j)
    BY <1>3, <1>5, <1>10, PlaceOf
  <2> HIDE DEF o
  <2>4. MapDiagnostic(p, d) = Mapped(p, {o})
    BY <1>4, <2>2 DEF MapDiagnostic
  <2> QED
    BY <1>4, <2>3, <2>4 DEF Mapped
<1>19. MapDiagnostic(p, reported(i, j)) = {[start |-> start(i), end |-> end(j)]}
  <2>1. EndOffset(text, end(j)) = {Off(runes, j)}
    BY <1>15 DEF EndOffset
  <2> DEFINE d == reported(i, j)
  <2>2. d.start = start(i) /\ d.end = end(j)
    BY <1>14
  <2> HIDE DEF d
  <2>3. MapDiagnostic(p, d) = {[start |-> start(i), end |-> end(j)]}
    BY <1>15, <1>18, <2>1, <2>2
  <2> QED
    BY <2>3 DEF d
<1>20. ASSUME j \in LineEnds(runes)
       PROVE  MapDiagnostic(p, overrun(i, j)) = {[start |-> start(i), end |-> end(j)]}
  <2> DEFINE past == [line |-> end(j).line, character |-> end(j).character + 1]
             m == M[j]
  <2>1. overrun(i, j).start = start(i) /\ overrun(i, j).end = past
    <3>1. end(j) = [line |-> end(j).line, character |-> end(j).character]
      BY <1>10 DEF After
    <3> HIDE DEF reported
    <3>2. overrun(i, j) = [[start |-> start(i), end |-> end(j)] EXCEPT !.end.character = @ + 1]
      BY <1>14
    <3> QED
      BY <3>1, <3>2
  <2>2. m \in LineEnds(text) /\ m \in 0 .. Len(text) /\ After(text, m) = end(j)
    BY <1>1, <1>2, <1>5, <1>6, <1>10, <1>12, <1>20, LineEndsCorrespond DEF text, runes
  <2>3. Off(text, m) = Off(runes, j)
    BY <1>7
  <2>4. past.line = end(j).line /\ past.character = end(j).character + 1
    OBVIOUS
  <2> HIDE DEF m, past
  <2>5. end(j).character \in Nat
    BY <1>3, <2>2, AfterStep
  <2>6. ASSUME NEW n \in 0 .. Len(text)
        PROVE  After(text, n) # past
    <3> SUFFICES ASSUME After(text, n) = past PROVE FALSE
      OBVIOUS
    <3>1. After(text, n).line = After(text, m).line
      BY <2>2, <2>4
    <3>2. n <= m
      BY <1>3, <2>2, <3>1, LineEndIsLast
    <3>3. n < m => After(text, n).character < After(text, m).character
      BY <1>3, <2>2, <3>1, AfterGrows
    <3>4. After(text, n).character = end(j).character + 1
      BY <2>4
    <3> QED
      BY <2>2, <2>5, <3>2, <3>3, <3>4
  <2>7. ByteOffset(text, past) = {}
    BY <2>6 DEF ByteOffset
  <2>8. {n \in LineEnds(text) : /\ After(text, n).line = past.line
                                /\ past.character >= After(text, n).character} = {m}
    <3>1. ASSUME NEW n \in LineEnds(text), After(text, n).line = past.line
          PROVE  n = m
      <4>1. n \in 0 .. Len(text)
        BY DEF LineEnds
      <4>2. After(text, n).line = After(text, m).line
        BY <2>2, <2>4, <3>1
      <4>3. n <= m /\ m <= n
        BY <1>3, <2>2, <4>1, <4>2, LineEndIsLast
      <4> QED
        BY <2>2, <4>1, <4>3
    <3>2. After(text, m).line = past.line /\ past.character >= After(text, m).character
      BY <2>2, <2>4, <2>5
    <3> QED
      BY <2>2, <3>1, <3>2
  <2>9. EndOffset(text, past) = {Off(runes, j)}
    BY <2>3, <2>7, <2>8 DEF EndOffset, ClampEndOfLine, Off
  <2> DEFINE d == overrun(i, j)
  <2>10. d.start = start(i) /\ d.end = past
    BY <2>1
  <2> HIDE DEF d
  <2>11. MapDiagnostic(p, d) = {[start |-> start(i), end |-> end(j)]}
    BY <1>15, <1>18, <2>4, <2>9, <2>10
  <2> QED
    BY <2>11 DEF d
<1> HIDE DEF reported, overrun
<1> QED
  BY <1>19, <1>20

\* What the type invariant of the projection says of documents of any length
\* (MaxLen is a bound of the runs only): a projection is as long as its source,
\* and its literals and synthetic spans are intervals of both.
THEOREM ProjectionTypes == Spec => []TypeOK
BY TypedAlways, TypedProjection, PTL

\* mapDiagnostic, Attributable: a diagnostic that is shown selects, in lines
\* where the author wrote every rune, the runes the backend meant.
THEOREM ShownIsAttributable == Spec => []Attributable
BY TypedAlways, TypedIsAttributable, PTL

\* mapDiagnostic, RangeIsKept: its range comes back as the backend gave it, or
\* with the end of the line for an end past it.
THEOREM ShownIsUnmoved == Spec => []RangeIsKept
BY TypedAlways, TypedKeepsRanges, PTL

\* mapDiagnostic, NothingLost: what is about the text of one literal token, which
\* no brace of the text interrupts, on lines where nothing was replaced, is shown.
THEOREM AttributableIsShown == Spec => []NothingLost
BY TypedAlways, TypedLosesNothing, PTL
=============================================================================
