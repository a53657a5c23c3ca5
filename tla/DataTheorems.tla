--------------------------- MODULE DataTheorems ----------------------------
(***************************************************************************)
(* What the operators on data that the models are built from return: maps,  *)
(* folds, parts of sequences, sequences without repetitions, and sequences  *)
(* of sequences.  The other modules of proofs cite these by name.           *)
(***************************************************************************)
EXTENDS GoMap, Integers, SequencesExt, FiniteSetTheorems, WellFoundedInduction, TLAPS

----------------------------------------------------------------------------
(* Maps.                                                                    *)

\* Put adds one key, gives it its value and leaves the others alone.
LEMMA PutValues ==
  ASSUME NEW m, NEW k, NEW v
  PROVE  /\ DOMAIN Put(m, k, v) = DOMAIN m \cup {k}
         /\ Put(m, k, v)[k] = v
         /\ \A x \in DOMAIN m \ {k} : Put(m, k, v)[x] = m[x]
BY DEF Put

\* DeleteAll removes the keys and leaves the others alone.
LEMMA DeleteAllValues ==
  ASSUME NEW m, NEW K
  PROVE  /\ DOMAIN DeleteAll(m, K) = DOMAIN m \ K
         /\ \A x \in DOMAIN m \ K : DeleteAll(m, K)[x] = m[x]
BY DEF DeleteAll, Restrict

LEMMA PutIsMap ==
  ASSUME NEW K, NEW V, NEW m, IsMap(m, K, V), NEW k \in K, NEW v \in V
  PROVE  IsMap(Put(m, k, v), K, V)
BY DEF IsMap, Put

LEMMA DeleteAllIsMap ==
  ASSUME NEW K, NEW V, NEW m, IsMap(m, K, V), NEW L
  PROVE  IsMap(DeleteAll(m, L), K, V)
BY DEF IsMap, DeleteAll, Restrict

LEMMA RestrictIsMap ==
  ASSUME NEW K, NEW V, NEW m, IsMap(m, K, V), NEW L \in SUBSET DOMAIN m
  PROVE  IsMap(Restrict(m, L), K, V)
BY DEF IsMap, Restrict

LEMMA EmptyIsMap ==
  ASSUME NEW K, NEW V
  PROVE  IsMap(EmptyMap, K, V)
BY DEF IsMap, EmptyMap

LEMMA MapValue ==
  ASSUME NEW K, NEW V, NEW m, IsMap(m, K, V), NEW k \in DOMAIN m
  PROVE  k \in K /\ m[k] \in V
BY DEF IsMap

----------------------------------------------------------------------------
(* Induction on the natural numbers, for sets of them.                      *)

LEMMA LeastNatural ==
  ASSUME NEW T \in SUBSET Nat, T # {}
  PROVE  \E x \in T : \A y \in T : x <= y
<1> DEFINE R == OpToRel(<, Nat)
<1>1. IsWellFoundedOn(R, Nat)
  BY NatLessThanWellFounded
<1>2. \A x, y \in Nat : <<y, x>> \in R <=> y < x
  BY DEF OpToRel
<1> HIDE DEF R
<1>3. PICK x \in T : \A y \in T : <<y, x>> \notin R
  BY <1>1, WFMin
<1>4. ASSUME NEW y \in T
      PROVE  x <= y
  <2>1. ~ (y < x)
    BY <1>2, <1>3
  <2> QED
    BY <2>1
<1> QED
  BY <1>3, <1>4

\* What holds at 0 and is kept by every step holds up to n.
LEMMA Induction ==
  ASSUME NEW n \in Nat, NEW I, 0 \in I, \A k \in 1 .. n : k - 1 \in I => k \in I
  PROVE  \A k \in 0 .. n : k \in I
<1> DEFINE T == {k \in 0 .. n : k \notin I}
<1> SUFFICES ASSUME T # {} PROVE FALSE
  OBVIOUS
<1>1. PICK x \in T : \A y \in T : x <= y
  <2>1. T \in SUBSET Nat /\ T # {}
    OBVIOUS
  <2> HIDE DEF T
  <2> QED
    BY <2>1, LeastNatural
<1>2. x \in 1 .. n /\ x - 1 \in 0 .. n /\ ~ (x <= x - 1)
  OBVIOUS
<1>3. x - 1 \notin T
  BY <1>1, <1>2
<1> QED
  BY <1>2, <1>3

LEMMA MaxOfSet ==
  ASSUME NEW n \in Nat, NEW s \in SUBSET (0 .. n), s # {}
  PROVE  Max(s) \in s /\ \A y \in s : y <= Max(s)
<1> DEFINE T == {n - y : y \in s}
<1>1. PICK z \in T : \A y \in T : z <= y
  <2>1. T \in SUBSET Nat
    <3>1. \A y \in s : n - y \in Nat
      OBVIOUS
    <3> QED
      BY <3>1
  <2>2. T # {}
    <3>1. PICK y \in s : TRUE
      OBVIOUS
    <3>2. n - y \in T
      OBVIOUS
    <3> QED
      BY <3>2
  <2> HIDE DEF T
  <2> QED
    BY <2>1, <2>2, LeastNatural
<1>2. PICK x \in s : z = n - x
  OBVIOUS
<1>3. \A y \in s : x >= y
  <2> TAKE y \in s
  <2>1. n - y \in T
    OBVIOUS
  <2>2. n - x <= n - y
    BY <1>1, <1>2, <2>1
  <2> QED
    BY <2>2
<1>4. Max(s) \in s /\ \A y \in s : Max(s) >= y
  BY <1>3 DEF Max
<1> QED
  BY <1>4

----------------------------------------------------------------------------
(* Folds.  The fold of a sequence is defined by a function on the sets of its *)
(* indices; here it becomes one on their number.  A fold is given as a        *)
(* function step, of the value so far and the index.                          *)

OnSets(g, X, base, n, step) ==
  /\ g \in [SUBSET (1 .. n) -> X]
  /\ g[{}] = base
  /\ \A s \in SUBSET (1 .. n) : s # {} => g[s] = step[<<g[s \ {Max(s)}], Max(s)>>]

Follows(iter, X, base, n, step) ==
  /\ iter[{}] = base
  /\ \A s \in SUBSET (1 .. n) : s # {} /\ iter[s \ {Max(s)}] \in X =>
       iter[s] = step[<<iter[s \ {Max(s)}], Max(s)>>]

OnNumbers(F, X, base, n, step, result) ==
  /\ F \in [0 .. n -> X]
  /\ F[0] = base /\ F[n] = result
  /\ \A k \in 1 .. n : F[k] = step[<<F[k - 1], k>>]

LEMMA FoldIterates ==
  ASSUME NEW X, NEW base \in X, NEW n \in Nat, NEW step \in [X \X (1 .. n) -> X]
  PROVE  \E g : OnSets(g, X, base, n, step)
<1> USE DEF OnSets
<1> DEFINE Iterates(g, k) == OnSets(g, X, base, k, step)
           I == {k \in 0 .. n : \E g : Iterates(g, k)}
<1>1. 0 \in I
  <2> DEFINE g == [s \in SUBSET (1 .. 0) |-> base]
  <2>1. SUBSET (1 .. 0) = {{}}
    OBVIOUS
  <2>2. Iterates(g, 0)
    BY <2>1
  <2> HIDE DEF Iterates, g
  <2> QED
    BY <2>2
<1>2. ASSUME NEW k \in 1 .. n, k - 1 \in I
      PROVE  k \in I
  <2>1. PICK g : Iterates(g, k - 1)
    BY <1>2
  <2> DEFINE h == [s \in SUBSET (1 .. k) |-> IF k \in s THEN step[<<g[s \ {k}], k>>] ELSE g[s]]
  <2>2. /\ \A s \in SUBSET (1 .. k) : s \ {k} \in SUBSET (1 .. (k - 1))
        /\ \A s \in SUBSET (1 .. k) : k \notin s => s \in SUBSET (1 .. (k - 1))
        /\ \A s \in SUBSET (1 .. (k - 1)) : s \in SUBSET (1 .. k) /\ k \notin s
    OBVIOUS
  <2>3. \A s \in SUBSET (1 .. (k - 1)) : h[s] = g[s] /\ g[s] \in X
    BY <2>1, <2>2
  <2>4. ASSUME NEW s \in SUBSET (1 .. k), s # {}
        PROVE  h[s] = step[<<h[s \ {Max(s)}], Max(s)>>]
    <3>0. s \in SUBSET (0 .. n)
      OBVIOUS
    <3>1. Max(s) \in s /\ Max(s) \in 1 .. k /\ \A y \in s : y <= Max(s)
      BY <2>4, <3>0, MaxOfSet
    <3>2. CASE k \in s
      <4>1. Max(s) = k
        BY <3>1, <3>2
      <4> QED
        BY <2>2, <2>3, <3>2, <4>1
    <3>3. CASE k \notin s
      <4>1. s \in SUBSET (1 .. (k - 1)) /\ s \ {Max(s)} \in SUBSET (1 .. (k - 1))
        BY <2>2, <3>3
      <4> QED
        BY <2>1, <2>3, <2>4, <4>1
    <3> QED
      BY <3>2, <3>3
  <2>5. h \in [SUBSET (1 .. k) -> X]
    <3>1. ASSUME NEW s \in SUBSET (1 .. k) PROVE h[s] \in X
      <4>1. g[s \ {k}] \in X
        BY <2>2, <2>3
      <4>2. <<g[s \ {k}], k>> \in X \X (1 .. n)
        BY <4>1
      <4>3. k \in s => h[s] \in X
        BY <4>2
      <4>4. k \notin s => h[s] \in X
        BY <2>2, <2>3
      <4> QED
        BY <4>3, <4>4
    <3> QED
      BY <3>1
  <2>6. h[{}] = base
    BY <2>1, <2>3
  <2> HIDE DEF h
  <2>7. Iterates(h, k)
    BY <2>4, <2>5, <2>6
  <2> HIDE DEF Iterates
  <2> QED
    BY <2>7
<1>3. n \in I
  <2> HIDE DEF I
  <2> QED
    BY <1>1, <1>2, Induction
<1> QED
  BY <1>3

LEMMA FoldAgrees ==
  ASSUME NEW X, NEW base \in X, NEW n \in Nat, NEW step \in [X \X (1 .. n) -> X],
         NEW iter, Follows(iter, X, base, n, step)
  PROVE  \E F : OnNumbers(F, X, base, n, step, iter[1 .. n])
<1> USE DEF Follows
<1> DEFINE F == [k \in 0 .. n |-> iter[1 .. k]]
           I == {k \in 0 .. n : iter[1 .. k] \in X}
<1>1. 1 .. 0 = {}
  OBVIOUS
<1>2. ASSUME NEW k \in 1 .. n, iter[1 .. (k - 1)] \in X
      PROVE  iter[1 .. k] = step[<<iter[1 .. (k - 1)], k>>] /\ iter[1 .. k] \in X
  <2>1. Max(1 .. k) \in 1 .. k /\ \A y \in 1 .. k : y <= Max(1 .. k)
    <3>1. 1 .. k \in SUBSET (0 .. n) /\ 1 .. k # {}
      OBVIOUS
    <3> QED
      BY <3>1, MaxOfSet
  <2>2. Max(1 .. k) = k
    BY <2>1
  <2>3. (1 .. k) \ {k} = 1 .. (k - 1) /\ 1 .. k # {} /\ 1 .. k \in SUBSET (1 .. n)
    OBVIOUS
  <2>4. <<iter[1 .. (k - 1)], k>> \in X \X (1 .. n)
    BY <1>2
  <2> QED
    BY <1>2, <2>2, <2>3, <2>4
<1>3. \A k \in 0 .. n : k \in I
  <2>1. 0 \in I
    BY <1>1
  <2>2. ASSUME NEW k \in 1 .. n, k - 1 \in I
        PROVE  k \in I
    <3>1. iter[1 .. (k - 1)] \in X
      BY <2>2
    <3>2. k \in 0 .. n
      OBVIOUS
    <3>3. iter[1 .. k] \in X
      <4> HIDE DEF I
      <4> QED
        BY <1>2, <3>1
    <3> QED
      BY <3>2, <3>3
  <2> HIDE DEF I
  <2> QED
    BY <2>1, <2>2, Induction
<1>4. F \in [0 .. n -> X] /\ F[0] = base /\ F[n] = iter[1 .. n]
  BY <1>1, <1>3
<1>5. \A k \in 1 .. n : F[k] = step[<<F[k - 1], k>>]
  BY <1>2, <1>3
<1> HIDE DEF F
<1> QED
  BY <1>4, <1>5 DEF OnNumbers

----------------------------------------------------------------------------
(* Prefixes of sequences.                                                   *)

LEMMA InitialPart ==
  ASSUME NEW S, NEW a \in Seq(S), NEW l \in 0 .. Len(a)
  PROVE  /\ SubSeq(a, 1, l) \in Seq(S) /\ Len(SubSeq(a, 1, l)) = l
         /\ \A i \in 1 .. l : SubSeq(a, 1, l)[i] = a[i]
OBVIOUS

\* SubSeq takes w values from behind the m-th.
LEMMA MiddlePart ==
  ASSUME NEW S, NEW a \in Seq(S), NEW m \in Nat, NEW low \in Nat, NEW high \in Nat, NEW w \in Nat,
         low = m + 1, high = m + w, high <= Len(a)
  PROVE  /\ SubSeq(a, low, high) \in Seq(S) /\ Len(SubSeq(a, low, high)) = w
         /\ \A x \in 1 .. w : SubSeq(a, low, high)[x] = a[m + x]
<1> DEFINE part == SubSeq(a, low, high)
<1>1. Len(a) \in Nat /\ \A i \in 1 .. Len(a) : a[i] \in S
  OBVIOUS
<1>2. part = [i \in 1 .. (1 + high - low) |-> a[i + low - 1]]
  OBVIOUS
<1>3. 1 + high - low = w /\ \A i \in 1 .. w : i + low - 1 = m + i /\ m + i \in 1 .. Len(a)
  BY <1>1
<1>4. part = [i \in 1 .. w |-> a[m + i]]
  BY <1>2, <1>3
<1> HIDE DEF part
<1>5. part \in [1 .. w -> S]
  BY <1>1, <1>3, <1>4
<1>6. part \in Seq(S) /\ Len(part) = w
  BY <1>5
<1> QED
  BY <1>4, <1>6 DEF part

LEMMA PrefixDef ==
  ASSUME NEW S, NEW a \in Seq(S), NEW b \in Seq(S)
  PROVE  IsPrefix(a, b) <=> Len(a) <= Len(b) /\ \A i \in 1 .. Len(a) : a[i] = b[i]
<1>1. SubSeq(a, 1, Len(a)) = a
  OBVIOUS
<1>2. CASE Len(a) <= Len(b)
  <2> DEFINE c == SubSeq(b, 1, Len(a))
  <2>1. c \in Seq(S) /\ Len(c) = Len(a) /\ \A i \in 1 .. Len(a) : c[i] = b[i]
    BY <1>2
  <2> HIDE DEF c
  <2>2. a = c <=> \A i \in 1 .. Len(a) : a[i] = b[i]
    BY <2>1
  <2> QED
    BY <1>1, <1>2, <2>2 DEF IsPrefix, c
<1> QED
  BY <1>2 DEF IsPrefix

LEMMA StrictPrefixDef ==
  ASSUME NEW S, NEW a \in Seq(S), NEW b \in Seq(S)
  PROVE  IsStrictPrefix(a, b) <=> IsPrefix(a, b) /\ Len(a) < Len(b)
<1>1. Len(a) = Len(b) /\ (\A i \in 1 .. Len(a) : a[i] = b[i]) => a = b
  OBVIOUS
<1> QED
  BY <1>1, PrefixDef DEF IsStrictPrefix

LEMMA PrefixTransitive ==
  ASSUME NEW S, NEW a \in Seq(S), NEW b \in Seq(S), NEW c \in Seq(S),
         IsPrefix(a, b), IsPrefix(b, c)
  PROVE  IsPrefix(a, c)
<1>1. /\ Len(a) \in Nat /\ Len(b) \in Nat /\ Len(c) \in Nat
      /\ Len(a) <= Len(b) /\ Len(b) <= Len(c)
      /\ \A i \in 1 .. Len(a) : a[i] = b[i]
      /\ \A i \in 1 .. Len(b) : b[i] = c[i]
  BY PrefixDef
<1>2. Len(a) <= Len(c) /\ \A i \in 1 .. Len(a) : a[i] = c[i]
  BY <1>1
<1> QED
  BY <1>2, PrefixDef

\* Of two prefixes of a sequence the shorter is one of the longer.
LEMMA PrefixesNest ==
  ASSUME NEW S, NEW a \in Seq(S), NEW b \in Seq(S), NEW c \in Seq(S),
         IsPrefix(a, c), IsPrefix(b, c), Len(a) <= Len(b)
  PROVE  IsPrefix(a, b) /\ (Len(a) = Len(b) => a = b)
<1>1. /\ Len(a) \in Nat /\ Len(b) \in Nat
      /\ \A i \in 1 .. Len(a) : a[i] = c[i]
      /\ \A i \in 1 .. Len(b) : b[i] = c[i]
  BY PrefixDef
<1>2. \A i \in 1 .. Len(a) : a[i] = b[i]
  BY <1>1
<1>3. Len(a) = Len(b) => a = b
  BY <1>2
<1> QED
  BY <1>2, <1>3, PrefixDef

LEMMA ConcatPrefix ==
  ASSUME NEW S, NEW a \in Seq(S), NEW b \in Seq(S)
  PROVE  a \o b \in Seq(S) /\ IsPrefix(a, a \o b)
<1> DEFINE c == a \o b
<1>1. /\ c \in Seq(S) /\ Len(c) = Len(a) + Len(b) /\ Len(b) \in Nat /\ Len(a) \in Nat
      /\ \A i \in 1 .. Len(a) : c[i] = a[i]
  OBVIOUS
<1> HIDE DEF c
<1>2. Len(a) <= Len(c) /\ \A i \in 1 .. Len(a) : a[i] = c[i]
  BY <1>1
<1>3. IsPrefix(a, c)
  BY <1>1, <1>2, PrefixDef
<1> QED
  BY <1>1, <1>3 DEF c

LEMMA EmptyPrefix ==
  ASSUME NEW S, NEW a \in Seq(S)
  PROVE  << >> \in Seq(S) /\ IsPrefix(<< >>, a)
<1> DEFINE e == << >>
<1>1. e \in Seq(S) /\ Len(e) = 0 /\ Len(a) \in Nat
  OBVIOUS
<1> HIDE DEF e
<1>2. Len(e) <= Len(a) /\ \A i \in 1 .. Len(e) : e[i] = a[i]
  BY <1>1
<1>3. IsPrefix(e, a)
  BY <1>1, <1>2, PrefixDef
<1> QED
  BY <1>1, <1>3 DEF e

LEMMA FrontOf ==
  ASSUME NEW S, NEW a \in Seq(S), a # << >>
  PROVE  /\ Front(a) \in Seq(S) /\ Len(Front(a)) = Len(a) - 1 /\ Len(a) \in Nat \ {0}
         /\ IsPrefix(Front(a), a)
<1>1. Len(a) \in Nat \ {0}
  OBVIOUS
<1> DEFINE b == SubSeq(a, 1, Len(a) - 1)
<1>2. /\ b \in Seq(S) /\ Len(b) = Len(a) - 1
      /\ \A i \in 1 .. Len(b) : b[i] = a[i]
  <2>1. Len(a) - 1 \in 0 .. Len(a)
    BY <1>1
  <2> QED
    BY <2>1, InitialPart
<1> HIDE DEF b
<1>3. IsPrefix(b, a)
  BY <1>1, <1>2, PrefixDef
<1> QED
  BY <1>1, <1>2, <1>3 DEF Front, b

\* The prefixes of the front are the strict prefixes.
LEMMA PrefixesOfFront ==
  ASSUME NEW S, NEW a \in Seq(S), a # << >>, NEW d
  PROVE  d \in Prefixes(Front(a)) <=> d \in Seq(S) /\ IsStrictPrefix(d, a)
<1> DEFINE b == Front(a)
<1>1. /\ b \in Seq(S) /\ Len(b) = Len(a) - 1 /\ Len(a) \in Nat \ {0} /\ Len(b) \in Nat
      /\ IsPrefix(b, a)
  BY FrontOf
<1> HIDE DEF b
<1>2. ASSUME d \in Prefixes(b)
      PROVE  d \in Seq(S) /\ IsStrictPrefix(d, a)
  <2>1. PICK l \in 0 .. Len(b) : d = SubSeq(b, 1, l)
    BY <1>2 DEF Prefixes
  <2>2. d \in Seq(S) /\ Len(d) = l /\ \A i \in 1 .. Len(d) : d[i] = b[i]
    BY <1>1, <2>1
  <2>3. Len(d) <= Len(b) /\ Len(d) < Len(a)
    BY <1>1, <2>2
  <2>4. IsPrefix(d, b)
    BY <1>1, <2>2, <2>3, PrefixDef
  <2> QED
    BY <1>1, <2>2, <2>3, <2>4, PrefixTransitive, StrictPrefixDef
<1>3. ASSUME d \in Seq(S), IsStrictPrefix(d, a)
      PROVE  d \in Prefixes(b)
  <2>1. IsPrefix(d, a) /\ Len(d) < Len(a) /\ Len(d) \in Nat
    BY <1>3, StrictPrefixDef
  <2>2. Len(d) <= Len(b)
    BY <1>1, <2>1
  <2>3. IsPrefix(d, b)
    BY <1>1, <1>3, <2>1, <2>2, PrefixesNest
  <2>4. d = SubSeq(b, 1, Len(d))
    <3>1. SubSeq(d, 1, Len(d)) = d
      BY <1>3
    <3> QED
      BY <2>3, <3>1 DEF IsPrefix
  <2>5. Len(d) \in 0 .. Len(b)
    BY <1>1, <2>1, <2>2
  <2> QED
    BY <2>4, <2>5 DEF Prefixes
<1> QED
  BY <1>2, <1>3 DEF b
----------------------------------------------------------------------------
(* Sequences that hold each of their elements once.                         *)

\* Removing an element takes it from the sequence, and nothing else.
LEMMA RemoveFirstValues ==
  ASSUME NEW S, NEW l \in Seq(S), IsInjective(l), NEW e
  PROVE  /\ RemoveFirst(l, e) \in Seq(S) /\ IsInjective(RemoveFirst(l, e))
         /\ ToSet(RemoveFirst(l, e)) = ToSet(l) \ {e}
<1>1. CASE ~ \E i \in 1 .. Len(l) : l[i] = e
  <2>1. RemoveFirst(l, e) = l
    BY <1>1 DEF RemoveFirst
  <2>2. e \notin ToSet(l)
    BY <1>1 DEF ToSet
  <2> QED
    BY <2>1, <2>2
<1>2. CASE \E i \in 1 .. Len(l) : l[i] = e
  <2>1. PICK i \in 1 .. Len(l) : l[i] = e
    BY <1>2
  <2>2. {j \in 1 .. Len(l) : l[j] = e} = {i}
    BY <2>1 DEF IsInjective
  <2>3. Min({i}) = i
    BY <2>1 DEF Min
  <2> DEFINE a == SubSeq(l, 1, i - 1)
             b == SubSeq(l, i + 1, Len(l))
             r == a \o b
  <2>4. RemoveFirst(l, e) = r
    BY <1>2, <2>2, <2>3 DEF RemoveFirst, RemoveAt, SelectInSeq
  <2>5. i - 1 \in 0 .. Len(l) /\ Len(l) \in Nat
    BY <2>1
  <2>6. a \in Seq(S) /\ Len(a) = i - 1 /\ \A j \in 1 .. (i - 1) : a[j] = l[j]
    BY <2>5, InitialPart
  <2>7. b \in Seq(S) /\ Len(b) = Len(l) - i /\ \A j \in 1 .. (Len(l) - i) : b[j] = l[j + i]
    BY <2>1
  <2> HIDE DEF a, b
  <2>8. r \in Seq(S) /\ Len(r) = Len(l) - 1
    BY <2>1, <2>6, <2>7
  <2>9. \A j \in 1 .. (Len(l) - 1) : r[j] = IF j < i THEN l[j] ELSE l[j + 1]
    BY <2>1, <2>6, <2>7
  <2> HIDE DEF r
  <2>10. DOMAIN r = 1 .. (Len(l) - 1) /\ DOMAIN l = 1 .. Len(l)
    BY <2>8
  <2>11. IsInjective(r)
    <3> SUFFICES ASSUME NEW j \in 1 .. (Len(l) - 1), NEW k \in 1 .. (Len(l) - 1), r[j] = r[k]
                 PROVE  j = k
      BY <2>10 DEF IsInjective
    <3> DEFINE at(m) == IF m < i THEN m ELSE m + 1
    <3>1. at(j) \in DOMAIN l /\ at(k) \in DOMAIN l /\ l[at(j)] = l[at(k)]
      BY <2>1, <2>9, <2>10
    <3>2. at(j) = at(k)
      BY <3>1 DEF IsInjective
    <3> QED
      BY <2>1, <3>2
  <2>12. ASSUME NEW x PROVE x \in ToSet(r) <=> x \in ToSet(l) \ {e}
    <3>1. ASSUME x \in ToSet(r) PROVE x \in ToSet(l) \ {e}
      <4>1. PICK j \in 1 .. (Len(l) - 1) : x = r[j]
        BY <2>10, <3>1 DEF ToSet
      <4>2. PICK k \in 1 .. Len(l) : k # i /\ x = l[k]
        <5>1. CASE j < i
          BY <2>1, <2>9, <4>1, <5>1
        <5>2. CASE ~ (j < i)
          <6>1. j + 1 \in 1 .. Len(l) /\ j + 1 # i /\ x = l[j + 1]
            BY <2>1, <2>9, <4>1, <5>2
          <6> QED
            BY <6>1
        <5> QED
          BY <5>1, <5>2
      <4> QED
        BY <2>1, <2>10, <4>2 DEF ToSet, IsInjective
    <3>2. ASSUME x \in ToSet(l) \ {e} PROVE x \in ToSet(r)
      <4>1. PICK j \in 1 .. Len(l) : x = l[j] /\ j # i
        BY <2>1, <2>10, <3>2 DEF ToSet
      <4>2. PICK k \in 1 .. (Len(l) - 1) : x = r[k]
        <5>1. CASE j < i
          BY <2>1, <2>9, <4>1, <5>1
        <5>2. CASE ~ (j < i)
          <6>1. j - 1 \in 1 .. (Len(l) - 1) /\ ~ (j - 1 < i) /\ (j - 1) + 1 = j
            BY <2>1, <4>1, <5>2
          <6>2. x = r[j - 1]
            BY <2>9, <4>1, <6>1
          <6> QED
            BY <6>1, <6>2
        <5> QED
          BY <5>1, <5>2
      <4> QED
        BY <2>10, <4>2 DEF ToSet
    <3> QED
      BY <3>1, <3>2
  <2> QED
    BY <2>4, <2>8, <2>11, <2>12
<1> QED
  BY <1>1, <1>2

LEMMA AppendValues ==
  ASSUME NEW S, NEW l \in Seq(S), IsInjective(l), NEW e \in S, e \notin ToSet(l)
  PROVE  /\ Append(l, e) \in Seq(S) /\ IsInjective(Append(l, e))
         /\ ToSet(Append(l, e)) = ToSet(l) \cup {e}
<1> DEFINE r == Append(l, e)
<1>1. /\ r \in Seq(S) /\ Len(r) = Len(l) + 1 /\ Len(l) \in Nat
      /\ \A i \in 1 .. Len(l) : r[i] = l[i]
      /\ r[Len(l) + 1] = e
  OBVIOUS
<1> HIDE DEF r
<1>2. DOMAIN r = 1 .. (Len(l) + 1) /\ DOMAIN l = 1 .. Len(l)
  BY <1>1
<1>3. \A i \in 1 .. Len(l) : l[i] # e /\ l[i] \in ToSet(l)
  BY <1>2 DEF ToSet
<1>4. IsInjective(r)
  <2> SUFFICES ASSUME NEW i \in 1 .. (Len(l) + 1), NEW j \in 1 .. (Len(l) + 1), r[i] = r[j]
               PROVE  i = j
    BY <1>2 DEF IsInjective
  <2>1. CASE i \in 1 .. Len(l) /\ j \in 1 .. Len(l)
    <3>1. l[i] = l[j]
      BY <1>1, <2>1
    <3> QED
      BY <1>2, <2>1, <3>1 DEF IsInjective
  <2>2. CASE i = Len(l) + 1 \/ j = Len(l) + 1
    <3>1. i \in 1 .. Len(l) => r[i] # e
      BY <1>1, <1>3
    <3>2. j \in 1 .. Len(l) => r[j] # e
      BY <1>1, <1>3
    <3> QED
      BY <1>1, <2>2, <3>1, <3>2
  <2> QED
    BY <1>1, <2>1, <2>2
<1>5. ASSUME NEW x PROVE x \in ToSet(r) <=> x \in ToSet(l) \cup {e}
  <2>1. x \in ToSet(r) <=> \E i \in 1 .. (Len(l) + 1) : x = r[i]
    BY <1>2 DEF ToSet
  <2>2. x \in ToSet(l) <=> \E i \in 1 .. Len(l) : x = l[i]
    BY <1>2 DEF ToSet
  <2>3. 1 .. (Len(l) + 1) = (1 .. Len(l)) \cup {Len(l) + 1}
    BY <1>1
  <2> QED
    BY <1>1, <2>1, <2>2, <2>3
<1> QED
  BY <1>1, <1>4, <1>5 DEF r

\* The orders of a finite set are its sequences that hold each element once.
LEMMA OrderValues ==
  ASSUME NEW S, IsFiniteSet(S), NEW l \in SetToSeqs(S)
  PROVE  /\ l \in Seq(S) /\ IsInjective(l) /\ ToSet(l) = S
         /\ Len(l) = Cardinality(S) /\ Cardinality(S) \in Nat
<1> DEFINE n == Cardinality(S)
<1>1. n \in Nat
  BY FS_CardinalityType
<1>2. l \in [1 .. n -> S] /\ \A i, j \in 1 .. n : i # j => l[i] # l[j]
  BY DEF SetToSeqs
<1>3. IsFiniteSet(1 .. n) /\ Cardinality(1 .. n) = n
  BY <1>1, FS_Interval
<1> HIDE DEF n
<1>4. l \in Seq(S) /\ DOMAIN l = 1 .. n /\ Len(l) = n
  BY <1>1, <1>2
<1>5. IsInjective(l)
  BY <1>2, <1>4 DEF IsInjective
<1>6. l \in Injection(1 .. n, S)
  BY <1>2, <1>5 DEF Injection
<1>7. l \in Surjection(1 .. n, S)
  BY <1>3, <1>6, FS_Injection DEF n
<1>8. ToSet(l) = S
  BY <1>2, <1>4, <1>7 DEF Surjection, ToSet
<1> QED
  BY <1>1, <1>4, <1>5, <1>8 DEF n

\* The same for the orders of its subsets.
LEMMA PermutationValues ==
  ASSUME NEW S, IsFiniteSet(S), NEW l \in SetToAllKPermutations(S)
  PROVE  l \in Seq(S) /\ IsInjective(l) /\ ToSet(l) \in SUBSET S
<1>1. PICK s \in SUBSET S : l \in SetToSeqs(s)
  BY DEF SetToAllKPermutations
<1>2. IsFiniteSet(s)
  BY FS_Subset
<1>3. l \in Seq(s) /\ IsInjective(l) /\ ToSet(l) = s
  BY <1>1, <1>2, OrderValues
<1> QED
  BY <1>3

LEMMA ToSetFinite ==
  ASSUME NEW S, NEW l \in Seq(S)
  PROVE  IsFiniteSet(ToSet(l)) /\ ToSet(l) \in SUBSET S
<1>1. Len(l) \in Nat /\ DOMAIN l = 1 .. Len(l) /\ l \in [1 .. Len(l) -> S]
  OBVIOUS
<1>2. IsFiniteSet(1 .. Len(l))
  BY <1>1, FS_Interval
<1>3. l \in Surjection(1 .. Len(l), ToSet(l))
  BY <1>1 DEF Surjection, ToSet
<1>4. IsFiniteSet(ToSet(l))
  BY <1>2, <1>3, FS_Surjection
<1> QED
  BY <1>1, <1>4 DEF ToSet

\* A new member makes a finite set larger by one.
LEMMA OneMore ==
  ASSUME NEW s, IsFiniteSet(s), NEW x, x \notin s
  PROVE  Cardinality(s \cup {x}) = Cardinality(s) + 1
BY FS_AddElement

----------------------------------------------------------------------------
(* FlattenSeq, one member after the other.                                 *)

FlatStep(seqs, f, k) ==
  f = [i \in 1 .. k |-> IF i = 1 THEN seqs[i] ELSE f[i - 1] \o seqs[i]]

\* The recursive function in FlattenSeq exists.
LEMMA FlattenUnfolds ==
  ASSUME NEW S, NEW seqs \in Seq(Seq(S)), Len(seqs) # 0
  PROVE  \E F \in [1 .. Len(seqs) -> Seq(S)] :
           FlatStep(seqs, F, Len(seqs)) /\ FlattenSeq(seqs) = F[Len(seqs)]
<1> DEFINE n == Len(seqs)
           Good(f, k) == f \in [1 .. k -> Seq(S)] /\ FlatStep(seqs, f, k)
           I == {k \in 0 .. n : \E f : Good(f, k)}
           F == CHOOSE f : f = [i \in 1 .. n |-> IF i = 1 THEN seqs[i] ELSE f[i - 1] \o seqs[i]]
<1>0. n \in Nat
  OBVIOUS
<1>1. n \in Nat /\ n # 0 /\ \A i \in 1 .. n : seqs[i] \in Seq(S)
  OBVIOUS
<1>2. 0 \in I
  <2> DEFINE f == [i \in 1 .. 0 |-> IF i = 1 THEN seqs[i] ELSE <<>>]
  <2>1. 1 .. 0 = {}
    OBVIOUS
  <2>2. Good(f, 0)
    BY <2>1 DEF FlatStep
  <2> HIDE DEF Good
  <2> QED
    BY <1>1, <2>2
<1>3. ASSUME NEW k \in 1 .. n, k - 1 \in I
      PROVE  k \in I
  <2>1. PICK f : Good(f, k - 1)
    BY <1>3
  <2> DEFINE last == IF k = 1 THEN seqs[k] ELSE f[k - 1] \o seqs[k]
             g == [i \in 1 .. k |-> IF i = k THEN last ELSE f[i]]
  <2>2. 1 .. k = (1 .. (k - 1)) \cup {k} /\ k \notin 1 .. (k - 1)
    OBVIOUS
  <2>3. last \in Seq(S)
    <3>1. k # 1 => f[k - 1] \in Seq(S)
      BY <2>1
    <3>2. seqs[k] \in Seq(S)
      BY <1>1
    <3>3. \A x, y \in Seq(S) : x \o y \in Seq(S)
      OBVIOUS
    <3> QED
      BY <3>1, <3>2, <3>3
  <2>4. g \in [1 .. k -> Seq(S)]
    <3> HIDE DEF last
    <3> QED
      BY <2>1, <2>2, <2>3
  <2>5. \A i \in 1 .. k : i # 1 => i - 1 \in 1 .. (k - 1)
    OBVIOUS
  <2>6. \A i \in 1 .. (k - 1) : f[i] = IF i = 1 THEN seqs[i] ELSE f[i - 1] \o seqs[i]
    BY <2>1 DEF FlatStep
  <2>7. ASSUME NEW i \in 1 .. k
        PROVE  g[i] = IF i = 1 THEN seqs[i] ELSE g[i - 1] \o seqs[i]
    <3>1. i # 1 => g[i - 1] = f[i - 1]
      BY <2>2, <2>5
    <3>2. CASE i = k
      BY <3>1, <3>2
    <3>3. CASE i # k
      BY <2>2, <2>6, <3>1, <3>3
    <3> QED
      BY <3>2, <3>3
  <2>8. Good(g, k)
    <3> HIDE DEF last
    <3>1. g = [i \in 1 .. k |-> g[i]]
      OBVIOUS
    <3> HIDE DEF g
    <3> QED
      BY <2>4, <2>7, <3>1 DEF FlatStep
  <2> HIDE DEF g, last, Good
  <2> QED
    BY <1>1, <2>8
<1>4. \E f : f = [i \in 1 .. n |-> IF i = 1 THEN seqs[i] ELSE f[i - 1] \o seqs[i]]
  <2>1. n \in I
    <3> HIDE DEF I
    <3>1. \A k \in 0 .. n : k \in I
      BY <1>0, <1>2, <1>3, Induction
    <3> QED
      BY <1>1, <3>1
  <2> QED
    BY <2>1 DEF FlatStep
<1>5. F = [i \in 1 .. n |-> IF i = 1 THEN seqs[i] ELSE F[i - 1] \o seqs[i]]
  BY <1>4, Zenon
<1>6. FlattenSeq(seqs) = F[n]
  BY <1>1 DEF FlattenSeq
<1> HIDE DEF F
<1>7. \A i \in 1 .. n : F[i] = IF i = 1 THEN seqs[i] ELSE F[i - 1] \o seqs[i]
  BY <1>5
<1>8. \A i \in 1 .. n : F[i] \in Seq(S)
  <2> DEFINE J == {k \in 0 .. n : k # 0 => F[k] \in Seq(S)}
  <2>1. 0 \in J
    BY <1>1
  <2>2. ASSUME NEW k \in 1 .. n, k - 1 \in J
        PROVE  k \in J
    <3>1. F[k] = IF k = 1 THEN seqs[k] ELSE F[k - 1] \o seqs[k]
      BY <1>7
    <3>2. k # 1 => F[k - 1] \in Seq(S)
      BY <2>2
    <3>3. \A x, y \in Seq(S) : x \o y \in Seq(S)
      OBVIOUS
    <3>4. F[k] \in Seq(S)
      <4>1. CASE k = 1
        BY <1>1, <3>1, <4>1
      <4>2. CASE k # 1
        BY <1>1, <3>1, <3>2, <3>3, <4>2
      <4> QED
        BY <4>1, <4>2
    <3> QED
      BY <3>4
  <2> HIDE DEF J
  <2>3. \A k \in 0 .. n : k \in J
    BY <1>0, <2>1, <2>2, Induction
  <2> QED
    BY <2>3 DEF J
<1>9. F \in [1 .. n -> Seq(S)]
  <2>1. F = [i \in 1 .. n |-> F[i]]
    BY <1>5
  <2> QED
    BY <1>8, <2>1
<1> QED
  BY <1>5, <1>6, <1>9 DEF FlatStep

\* M[i] runes come of the first i members.
Laid(seqs, flat, M) ==
  /\ M \in [0 .. Len(seqs) -> Nat]
  /\ M[0] = 0 /\ Len(flat) = M[Len(seqs)]
  /\ \A i \in 1 .. Len(seqs) :
       /\ M[i] = M[i - 1] + Len(seqs[i])
       /\ \A b \in 1 .. Len(seqs[i]) : flat[M[i - 1] + b] = seqs[i][b]

\* FlattenSeq lays its members one after the other.
LEMMA FlattenValues ==
  ASSUME NEW S, NEW seqs \in Seq(Seq(S))
  PROVE  FlattenSeq(seqs) \in Seq(S) /\ \E M : Laid(seqs, FlattenSeq(seqs), M)
<1>1. CASE Len(seqs) = 0
  <2>1. FlattenSeq(seqs) = seqs /\ seqs = <<>>
    BY <1>1 DEF FlattenSeq
  <2> DEFINE M == [i \in 0 .. Len(seqs) |-> 0]
  <2>2. M \in [0 .. Len(seqs) -> Nat] /\ M[0] = 0 /\ M[Len(seqs)] = 0 /\ 1 .. Len(seqs) = {}
    BY <1>1
  <2>3. Laid(seqs, seqs, M)
    BY <1>1, <2>2 DEF Laid
  <2>4. <<>> \in Seq(S)
    OBVIOUS
  <2> HIDE DEF M
  <2> QED
    BY <2>1, <2>3, <2>4
<1>2. CASE Len(seqs) # 0
  <2> DEFINE n == Len(seqs)
  <2>1. PICK F \in [1 .. n -> Seq(S)] : FlatStep(seqs, F, n) /\ FlattenSeq(seqs) = F[n]
    BY <1>2, FlattenUnfolds
  <2>2. n \in Nat /\ n # 0 /\ \A i \in 1 .. n : seqs[i] \in Seq(S)
    BY <1>2
  <2>3. /\ F[1] = seqs[1]
        /\ \A i \in 1 .. n : i # 1 => F[i] = F[i - 1] \o seqs[i] /\ i - 1 \in 1 .. n
    <3>1. \A i \in 1 .. n : F[i] = IF i = 1 THEN seqs[i] ELSE F[i - 1] \o seqs[i]
      BY <2>1 DEF FlatStep
    <3>2. \A i \in 1 .. n : i # 1 => i - 1 \in 1 .. n
      OBVIOUS
    <3>3. 1 \in 1 .. n
      BY <2>2
    <3>4. F[1] = seqs[1]
      BY <3>1, <3>3
    <3>5. \A i \in 1 .. n : i # 1 => F[i] = F[i - 1] \o seqs[i]
      BY <3>1
    <3> QED
      BY <3>2, <3>4, <3>5
  <2>4. \A i \in 1 .. n : F[i] \in Seq(S) /\ Len(F[i]) \in Nat
    <3>1. \A i \in 1 .. n : F[i] \in Seq(S)
      BY <2>1
    <3> QED
      BY <3>1
  <2>5. \A x, y \in Seq(S) :
          /\ Len(x \o y) = Len(x) + Len(y)
          /\ \A b \in 1 .. Len(x) : (x \o y)[b] = x[b]
          /\ \A b \in 1 .. Len(y) : (x \o y)[Len(x) + b] = y[b]
    OBVIOUS
  <2> DEFINE M == [i \in 0 .. n |-> IF i = 0 THEN 0 ELSE Len(F[i])]
  <2>6. M \in [0 .. n -> Nat] /\ M[0] = 0 /\ \A i \in 1 .. n : M[i] = Len(F[i])
    BY <2>2, <2>4
  <2> HIDE DEF M
  <2>7. ASSUME NEW i \in 1 .. n
        PROVE  /\ M[i] = M[i - 1] + Len(seqs[i])
               /\ \A b \in 1 .. Len(seqs[i]) : F[i][M[i - 1] + b] = seqs[i][b]
    <3>1. CASE i = 1
      <4>1. M[i - 1] = 0 /\ M[i] = Len(seqs[i]) /\ Len(seqs[i]) \in Nat
        BY <2>2, <2>3, <2>6, <3>1
      <4> QED
        BY <2>3, <3>1, <4>1
    <3>2. CASE i # 1
      <4>1. /\ F[i] = F[i - 1] \o seqs[i] /\ M[i - 1] = Len(F[i - 1]) /\ M[i] = Len(F[i])
            /\ F[i - 1] \in Seq(S) /\ seqs[i] \in Seq(S)
        BY <2>2, <2>3, <2>4, <2>6, <3>2
      <4> DEFINE x == F[i - 1]
                 y == seqs[i]
      <4>2. x \in Seq(S) /\ y \in Seq(S) /\ F[i] = x \o y /\ M[i - 1] = Len(x) /\ M[i] = Len(F[i])
        BY <4>1
      <4>3. M[i] = M[i - 1] + Len(y) /\ \A b \in 1 .. Len(y) : F[i][M[i - 1] + b] = y[b]
        <5> HIDE DEF x, y
        <5> QED
          BY <2>5, <4>2
      <4> QED
        BY <4>3
    <3> QED
      BY <3>1, <3>2
  \* What is laid stays where it is.
  <2> DEFINE Keeps(i, k) ==
               Len(F[i]) <= Len(F[k]) /\ \A x \in 1 .. Len(F[i]) : F[k][x] = F[i][x]
             J == {k \in 0 .. n : \A i \in 1 .. k : Keeps(i, k)}
  <2>8. \A i \in 1 .. n : \A k \in i .. n : Keeps(i, k)
    <3>1. 0 \in J
      BY <2>2
    <3>2. ASSUME NEW k \in 1 .. n, k - 1 \in J
          PROVE  k \in J
      <4>1. ASSUME NEW i \in 1 .. k
            PROVE  Keeps(i, k)
        <5>1. CASE i = k
          BY <2>4, <5>1
        <5>2. CASE i # k
          <6>1. /\ i \in 1 .. (k - 1) /\ k # 1 /\ k - 1 \in 1 .. n /\ i \in 1 .. n
            BY <5>2
          <6>2. Keeps(i, k - 1)
            BY <3>2, <6>1
          <6>3. F[k] = F[k - 1] \o seqs[k] /\ F[k - 1] \in Seq(S) /\ seqs[k] \in Seq(S)
            BY <2>2, <2>3, <2>4, <6>1
          <6>4. Keeps(k - 1, k)
            <7> DEFINE x == F[k - 1]
                       y == seqs[k]
            <7>1. x \in Seq(S) /\ y \in Seq(S) /\ F[k] = x \o y /\ Len(x) \in Nat /\ Len(y) \in Nat
              BY <6>3
            <7>2. Len(x) <= Len(F[k]) /\ \A b \in 1 .. Len(x) : F[k][b] = x[b]
              <8> HIDE DEF x, y
              <8> QED
                BY <2>5, <7>1
            <7> QED
              BY <7>2
          <6>5. Len(F[i]) \in Nat /\ Len(F[k - 1]) \in Nat /\ Len(F[k]) \in Nat
            BY <2>4, <6>1
          <6>6. 1 .. Len(F[i]) \subseteq 1 .. Len(F[k - 1])
            BY <6>2, <6>5
          <6> QED
            BY <6>2, <6>4, <6>5, <6>6
        <5> QED
          BY <5>1, <5>2
      <4> HIDE DEF Keeps
      <4> QED
        BY <4>1
    <3> HIDE DEF J
    <3>3. \A k \in 0 .. n : k \in J
      BY <2>2, <3>1, <3>2, Induction
    <3>4. ASSUME NEW i \in 1 .. n, NEW k \in i .. n
          PROVE  Keeps(i, k)
      <4>1. k \in 0 .. n /\ i \in 1 .. k
        OBVIOUS
      <4>2. k \in J
        BY <3>3, <4>1
      <4> HIDE DEF Keeps
      <4> QED
        BY <4>1, <4>2 DEF J
    <3> HIDE DEF Keeps
    <3> QED
      BY <3>4
  <2>9. ASSUME NEW i \in 1 .. n, NEW b \in 1 .. Len(seqs[i])
        PROVE  F[n][M[i - 1] + b] = seqs[i][b]
    <3>1. n \in i .. n /\ i - 1 \in 0 .. n
      BY <2>2
    <3>2. Keeps(i, n)
      BY <2>8, <3>1
    <3>3. M[i - 1] + b \in 1 .. Len(F[i])
      <4>1. M[i] = M[i - 1] + Len(seqs[i]) /\ M[i] = Len(F[i]) /\ M[i - 1] \in Nat
        BY <2>6, <2>7, <3>1
      <4>2. Len(seqs[i]) \in Nat
        BY <2>2
      <4> DEFINE w == Len(seqs[i])
                 before == M[i - 1]
      <4>3. before + w = Len(F[i]) /\ before \in Nat /\ w \in Nat /\ b \in 1 .. w
        BY <4>1, <4>2
      <4>4. before + b \in 1 .. (before + w)
        <5> HIDE DEF w, before
        <5> QED
          BY <4>3
      <4> QED
        BY <4>3, <4>4
    <3> QED
      BY <2>7, <3>2, <3>3
  <2>10. Len(F[n]) = M[n] /\ F[n] \in Seq(S)
    BY <2>2, <2>4, <2>6
  <2> HIDE DEF Keeps
  <2>11. Laid(seqs, F[n], M)
    BY <2>6, <2>7, <2>9, <2>10 DEF Laid
  <2> QED
    BY <2>1, <2>10, <2>11
<1> QED
  BY <1>1, <1>2
=============================================================================
