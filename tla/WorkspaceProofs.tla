-------------------------- MODULE WorkspaceProofs ---------------------------
(***************************************************************************)
(* Whatever the folders, the settings and the plato.yaml files are, which   *)
(* project forFile assigns to a document.                                   *)
(***************************************************************************)
EXTENDS Workspace, DataTheorems

USE DEF Inside

----------------------------------------------------------------------------
(* The slice of folders.                                                    *)

\* A removal takes the folders of the event from the slice, and no other.
LEMMA RemoveEachValues ==
  ASSUME NEW S, NEW list \in Seq(S), IsInjective(list), NEW T, NEW removed \in Seq(T)
  PROVE  /\ RemoveEach(list, removed) \in Seq(S) /\ IsInjective(RemoveEach(list, removed))
         /\ ToSet(RemoveEach(list, removed)) = ToSet(list) \ ToSet(removed)
<1> DEFINE n == Len(removed)
           X == {l \in Seq(S) : IsInjective(l)}
           step == [p \in X \X (1 .. n) |-> RemoveFirst(p[1], removed[p[2]])]
           Sol(it) == it = [s \in SUBSET (1 .. n) |->
                        IF s = {} THEN list ELSE RemoveFirst(it[s \ {Max(s)}], removed[Max(s)])]
           iter == CHOOSE it : Sol(it)
<1>1. n \in Nat /\ DOMAIN removed = 1 .. n
  OBVIOUS
<1>2. RemoveEach(list, removed) = iter[1 .. n]
  BY <1>1 DEF RemoveEach, FoldLeft, MapThenFoldSet
<1>3. step \in [X \X (1 .. n) -> X] /\ list \in X
  BY RemoveFirstValues
<1>4. \A l \in X, k \in 1 .. n : step[<<l, k>>] = RemoveFirst(l, removed[k])
  OBVIOUS
<1>5. \A s \in SUBSET (1 .. n) : s # {} => Max(s) \in s
  <2>1. SUBSET (1 .. n) \subseteq SUBSET (0 .. n)
    OBVIOUS
  <2> QED
    BY <1>1, <2>1, MaxOfSet
<1> HIDE DEF n, X, step, Sol, iter
<1>6. Sol(iter)
  <2>1. PICK g : OnSets(g, X, list, n, step)
    BY <1>1, <1>3, FoldIterates
  <2>2. \A s \in SUBSET (1 .. n) :
          g[s] = IF s = {} THEN list ELSE RemoveFirst(g[s \ {Max(s)}], removed[Max(s)])
    <3>1. \A s \in SUBSET (1 .. n) : s \ {Max(s)} \in SUBSET (1 .. n)
      OBVIOUS
    <3> QED
      BY <1>4, <1>5, <2>1, <3>1 DEF OnSets
  <2>3. Sol(g)
    BY <2>1, <2>2 DEF Sol, OnSets
  <2> QED
    BY <2>3 DEF iter
<1>7. PICK F : OnNumbers(F, X, list, n, step, iter[1 .. n])
  <2>1. \A s \in SUBSET (1 .. n) : s # {} /\ iter[s \ {Max(s)}] \in X =>
          iter[s] = step[<<iter[s \ {Max(s)}], Max(s)>>]
    BY <1>4, <1>5, <1>6 DEF Sol
  <2>2. Follows(iter, X, list, n, step)
    BY <1>6, <2>1 DEF Sol, Follows
  <2> QED
    BY <1>1, <1>3, <2>2, FoldAgrees
<1> DEFINE I == {k \in 0 .. n : ToSet(F[k]) = ToSet(list) \ {removed[i] : i \in 1 .. k}}
<1>8. \A k \in 0 .. n : k \in I
  <2>1. 0 \in I
    <3>1. 1 .. 0 = {}
      OBVIOUS
    <3> QED
      BY <1>1, <1>7, <3>1 DEF OnNumbers
  <2>2. ASSUME NEW k \in 1 .. n, k - 1 \in I
        PROVE  k \in I
    <3>1. F[k - 1] \in X /\ F[k] = RemoveFirst(F[k - 1], removed[k]) /\ k \in 0 .. n
      <4>1. k \in 0 .. n /\ k - 1 \in 0 .. n
        BY <1>1
      <4> QED
        BY <1>4, <1>7, <4>1 DEF OnNumbers
    <3>2. ToSet(F[k]) = ToSet(F[k - 1]) \ {removed[k]}
      BY <3>1, RemoveFirstValues DEF X
    <3>3. 1 .. k = (1 .. (k - 1)) \cup {k}
      BY <1>1
    <3> QED
      BY <2>2, <3>1, <3>2, <3>3
  <2> HIDE DEF I
  <2> QED
    BY <1>1, <2>1, <2>2, Induction
<1>9. ToSet(removed) = {removed[i] : i \in 1 .. n}
  BY <1>1 DEF ToSet
<1>10. F[n] \in X /\ n \in I
  BY <1>1, <1>7, <1>8 DEF OnNumbers
<1> QED
  BY <1>2, <1>7, <1>9, <1>10 DEF X, OnNumbers

\* An addition puts the folders of the event that are in the file system behind
\* those that are there.
LEMMA AddEachValues ==
  ASSUME NEW S, NEW list \in Seq(S), IsInjective(list),
         NEW added \in Seq(S \cup {Virtual}), IsInjective(added),
         ToSet(list) \cap ToSet(added) = {}
  PROVE  /\ AddEach(list, added) \in Seq(S) /\ IsInjective(AddEach(list, added))
         /\ ToSet(AddEach(list, added)) = ToSet(list) \cup (ToSet(added) \ {Virtual})
<1> DEFINE n == Len(added)
           X == Seq(S)
           next(l, k) == IF added[k] = Virtual THEN l ELSE Append(l, added[k])
           step == [p \in X \X (1 .. n) |-> next(p[1], p[2])]
           Sol(it) == it = [s \in SUBSET (1 .. n) |->
                        IF s = {} THEN list ELSE next(it[s \ {Max(s)}], Max(s))]
           iter == CHOOSE it : Sol(it)
<1>1. /\ n \in Nat /\ DOMAIN added = 1 .. n
      /\ \A k \in 1 .. n : added[k] \in S \cup {Virtual}
  OBVIOUS
<1>2. AddEach(list, added) = iter[1 .. n]
  BY <1>1 DEF AddEach, FoldLeft, MapThenFoldSet
<1>3. step \in [X \X (1 .. n) -> X] /\ list \in X
  <2>1. ASSUME NEW p \in X \X (1 .. n) PROVE next(p[1], p[2]) \in X
    <3>1. p[1] \in X /\ p[2] \in 1 .. n
      OBVIOUS
    <3> QED
      BY <1>1, <3>1
  <2> QED
    BY <2>1
<1>4. \A l \in X, k \in 1 .. n : step[<<l, k>>] = next(l, k)
  OBVIOUS
<1>5. \A s \in SUBSET (1 .. n) : s # {} => Max(s) \in s
  <2>1. SUBSET (1 .. n) \subseteq SUBSET (0 .. n)
    OBVIOUS
  <2> QED
    BY <1>1, <2>1, MaxOfSet
<1> HIDE DEF n, X, next, step, Sol, iter
<1>6. Sol(iter)
  <2>1. PICK g : OnSets(g, X, list, n, step)
    BY <1>1, <1>3, FoldIterates
  <2>2. \A s \in SUBSET (1 .. n) :
          g[s] = IF s = {} THEN list ELSE next(g[s \ {Max(s)}], Max(s))
    <3>1. \A s \in SUBSET (1 .. n) : s \ {Max(s)} \in SUBSET (1 .. n)
      OBVIOUS
    <3> QED
      BY <1>4, <1>5, <2>1, <3>1 DEF OnSets
  <2>3. Sol(g)
    BY <2>1, <2>2 DEF Sol, OnSets
  <2> QED
    BY <2>3 DEF iter
<1>7. PICK F : OnNumbers(F, X, list, n, step, iter[1 .. n])
  <2>1. \A s \in SUBSET (1 .. n) : s # {} /\ iter[s \ {Max(s)}] \in X =>
          iter[s] = step[<<iter[s \ {Max(s)}], Max(s)>>]
    BY <1>4, <1>5, <1>6 DEF Sol
  <2>2. Follows(iter, X, list, n, step)
    BY <1>6, <2>1 DEF Sol, Follows
  <2> QED
    BY <1>1, <1>3, <2>2, FoldAgrees
<1> DEFINE Before(k) == {added[i] : i \in 1 .. k}
           I == {k \in 0 .. n : /\ IsInjective(F[k])
                                /\ ToSet(F[k]) = ToSet(list) \cup (Before(k) \ {Virtual})}
<1>8. \A k \in 0 .. n : k \in I
  <2>1. 0 \in I
    <3>1. 1 .. 0 = {}
      OBVIOUS
    <3> QED
      BY <1>1, <1>7, <3>1 DEF OnNumbers
  <2>2. ASSUME NEW k \in 1 .. n, k - 1 \in I
        PROVE  k \in I
    <3>1. F[k - 1] \in X /\ F[k] = next(F[k - 1], k) /\ k \in 0 .. n
      <4>1. k \in 0 .. n /\ k - 1 \in 0 .. n
        BY <1>1
      <4> QED
        BY <1>4, <1>7, <4>1 DEF OnNumbers
    <3>2. 1 .. k = (1 .. (k - 1)) \cup {k} /\ k \notin 1 .. (k - 1)
      BY <1>1
    <3>3. Before(k) = Before(k - 1) \cup {added[k]}
      BY <3>2
    <3>4. added[k] \notin Before(k - 1) /\ added[k] \notin ToSet(list)
      <4>1. k \in DOMAIN added /\ 1 .. (k - 1) \subseteq DOMAIN added
        BY <1>1
      <4>2. added[k] \in ToSet(added)
        BY <4>1 DEF ToSet
      <4> QED
        BY <3>2, <4>1, <4>2 DEF IsInjective
    <3>5. IsInjective(F[k - 1]) /\ ToSet(F[k - 1]) = ToSet(list) \cup (Before(k - 1) \ {Virtual})
      BY <2>2
    <3> HIDE DEF Before
    <3>6. CASE added[k] = Virtual
      BY <3>1, <3>3, <3>5, <3>6 DEF next
    <3>7. CASE added[k] # Virtual
      <4>1. F[k] = Append(F[k - 1], added[k]) /\ added[k] \in S
        BY <1>1, <3>1, <3>7 DEF next
      <4>2. IsInjective(F[k]) /\ ToSet(F[k]) = ToSet(F[k - 1]) \cup {added[k]}
        BY <3>1, <3>4, <3>5, <4>1, AppendValues DEF X
      <4> QED
        BY <3>1, <3>3, <3>5, <3>7, <4>2
    <3> QED
      BY <3>6, <3>7
  <2> HIDE DEF I
  <2> QED
    BY <1>1, <2>1, <2>2, Induction
<1>9. ToSet(added) = Before(n)
  BY <1>1 DEF ToSet
<1>10. F[n] \in X /\ n \in I
  BY <1>1, <1>7, <1>8 DEF OnNumbers
<1> QED
  BY <1>2, <1>7, <1>9, <1>10 DEF X, OnNumbers

----------------------------------------------------------------------------
(* The innermost folder of a document.                                      *)

\* dirs is the longest of the list's folders that contain the file, if any does.
IsLongest(dirs, list, file) ==
  \/ dirs = {} /\ \A dir \in ToSet(list) : ~ Inside(dir, file)
  \/ \E dir \in ToSet(list) :
       /\ dirs = {dir} /\ Inside(dir, file)
       /\ \A other \in ToSet(list) : Inside(other, file) => Len(other) <= Len(dir)

\* The loop over the folders finds it, in whatever order they come.
LEMMA LongestFolderValue ==
  ASSUME NEW S, NEW list \in Seq(Seq(S)), NEW file
  PROVE  IsLongest(LongestFolder(list, file), list, file)
<1> DEFINE n == Len(list)
           D == ToSet(list)
           X == {{}} \cup {{dir} : dir \in D}
           next(best, k) == IF Inside(list[k], file) /\ \A b \in best : Len(list[k]) > Len(b)
                            THEN {list[k]} ELSE best
           step == [p \in X \X (1 .. n) |-> next(p[1], p[2])]
           Sol(it) == it = [s \in SUBSET (1 .. n) |->
                        IF s = {} THEN {} ELSE next(it[s \ {Max(s)}], Max(s))]
           iter == CHOOSE it : Sol(it)
<1>1. n \in Nat /\ DOMAIN list = 1 .. n /\ \A k \in 1 .. n : Len(list[k]) \in Nat
  OBVIOUS
<1>2. LongestFolder(list, file) = iter[1 .. n]
  BY <1>1 DEF LongestFolder, FoldLeft, MapThenFoldSet
<1>3. step \in [X \X (1 .. n) -> X] /\ {} \in X
  <2>1. \A k \in 1 .. n : {list[k]} \in X
    BY <1>1 DEF ToSet
  <2>2. ASSUME NEW p \in X \X (1 .. n) PROVE next(p[1], p[2]) \in X
    <3>1. p[1] \in X /\ p[2] \in 1 .. n
      OBVIOUS
    <3> HIDE DEF X
    <3> QED
      BY <2>1, <3>1
  <2> QED
    BY <2>2
<1>4. \A best \in X, k \in 1 .. n : step[<<best, k>>] = next(best, k)
  OBVIOUS
<1>5. \A s \in SUBSET (1 .. n) : s # {} => Max(s) \in s
  <2>1. SUBSET (1 .. n) \subseteq SUBSET (0 .. n)
    OBVIOUS
  <2> QED
    BY <1>1, <2>1, MaxOfSet
<1> HIDE DEF n, X, next, step, Sol, iter
<1>6. Sol(iter)
  <2>1. PICK g : OnSets(g, X, {}, n, step)
    BY <1>1, <1>3, FoldIterates
  <2>2. \A s \in SUBSET (1 .. n) :
          g[s] = IF s = {} THEN {} ELSE next(g[s \ {Max(s)}], Max(s))
    <3>1. \A s \in SUBSET (1 .. n) : s \ {Max(s)} \in SUBSET (1 .. n)
      OBVIOUS
    <3> QED
      BY <1>4, <1>5, <2>1, <3>1 DEF OnSets
  <2>3. Sol(g)
    BY <2>1, <2>2 DEF Sol, OnSets
  <2> QED
    BY <2>3 DEF iter
<1>7. PICK F : OnNumbers(F, X, {}, n, step, iter[1 .. n])
  <2>1. \A s \in SUBSET (1 .. n) : s # {} /\ iter[s \ {Max(s)}] \in X =>
          iter[s] = step[<<iter[s \ {Max(s)}], Max(s)>>]
    BY <1>4, <1>5, <1>6 DEF Sol
  <2>2. Follows(iter, X, {}, n, step)
    BY <1>6, <2>1 DEF Sol, Follows
  <2> QED
    BY <1>1, <1>3, <2>2, FoldAgrees
<1> DEFINE Best(dirs, k) ==
             \/ dirs = {} /\ \A i \in 1 .. k : ~ Inside(list[i], file)
             \/ \E i \in 1 .. k :
                  /\ dirs = {list[i]} /\ Inside(list[i], file)
                  /\ \A j \in 1 .. k : Inside(list[j], file) => Len(list[j]) <= Len(list[i])
           I == {k \in 0 .. n : Best(F[k], k)}
<1>8. \A k \in 0 .. n : k \in I
  <2>1. 0 \in I
    <3>1. 1 .. 0 = {}
      OBVIOUS
    <3> QED
      BY <1>1, <1>7, <3>1 DEF OnNumbers
  <2>2. ASSUME NEW k \in 1 .. n, k - 1 \in I
        PROVE  k \in I
    <3>1. F[k] = next(F[k - 1], k) /\ k \in 0 .. n
      <4>1. k \in 0 .. n /\ k - 1 \in 0 .. n
        BY <1>1
      <4> QED
        BY <1>4, <1>7, <4>1 DEF OnNumbers
    <3>2. 1 .. k = (1 .. (k - 1)) \cup {k} /\ 1 .. k \subseteq 1 .. n
      BY <1>1
    <3>3. Best(F[k - 1], k - 1)
      BY <2>2
    <3>4. ASSUME F[k - 1] = {}, \A i \in 1 .. (k - 1) : ~ Inside(list[i], file)
          PROVE  Best(F[k], k)
      <4>1. CASE Inside(list[k], file)
        <5>1. F[k] = {list[k]} /\ k \in 1 .. k
          BY <1>1, <3>1, <3>4, <4>1 DEF next
        <5>2. \A j \in 1 .. k : Inside(list[j], file) => Len(list[j]) <= Len(list[k])
          BY <1>1, <3>2, <3>4
        <5> QED
          BY <4>1, <5>1, <5>2
      <4>2. CASE ~ Inside(list[k], file)
        BY <3>1, <3>2, <3>4, <4>2 DEF next
      <4> QED
        BY <4>1, <4>2
    <3>5. ASSUME NEW i \in 1 .. (k - 1),
                 F[k - 1] = {list[i]}, Inside(list[i], file),
                 \A j \in 1 .. (k - 1) : Inside(list[j], file) => Len(list[j]) <= Len(list[i])
          PROVE  Best(F[k], k)
      <4>1. Len(list[i]) \in Nat /\ Len(list[k]) \in Nat /\ i \in 1 .. k /\ k \in 1 .. k
        BY <1>1, <3>2
      <4>2. CASE Inside(list[k], file) /\ Len(list[k]) > Len(list[i])
        <5>1. F[k] = {list[k]}
          BY <3>1, <3>5, <4>2 DEF next
        <5>2. \A j \in 1 .. k : Inside(list[j], file) => Len(list[j]) <= Len(list[k])
          <6> SUFFICES ASSUME NEW j \in 1 .. k, Inside(list[j], file)
                       PROVE  Len(list[j]) <= Len(list[k])
            OBVIOUS
          <6>1. Len(list[j]) \in Nat
            BY <1>1, <3>2
          <6>2. CASE j = k
            BY <4>1, <6>2
          <6>3. CASE j # k
            BY <3>2, <3>5, <4>1, <4>2, <6>1, <6>3
          <6> QED
            BY <6>2, <6>3
        <5> QED
          BY <4>1, <4>2, <5>1, <5>2
      <4>3. CASE ~ (Inside(list[k], file) /\ Len(list[k]) > Len(list[i]))
        <5>1. F[k] = {list[i]}
          BY <3>1, <3>5, <4>3 DEF next
        <5>2. \A j \in 1 .. k : Inside(list[j], file) => Len(list[j]) <= Len(list[i])
          BY <3>2, <3>5, <4>1, <4>3
        <5> QED
          BY <3>5, <4>1, <5>1, <5>2
      <4> QED
        BY <4>2, <4>3
    <3>6. Best(F[k], k)
      BY <3>3, <3>4, <3>5
    <3> HIDE DEF Best
    <3> QED
      BY <3>1, <3>6
  <2> HIDE DEF I
  <2> QED
    BY <1>1, <2>1, <2>2, Induction
<1>9. Best(LongestFolder(list, file), n)
  <2>1. n \in I
    <3> HIDE DEF I
    <3> QED
      BY <1>1, <1>8
  <2>2. F[n] = LongestFolder(list, file)
    BY <1>2, <1>7 DEF OnNumbers
  <2> HIDE DEF Best
  <2> QED
    BY <2>1, <2>2
<1>10. \A dir : dir \in ToSet(list) <=> \E i \in 1 .. n : dir = list[i]
  BY <1>1 DEF ToSet
<1> QED
  BY <1>9, <1>10 DEF IsLongest

\* There is one longest folder: two lists of the same folders have the same.
LEMMA LongestIsUnique ==
  ASSUME NEW S, NEW list \in Seq(Seq(S)), NEW other \in Seq(Seq(S)), NEW file \in Seq(S),
         ToSet(list) = ToSet(other),
         NEW a, IsLongest(a, list, file), NEW b, IsLongest(b, other, file)
  PROVE  a = b
<1>1. CASE a = {} /\ \A dir \in ToSet(list) : ~ Inside(dir, file)
  BY <1>1 DEF IsLongest
<1>2. ASSUME NEW dir \in ToSet(list), a = {dir}, Inside(dir, file),
             \A x \in ToSet(list) : Inside(x, file) => Len(x) <= Len(dir)
      PROVE  a = b
  <2>1. PICK d \in ToSet(list) :
          /\ b = {d} /\ Inside(d, file)
          /\ \A x \in ToSet(list) : Inside(x, file) => Len(x) <= Len(d)
    BY <1>2 DEF IsLongest
  <2>2. dir \in Seq(S) /\ d \in Seq(S)
    BY ToSetFinite
  <2>3. IsPrefix(dir, file) /\ IsPrefix(d, file)
    BY <1>2, <2>1 DEF IsStrictPrefix
  <2>4. Len(dir) = Len(d)
    <3>1. Len(dir) <= Len(d) /\ Len(d) <= Len(dir)
      BY <1>2, <2>1
    <3>2. Len(dir) \in Nat /\ Len(d) \in Nat
      BY <2>2
    <3> QED
      BY <3>1, <3>2
  <2>5. dir = d
    BY <2>2, <2>3, <2>4, PrefixesNest
  <2> QED
    BY <1>2, <2>1, <2>5
<1> QED
  BY <1>1, <1>2 DEF IsLongest

----------------------------------------------------------------------------
(* settings.forFile                                                         *)

LEMMA DirsValue ==
  /\ Folders \subseteq Dirs
  /\ \A s \in Settings : s.root \subseteq Dirs
<1> DEFINE above == UNION {Prefixes(f) : f \in Files}
           roots == UNION {x.root : x \in Settings}
<1>1. Dirs = above \cup Folders \cup roots
  BY DEF Dirs
<1>2. \A s \in Settings : s.root \subseteq roots
  OBVIOUS
<1> HIDE DEF above, roots
<1>3. Folders \subseteq Dirs /\ roots \subseteq Dirs
  BY <1>1
<1> QED
  BY <1>2, <1>3

LEMMA FileValue ==
  ASSUME NEW file \in Files
  PROVE  /\ file \in Seq(Names) /\ file # <<>>
         /\ Dir(file) \in Seq(Names) /\ Len(Dir(file)) = Len(file) - 1
         /\ Len(file) \in Nat \ {0} /\ IsPrefix(Dir(file), file)
         /\ \A d : d \in Prefixes(Dir(file)) <=> d \in Seq(Names) /\ Inside(d, file)
         /\ \A d : d \in Prefixes(Dir(file)) => d \in Dirs
         /\ Dir(file) \in Dirs /\ <<>> \in Dirs
<1>1. file \in Seq(Names) /\ file # <<>>
  BY PathAssumption
<1>2. /\ Dir(file) \in Seq(Names) /\ Len(Dir(file)) = Len(file) - 1
      /\ Len(file) \in Nat \ {0} /\ IsPrefix(Dir(file), file)
  BY <1>1, FrontOf DEF Dir
<1>3. \A d : d \in Prefixes(Dir(file)) <=> d \in Seq(Names) /\ Inside(d, file)
  BY <1>1, PrefixesOfFront DEF Dir
<1>4. ASSUME NEW d \in Seq(Names), IsPrefix(d, file)
      PROVE  d \in Dirs
  <2>1. Len(d) <= Len(file) /\ SubSeq(file, 1, Len(d)) = SubSeq(d, 1, Len(d)) /\ Len(d) \in Nat
    BY <1>4 DEF IsPrefix
  <2>2. SubSeq(d, 1, Len(d)) = d
    OBVIOUS
  <2>3. Len(d) \in 0 .. Len(file)
    BY <1>2, <2>1
  <2>4. d \in Prefixes(file)
    BY <2>1, <2>2, <2>3 DEF Prefixes
  <2> QED
    BY <2>4 DEF Dirs
<1>5. \A d : d \in Prefixes(Dir(file)) => d \in Dirs
  BY <1>3, <1>4 DEF IsStrictPrefix
<1>6. <<>> \in Dirs
  BY <1>1, <1>4, EmptyPrefix
<1> QED
  BY <1>1, <1>2, <1>3, <1>4, <1>5, <1>6

\* The first root: what the settings say, the innermost folder, or the directory
\* of the document when no folder contains it.
LEMMA FirstRootValue ==
  ASSUME NEW s \in Settings, NEW list \in Seq(Folders), NEW file \in Files,
         FirstRoot(s, list, file) # {}
  PROVE  \E r \in Seq(Names) :
           /\ FirstRoot(s, list, file) = {r} /\ r \in Dirs
           /\ s.root # {} => s.root = {r}
           /\ s.root = {} =>
                \/ /\ r \in ToSet(list) /\ Inside(r, file)
                   /\ \A other \in ToSet(list) : Inside(other, file) => Len(other) <= Len(r)
                \/ /\ r = Dir(file) /\ \A other \in ToSet(list) : ~ Inside(other, file)
                   /\ list = <<>> \/ s.source # {} \/ s.configPath # {}
<1>1. CASE s.root # {}
  <2>1. PICK r \in s.root : TRUE
    BY <1>1
  <2>2. s.root = {r} /\ r \in Seq(Names)
    BY <2>1, SettingsAssumption DEF IsPathOption
  <2>3. r \in Dirs
    BY <2>1, DirsValue
  <2> QED
    BY <1>1, <2>2, <2>3 DEF FirstRoot
<1>2. CASE s.root = {}
  <2> DEFINE l == LongestFolder(list, file)
  <2>1. list \in Seq(Seq(Names)) /\ ToSet(list) \subseteq Folders /\ Folders \subseteq Seq(Names)
    BY ToSetFinite, PathAssumption
  <2>2. IsLongest(l, list, file)
    BY <2>1, LongestFolderValue
  <2> HIDE DEF l
  <2>3. CASE l # {}
    <3>1. FirstRoot(s, list, file) = l
      BY <1>2, <2>3 DEF FirstRoot, l
    <3>2. PICK r \in ToSet(list) :
            /\ l = {r} /\ Inside(r, file)
            /\ \A other \in ToSet(list) : Inside(other, file) => Len(other) <= Len(r)
      BY <2>2, <2>3 DEF IsLongest
    <3>3. r \in Seq(Names) /\ r \in Dirs
      <4>1. r \in Folders
        BY <2>1
      <4> QED
        BY <2>1, <4>1, DirsValue
    <3> QED
      BY <1>2, <3>1, <3>2, <3>3
  <2>4. CASE l = {}
    <3>1. /\ FirstRoot(s, list, file) = {Dir(file)}
          /\ list = <<>> \/ s.source # {} \/ s.configPath # {}
      BY <1>2, <2>4 DEF FirstRoot, l
    <3>2. \A other \in ToSet(list) : ~ Inside(other, file)
      BY <2>2, <2>4 DEF IsLongest
    <3> QED
      BY <1>2, <3>1, <3>2, FileValue
  <2> QED
    BY <2>3, <2>4
<1> QED
  BY <1>1, <1>2

\* The root: the nearest directory with a plato.yaml among those searched, or the
\* first root.
LEMMA ProjectRootValue ==
  ASSUME NEW s \in Settings, NEW list \in Seq(Folders), NEW disk, NEW file \in Files,
         NEW r \in Seq(Names), r \in Dirs
  PROVE  LET root == ProjectRoot(s, list, disk, file, r)
             found == Searched(list, file, r) \cap DOMAIN disk
             search == s.root = {} /\ s.configPath = {}
         IN  /\ root \in Seq(Names) /\ root \in Dirs
             /\ ~ search \/ found = {} => root = r
             /\ search /\ found # {} =>
                  /\ root \in found
                  /\ \A other \in found : Len(other) <= Len(root)
<1> DEFINE root == ProjectRoot(s, list, disk, file, r)
           found == Searched(list, file, r) \cap DOMAIN disk
           search == s.root = {} /\ s.configPath = {}
<1>1. ~ search \/ found = {} => root = r
  BY DEF ProjectRoot
<1>2. ASSUME search, found # {}
      PROVE  /\ root \in found /\ root \in Seq(Names) /\ root \in Dirs
             /\ \A other \in found : Len(other) <= Len(root)
  <2>1. root = Nearest(found)
    BY <1>2 DEF ProjectRoot
  <2>2. \A d \in found : d \in Seq(Names) /\ d \in Dirs /\ Len(d) \in 0 .. Len(file)
    <3> TAKE d \in found
    <3>1. d \in Prefixes(Dir(file))
      BY DEF Searched
    <3>2. d \in Seq(Names) /\ Inside(d, file) /\ d \in Dirs /\ file \in Seq(Names)
      BY <3>1, FileValue
    <3>3. Len(d) < Len(file) /\ Len(d) \in Nat /\ Len(file) \in Nat
      BY <3>2, StrictPrefixDef
    <3> QED
      BY <3>2, <3>3
  <2> HIDE DEF found
  <2> DEFINE lengths == {Len(d) : d \in found}
  <2>3. lengths \in SUBSET (0 .. Len(file)) /\ Len(file) \in Nat
    BY <2>2, FileValue
  <2>4. lengths # {}
    <3>1. PICK d \in found : TRUE
      BY <1>2
    <3>2. Len(d) \in lengths
      BY <3>1
    <3> QED
      BY <3>2
  <2>5. Max(lengths) \in lengths /\ \A y \in lengths : y <= Max(lengths)
    <3> HIDE DEF lengths
    <3> QED
      BY <2>3, <2>4, MaxOfSet
  <2>6. PICK d \in found : Len(d) = Max(lengths)
    BY <2>5
  <2>7. \A other \in found : Len(other) <= Len(d)
    <3> TAKE other \in found
    <3>1. Len(other) \in lengths
      OBVIOUS
    <3> HIDE DEF lengths
    <3> QED
      BY <2>5, <2>6, <3>1
  <2>8. root \in found /\ \A other \in found : Len(other) <= Len(root)
    <3> HIDE DEF root, lengths
    <3> QED
      BY <2>1, <2>7 DEF Nearest
  <2> QED
    BY <2>2, <2>8
<1>3. root \in Seq(Names) /\ root \in Dirs
  BY <1>1, <1>2
<1> QED
  BY <1>1, <1>2, <1>3

\* One of the two, or the default.
LEMMA OrValue ==
  ASSUME NEW a, IsPathOption(a), NEW b, IsPathOption(b), b # {}
  PROVE  IsPathOption(Or(a, b)) /\ Or(a, b) # {}
BY DEF Or

\* The workspace w has the first root r and the source src.
IsProject(w, s, list, disk, file, r, src) ==
  /\ FirstRoot(s, list, file) = {r} /\ r \in Dirs
  /\ w.root = ProjectRoot(s, list, disk, file, r)
  /\ w.root \in Seq(Names) /\ w.root \in Dirs
  /\ w.source = {w.root \o src}
  /\ \/ ConfigDir(s, w.root) \in DOMAIN disk
     \/ s.configPath # {} /\ w.problem = "missing"
     \/ s.root # {} \/ s.source # {}

\* What forFile answers: no workspace, or the root and one source tree below it.
LEMMA ForFileValue ==
  ASSUME NEW s \in Settings, NEW list \in Seq(Folders), NEW disk, IsMap(disk, ConfigDirs, Configs),
         NEW file \in Files, NEW w, w = ForFile(s, list, disk, file), w # NoWorkspace
  PROVE  \E r \in Seq(Names), src \in Seq(Names) : IsProject(w, s, list, disk, file, r, src)
<1> DEFINE first == FirstRoot(s, list, file)
           root == ProjectRoot(s, list, disk, file, CHOOSE r \in first : TRUE)
           dir == ConfigDir(s, root)
<1>1. first # {}
  <2>1. CASE first = {}
    BY <2>1 DEF ForFile
  <2> QED
    BY <2>1
<1>2. PICK r \in Seq(Names) : first = {r} /\ r \in Dirs
  BY <1>1, FirstRootValue
<1>3. (CHOOSE x \in first : TRUE) = r
  BY <1>2
<1>4. root = ProjectRoot(s, list, disk, file, r) /\ root \in Seq(Names) /\ root \in Dirs
  BY <1>2, <1>3, ProjectRootValue
<1>5. \E config, problem :
        /\ w = At(root, s, config, problem) /\ IsPathOption(config.source)
        /\ \/ dir \in DOMAIN disk
           \/ s.configPath # {} /\ problem = "missing"
           \/ s.root # {} \/ s.source # {}
  <2> HIDE DEF first, root
  <2>1. w = CASE first = {} -> NoWorkspace
              [] first # {} /\ dir \in DOMAIN disk ->
                   IF disk[dir].ok THEN At(root, s, disk[dir], "none")
                   ELSE At(root, s, EmptyConfig, "unreadable")
              [] first # {} /\ dir \notin DOMAIN disk ->
                   IF s.configPath = {} /\ s.root = {} /\ s.source = {} THEN NoWorkspace
                   ELSE At(root, s, EmptyConfig, IF s.configPath # {} THEN "missing" ELSE "none")
    BY DEF ForFile, first, root
  <2> HIDE DEF dir
  <2>2. IsPathOption(EmptyConfig.source)
    BY DEF IsPathOption, EmptyConfig
  <2>3. CASE dir \in DOMAIN disk
    <3>1. IsPathOption(disk[dir].source)
      BY <2>3, MapValue, SettingsAssumption
    <3>2. w = At(root, s, disk[dir], "none") \/ w = At(root, s, EmptyConfig, "unreadable")
      BY <1>1, <2>1, <2>3
    <3> QED
      BY <2>2, <2>3, <3>1, <3>2
  <2>4. CASE dir \notin DOMAIN disk
    <3>1. CASE s.configPath = {} /\ s.root = {} /\ s.source = {}
      BY <1>1, <2>1, <2>4, <3>1
    <3>2. CASE s.configPath # {}
      <4>1. w = At(root, s, EmptyConfig, "missing")
        BY <1>1, <2>1, <2>4, <3>2
      <4> QED
        BY <2>2, <3>2, <4>1
    <3>3. CASE s.configPath = {} /\ ~ (s.root = {} /\ s.source = {})
      <4>1. w = At(root, s, EmptyConfig, "none")
        BY <1>1, <2>1, <2>4, <3>3
      <4> QED
        BY <2>2, <3>3, <4>1
    <3> QED
      BY <3>1, <3>2, <3>3
  <2> QED
    BY <2>3, <2>4
<1>6. PICK config, problem :
        /\ w = At(root, s, config, problem) /\ IsPathOption(config.source)
        /\ \/ dir \in DOMAIN disk
           \/ s.configPath # {} /\ problem = "missing"
           \/ s.root # {} \/ s.source # {}
  BY <1>5
<1> HIDE DEF first, root
<1>7. w.root = root /\ w.problem = problem
  BY <1>6 DEF At
<1>8. \E src \in Seq(Names) : w.source = {root \o src}
  <2> DEFINE sources == Or(s.source, Or(config.source, {DefaultSource}))
  <2>1. IsPathOption({DefaultSource}) /\ IsPathOption(s.source)
    BY SettingsAssumption DEF IsPathOption
  <2>2. IsPathOption(sources) /\ sources # {}
    BY <1>6, <2>1, OrValue
  <2>3. w.source = {root \o source : source \in sources}
    BY <1>6 DEF At
  <2> HIDE DEF sources
  <2>4. PICK src \in Seq(Names) : sources = {src}
    BY <2>2 DEF IsPathOption
  <2> QED
    BY <2>3, <2>4
<1> QED
  BY <1>2, <1>4, <1>6, <1>7, <1>8 DEF first, IsProject

----------------------------------------------------------------------------
(* The slice follows the editor's folders.                                  *)

\* TypeOK without what it says of forFile.
Typed ==
  /\ settings \in Settings
  /\ folders \in Seq(Folders)
  /\ client \subseteq Folders \cup {Virtual}
  /\ IsMap(plato, ConfigDirs, Configs)
  /\ marked \subseteq Markable

WorkspaceInv == Typed /\ FoldersAreTheClients

LEMMA InitWorkspace == Init => WorkspaceInv
<1> SUFFICES ASSUME Init PROVE WorkspaceInv
  OBVIOUS
<1>1. CASE folders = <<>>
  <2>1. ToSet(folders) = {} /\ IsInjective(folders) /\ folders \in Seq(Folders)
    BY <1>1 DEF ToSet, IsInjective
  <2> QED
    BY <2>1, EmptyIsMap DEF Init, WorkspaceInv, Typed, FoldersAreTheClients
<1>2. ASSUME NEW dir \in Folders, folders = <<dir>>
      PROVE  WorkspaceInv
  <2>1. folders \in Seq(Folders) /\ DOMAIN folders = {1} /\ folders[1] = dir
    BY <1>2
  <2>2. ToSet(folders) = {dir} /\ IsInjective(folders)
    BY <2>1 DEF ToSet, IsInjective
  <2>3. {dir} \ {Virtual} = {dir}
    BY PathAssumption
  <2> QED
    BY <2>1, <2>2, <2>3, EmptyIsMap DEF Init, WorkspaceInv, Typed, FoldersAreTheClients
<1> QED
  BY <1>1, <1>2 DEF Init

LEMMA FoldersStep ==
  ASSUME WorkspaceInv, NEW removed \in Removals, NEW added \in Additions(removed),
         DidChangeWorkspaceFolders(removed, added)
  PROVE  WorkspaceInv'
<1> DEFINE kept == client \ ToSet(removed)
<1>1. IsFiniteSet(Folders \cup {Virtual})
  BY PathAssumption, FS_AddElement
<1>2. IsFiniteSet(client) /\ IsFiniteSet((Folders \cup {Virtual}) \ kept)
  BY <1>1, FS_Subset DEF WorkspaceInv, Typed
<1>3. removed \in Seq(client) /\ ToSet(removed) \subseteq client
  BY <1>2, PermutationValues DEF Removals
<1>4. /\ added \in Seq((Folders \cup {Virtual}) \ kept) /\ IsInjective(added)
      /\ ToSet(added) \subseteq (Folders \cup {Virtual}) \ kept
  BY <1>2, PermutationValues DEF Additions
<1>5. added \in Seq(Folders \cup {Virtual})
  BY <1>4
<1> DEFINE left == RemoveEach(folders, removed)
<1>6. /\ left \in Seq(Folders) /\ IsInjective(left)
      /\ ToSet(left) = ToSet(folders) \ ToSet(removed)
  <2>1. folders \in Seq(Folders) /\ IsInjective(folders)
    BY DEF WorkspaceInv, Typed, FoldersAreTheClients
  <2> QED
    BY <1>3, <2>1, RemoveEachValues
<1> HIDE DEF left
<1>7. ToSet(left) \cap ToSet(added) = {}
  BY <1>4, <1>6 DEF WorkspaceInv, FoldersAreTheClients
<1>8. /\ folders' = AddEach(left, added)
      /\ client' = kept \cup ToSet(added)
      /\ UNCHANGED <<settings, plato, marked>>
  BY DEF DidChangeWorkspaceFolders, left
<1>9. /\ folders' \in Seq(Folders) /\ IsInjective(folders')
      /\ ToSet(folders') = ToSet(left) \cup (ToSet(added) \ {Virtual})
  BY <1>5, <1>4, <1>6, <1>7, <1>8, AddEachValues
<1>10. ToSet(folders') = client' \ {Virtual}
  BY <1>6, <1>8, <1>9 DEF WorkspaceInv, FoldersAreTheClients
<1>11. client' \subseteq Folders \cup {Virtual}
  BY <1>4, <1>8 DEF WorkspaceInv, Typed
<1> QED
  BY <1>8, <1>9, <1>10, <1>11 DEF WorkspaceInv, Typed, FoldersAreTheClients

LEMMA NextWorkspace == WorkspaceInv /\ [Next]_vars => WorkspaceInv'
<1> SUFFICES ASSUME WorkspaceInv, [Next]_vars PROVE WorkspaceInv'
  OBVIOUS
<1> USE DEF WorkspaceInv, Typed, FoldersAreTheClients
<1>1. ASSUME NEW s \in Settings, DidChangeConfiguration(s)
      PROVE  WorkspaceInv'
  BY <1>1 DEF DidChangeConfiguration
<1>2. ASSUME NEW removed \in Removals, NEW added \in Additions(removed),
             DidChangeWorkspaceFolders(removed, added)
      PROVE  WorkspaceInv'
  BY <1>2, FoldersStep
<1>3. ASSUME NEW dir \in ConfigDirs, NEW config \in Configs, WriteConfig(dir, config)
      PROVE  WorkspaceInv'
  BY <1>3, PutIsMap DEF WriteConfig
<1>4. ASSUME NEW dir \in DOMAIN plato, RemoveConfig(dir)
      PROVE  WorkspaceInv'
  BY <1>4, DeleteAllIsMap DEF RemoveConfig, Delete
<1>5. ASSUME NEW file \in Markable, Mark(file)
      PROVE  WorkspaceInv'
  BY <1>5 DEF Mark
<1>6. CASE UNCHANGED vars
  BY <1>6 DEF vars
<1> QED
  BY <1>1, <1>2, <1>3, <1>4, <1>5, <1>6 DEF Next

LEMMA WorkspaceInvariant == Spec => []WorkspaceInv
BY InitWorkspace, NextWorkspace, PTL DEF Spec

\* However many events have removed and added how many folders in which order,
\* DidChangeWorkspaceFolders has left in the slice the editor's folders, each once.
THEOREM FoldersFollow == Spec => []FoldersAreTheClients
<1>1. WorkspaceInv => FoldersAreTheClients
  BY DEF WorkspaceInv
<1> QED
  BY <1>1, WorkspaceInvariant, PTL

\* The variables keep their types, and forFile answers with a directory above the
\* document, a folder or the root of the settings, and with at most one source.
THEOREM WorkspaceTypes == Spec => []TypeOK
<1>1. ASSUME Typed, NEW file \in Files
      PROVE  Of(file).root \in Dirs /\ Cardinality(Of(file).source) <= 1
  <2> DEFINE w == Of(file)
  <2>1. CASE w = NoWorkspace
    <3>1. w.source = {} /\ w.root \in Dirs
      BY <2>1, FileValue DEF NoWorkspace
    <3> QED
      BY <3>1, FS_EmptySet
  <2>2. CASE w # NoWorkspace
    <3>1. w = ForFile(settings, folders, plato, file)
      BY DEF Of
    <3> HIDE DEF w
    <3>2. PICK r \in Seq(Names), src \in Seq(Names) :
            IsProject(w, settings, folders, plato, file, r, src)
      BY <1>1, <2>2, <3>1, ForFileValue DEF Typed
    <3>3. Cardinality(w.source) = 1 /\ w.root \in Dirs
      BY <3>2, FS_Singleton DEF IsProject
    <3> QED
      BY <3>3 DEF w
  <2> QED
    BY <2>1, <2>2
<1>2. WorkspaceInv => TypeOK
  BY <1>1 DEF WorkspaceInv, Typed, TypeOK
<1> QED
  BY <1>2, WorkspaceInvariant, PTL

----------------------------------------------------------------------------
(* Which project a document has.  Each theorem is about one state: what it   *)
(* needs of the history is that the variables are typed.                     *)

\* forFile does not depend on the order of the folders.
LEMMA SameFolders ==
  ASSUME NEW s \in Settings, NEW list \in Seq(Folders), NEW other \in Seq(Folders),
         ToSet(list) = ToSet(other), NEW disk, NEW file \in Files
  PROVE  ForFile(s, other, disk, file) = ForFile(s, list, disk, file)
<1>1. list = <<>> <=> other = <<>>
  <2>1. \A l \in Seq(Folders) : l = <<>> <=> ToSet(l) = {}
    <3> TAKE l \in Seq(Folders)
    <3>1. CASE l = <<>>
      BY <3>1 DEF ToSet
    <3>2. CASE l # <<>>
      <4>1. 1 \in DOMAIN l
        BY <3>2
      <4>2. l[1] \in ToSet(l)
        BY <4>1 DEF ToSet
      <4> QED
        BY <3>2, <4>2
    <3> QED
      BY <3>1, <3>2
  <2> QED
    BY <2>1
<1>2. LongestFolder(list, file) = LongestFolder(other, file)
  <2>1. list \in Seq(Seq(Names)) /\ other \in Seq(Seq(Names)) /\ file \in Seq(Names)
    BY PathAssumption
  <2>2. /\ IsLongest(LongestFolder(list, file), list, file)
        /\ IsLongest(LongestFolder(other, file), other, file)
    BY <2>1, LongestFolderValue
  <2> QED
    BY <2>1, <2>2, LongestIsUnique
<1>3. FirstRoot(s, list, file) = FirstRoot(s, other, file)
  BY <1>1, <1>2 DEF FirstRoot
<1>4. \A r : Searched(list, file, r) = Searched(other, file, r)
  BY <1>1 DEF Searched
<1>5. \A r : ProjectRoot(s, list, disk, file, r) = ProjectRoot(s, other, disk, file, r)
  <2> TAKE r
  <2>1. Searched(list, file, r) \cap DOMAIN disk = Searched(other, file, r) \cap DOMAIN disk
    BY <1>4
  <2> QED
    BY <2>1, Zenon DEF ProjectRoot
<1> QED
  BY <1>3, <1>5 DEF ForFile

\* Nested folders: whatever order the editor has added them in, a document's
\* project is the same.
THEOREM OrderDoesNotMatter == Spec => []OrderIsIrrelevant
<1>1. ASSUME Typed, NEW list \in SetToSeqs(ToSet(folders)), NEW file \in Files
      PROVE  ForFile(settings, list, plato, file) = Of(file)
  <2>1. folders \in Seq(Folders) /\ settings \in Settings
    BY <1>1 DEF Typed
  <2>2. IsFiniteSet(ToSet(folders)) /\ ToSet(folders) \in SUBSET Folders
    BY <2>1, ToSetFinite
  <2>3. list \in Seq(ToSet(folders)) /\ ToSet(list) = ToSet(folders)
    BY <1>1, <2>2, OrderValues
  <2>4. list \in Seq(Folders)
    BY <2>2, <2>3
  <2> QED
    BY <2>1, <2>3, <2>4, SameFolders DEF Of
<1>2. WorkspaceInv => OrderIsIrrelevant
  BY <1>1 DEF WorkspaceInv, OrderIsIrrelevant
<1> QED
  BY <1>2, WorkspaceInvariant, PTL

\* An eligible document has a project, and its source tree contains it.
LEMMA EligibleProject ==
  ASSUME Typed, NEW file \in Files, Eligible(Of(file), file)
  PROVE  \E r \in Seq(Names), src \in Seq(Names) :
           /\ IsProject(Of(file), settings, folders, plato, file, r, src)
           /\ Inside(Of(file).root \o src, file)
<1> DEFINE w == Of(file)
<1>1. w = ForFile(settings, folders, plato, file)
  BY DEF Of
<1>2. PICK source \in w.source : Inside(source, file)
  BY DEF Eligible
<1> HIDE DEF w
<1>3. w # NoWorkspace
  BY <1>2 DEF NoWorkspace
<1>4. PICK r \in Seq(Names), src \in Seq(Names) :
        IsProject(w, settings, folders, plato, file, r, src)
  BY <1>1, <1>3, ForFileValue DEF Typed
<1>5. w.source = {w.root \o src}
  BY <1>4 DEF IsProject
<1>6. Inside(w.root \o src, file)
  BY <1>2, <1>5
<1> QED
  BY <1>4, <1>6 DEF w

\* Without a root or a configPath in the settings, what decides about a document
\* lies in its innermost folder; a document outside every folder is eligible only
\* by a source of the settings.
THEOREM FolderIsTheLimit == Spec => []WithinFolder
<1>1. ASSUME Typed, NEW file \in Files,
             settings.root = {}, settings.configPath = {}, folders # <<>>,
             Eligible(Of(file), file)
      PROVE  \/ \E dir \in ToSet(folders) :
                  /\ Inside(dir, file) /\ IsPrefix(dir, Of(file).root)
                  /\ \A other \in ToSet(folders) : Inside(other, file) => IsPrefix(other, dir)
             \/ settings.source # {} /\ \A dir \in ToSet(folders) : ~ Inside(dir, file)
  <2> DEFINE root == Of(file).root
  <2>1. PICK r \in Seq(Names), src \in Seq(Names) :
          IsProject(Of(file), settings, folders, plato, file, r, src)
    BY <1>1, EligibleProject
  <2>2. FirstRoot(settings, folders, file) = {r} /\ r \in Dirs
    BY <2>1 DEF IsProject
  <2>3. root = ProjectRoot(settings, folders, plato, file, r)
    BY <2>1 DEF IsProject
  <2> HIDE DEF root
  <2>4. settings \in Settings /\ folders \in Seq(Folders)
    BY <1>1 DEF Typed
  <2>5. root = r \/ root \in Searched(folders, file, r)
    BY <2>2, <2>3, <2>4, ProjectRootValue
  <2>6. IsPrefix(r, r)
    BY PrefixDef
  <2>7. IsPrefix(r, root)
    BY <1>1, <2>5, <2>6 DEF Searched
  <2>8. \/ /\ r \in ToSet(folders) /\ Inside(r, file)
           /\ \A other \in ToSet(folders) : Inside(other, file) => Len(other) <= Len(r)
        \/ settings.source # {} /\ \A dir \in ToSet(folders) : ~ Inside(dir, file)
    <3>1. PICK x \in Seq(Names) :
             /\ FirstRoot(settings, folders, file) = {x}
             /\ \/ /\ x \in ToSet(folders) /\ Inside(x, file)
                   /\ \A other \in ToSet(folders) : Inside(other, file) => Len(other) <= Len(x)
                \/ /\ \A other \in ToSet(folders) : ~ Inside(other, file)
                   /\ folders = <<>> \/ settings.source # {} \/ settings.configPath # {}
      BY <1>1, <2>2, <2>4, FirstRootValue
    <3>2. x = r
      BY <2>2, <3>1
    <3> QED
      BY <1>1, <3>1, <3>2
  <2>9. CASE /\ r \in ToSet(folders) /\ Inside(r, file)
             /\ \A other \in ToSet(folders) : Inside(other, file) => Len(other) <= Len(r)
    <3>1. ASSUME NEW other \in ToSet(folders), Inside(other, file)
          PROVE  IsPrefix(other, r)
      <4>1. other \in Seq(Names) /\ file \in Seq(Names)
        BY <2>4, ToSetFinite, PathAssumption
      <4>2. IsPrefix(other, file) /\ IsPrefix(r, file) /\ Len(other) <= Len(r)
        BY <2>9, <3>1 DEF IsStrictPrefix
      <4> QED
        BY <4>1, <4>2, PrefixesNest
    <3> QED
      BY <2>7, <2>9, <3>1 DEF root
  <2> QED
    BY <2>8, <2>9
<1>2. WorkspaceInv => WithinFolder
  BY <1>1 DEF WorkspaceInv, WithinFolder
<1> QED
  BY <1>2, WorkspaceInvariant, PTL

\* Without a root or a source in the settings, only a document of a directory with
\* a plato.yaml is looked at, or one that is told that the configured one is missing.
THEOREM OnlyRealProjects == Spec => []RealProject
<1>1. ASSUME Typed, NEW file \in Files,
             settings.root = {}, settings.source = {}, Eligible(Of(file), file)
      PROVE  \/ ConfigDir(settings, Of(file).root) \in DOMAIN plato
             \/ Of(file).problem = "missing"
  <2>1. PICK r \in Seq(Names), src \in Seq(Names) :
          IsProject(Of(file), settings, folders, plato, file, r, src)
    BY <1>1, EligibleProject
  <2> QED
    BY <1>1, <2>1 DEF IsProject
<1>2. WorkspaceInv => RealProject
  BY <1>1 DEF WorkspaceInv, RealProject
<1> QED
  BY <1>2, WorkspaceInvariant, PTL

\* Two documents that lie below both first roots have the same first root: below
\* each other's innermost folder, they share it.
LEMMA SameFirstRoot ==
  ASSUME NEW s \in Settings, s.root = {}, NEW list \in Seq(Folders),
         NEW f \in Files, NEW g \in Files,
         NEW r \in Seq(Names), FirstRoot(s, list, f) = {r},
         NEW q \in Seq(Names), FirstRoot(s, list, g) = {q},
         Inside(r, f), Inside(r, g), Inside(q, f), Inside(q, g)
  PROVE  r = q
<1>1. /\ f \in Seq(Names) /\ Len(Dir(f)) = Len(f) - 1 /\ Len(f) \in Nat \ {0}
      /\ g \in Seq(Names) /\ Len(Dir(g)) = Len(g) - 1 /\ Len(g) \in Nat \ {0}
  BY FileValue
<1>2. /\ Len(r) \in Nat /\ Len(q) \in Nat
      /\ Len(r) < Len(f) /\ Len(r) < Len(g) /\ Len(q) < Len(f) /\ Len(q) < Len(g)
      /\ IsPrefix(r, f) /\ IsPrefix(q, f)
  BY <1>1, StrictPrefixDef
<1>3. \/ /\ r \in ToSet(list)
         /\ \A other \in ToSet(list) : Inside(other, f) => Len(other) <= Len(r)
      \/ r = Dir(f) /\ \A other \in ToSet(list) : ~ Inside(other, f)
  BY FirstRootValue
<1>4. \/ /\ q \in ToSet(list)
         /\ \A other \in ToSet(list) : Inside(other, g) => Len(other) <= Len(q)
      \/ q = Dir(g) /\ \A other \in ToSet(list) : ~ Inside(other, g)
  BY FirstRootValue
<1>5. Len(r) = Len(q)
  BY <1>1, <1>2, <1>3, <1>4
<1> QED
  BY <1>1, <1>2, <1>5, PrefixesNest

LEMMA InsideAbove ==
  ASSUME NEW d \in Seq(Names), NEW tree \in Seq(Names), NEW file \in Seq(Names),
         IsPrefix(d, tree), Inside(tree, file)
  PROVE  Inside(d, file)
<1>1. Len(d) <= Len(tree) /\ Len(tree) < Len(file) /\ IsPrefix(tree, file)
  BY PrefixDef, StrictPrefixDef
<1>2. Len(d) < Len(file)
  BY <1>1
<1>3. IsPrefix(d, file)
  BY <1>1, PrefixTransitive
<1> QED
  BY <1>2, <1>3, StrictPrefixDef

\* A root that is found for one of two documents below it is searched for the other.
LEMMA SearchedForBoth ==
  ASSUME NEW list, NEW f \in Files, NEW g \in Files, NEW r, NEW q, list = <<>> \/ r = q,
         NEW d \in Seq(Names), d \in Searched(list, f, r), Inside(d, g)
  PROVE  d \in Searched(list, g, q)
BY FileValue DEF Searched

\* The root a is found from the first root r.
RootFrom(a, r, s, list, disk, file) ==
  /\ r \in Seq(Names) /\ r \in Dirs /\ FirstRoot(s, list, file) = {r}
  /\ a \in Seq(Names) /\ a = ProjectRoot(s, list, disk, file, r)

\* Two documents below both roots have one root.
LEMMA SameRoot ==
  ASSUME NEW s \in Settings, NEW list \in Seq(Folders), NEW disk,
         NEW f \in Files, NEW g \in Files,
         NEW a, NEW r, RootFrom(a, r, s, list, disk, f),
         NEW b, NEW q, RootFrom(b, q, s, list, disk, g),
         Inside(a, f), Inside(a, g), Inside(b, f), Inside(b, g)
  PROVE  a = b
<1> USE DEF RootFrom
<1> DEFINE search == s.root = {} /\ s.configPath = {}
           foundF == Searched(list, f, r) \cap DOMAIN disk
           foundG == Searched(list, g, q) \cap DOMAIN disk
<1>1. /\ ~ search \/ foundF = {} => a = r
      /\ search /\ foundF # {} => a \in foundF /\ \A d \in foundF : Len(d) <= Len(a)
  BY ProjectRootValue
<1>2. /\ ~ search \/ foundG = {} => b = q
      /\ search /\ foundG # {} => b \in foundG /\ \A d \in foundG : Len(d) <= Len(b)
  BY ProjectRootValue
<1>3. CASE s.root # {}
  <2>1. s.root = {r}
    BY <1>3 DEF FirstRoot
  <2>2. s.root = {q}
    BY <1>3 DEF FirstRoot
  <2>3. a = r /\ b = q
    BY <1>1, <1>2, <1>3
  <2> QED
    BY <2>1, <2>2, <2>3
<1>4. CASE s.root = {}
  <2> HIDE DEF search
  <2>1. f \in Seq(Names) /\ g \in Seq(Names)
    BY FileValue
  <2>2. ASSUME IsPrefix(r, a), IsPrefix(q, b)
        PROVE  r = q
    <3>1. Inside(r, f) /\ Inside(r, g) /\ Inside(q, f) /\ Inside(q, g)
      BY <2>1, <2>2, InsideAbove
    <3> QED
      BY <1>4, <3>1, SameFirstRoot
  <2>3. IsPrefix(r, r) /\ IsPrefix(q, q)
    BY PrefixDef
  <2>4. list = <<>> \/ r = q
    <3> SUFFICES ASSUME list # <<>> PROVE r = q
      OBVIOUS
    <3>1. IsPrefix(r, a)
      BY <1>1, <2>3 DEF Searched
    <3>2. IsPrefix(q, b)
      BY <1>2, <2>3 DEF Searched
    <3> QED
      BY <2>2, <3>1, <3>2
  <2>5. /\ a \in foundF => a \in foundG
        /\ b \in foundG => b \in foundF
    BY <2>4, SearchedForBoth
  <2> HIDE DEF foundF, foundG
  <2>6. CASE search /\ (foundF # {} \/ foundG # {})
    <3>1. Len(a) <= Len(b) /\ Len(b) <= Len(a)
      BY <1>1, <1>2, <2>5, <2>6
    <3>2. Len(a) = Len(b)
      <4>1. Len(a) \in Nat /\ Len(b) \in Nat
        OBVIOUS
      <4> QED
        BY <3>1, <4>1
    <3>3. IsPrefix(a, f) /\ IsPrefix(b, f)
      BY <2>1, StrictPrefixDef
    <3> QED
      BY <2>1, <3>2, <3>3, PrefixesNest
  <2>7. CASE ~ (search /\ (foundF # {} \/ foundG # {}))
    <3>1. a = r /\ b = q
      BY <1>1, <1>2, <2>7
    <3> QED
      BY <2>2, <2>3, <3>1
  <2> QED
    BY <2>6, <2>7
<1> QED
  BY <1>3, <1>4

\* Documents of one source tree belong to one project, however the folders are
\* nested and wherever plato.yaml files are: they have the same root, and so share
\* one process for each backend.
THEOREM OneProject == Spec => []OneProjectPerTree
<1>1. ASSUME Typed, NEW f \in Files, NEW g \in Files,
             Eligible(Of(f), f), Eligible(Of(g), g), Of(f).source = Of(g).source
      PROVE  Of(f).root = Of(g).root
  <2> DEFINE a == Of(f).root
             b == Of(g).root
  <2>1. PICK r \in Seq(Names), x \in Seq(Names) :
          /\ IsProject(Of(f), settings, folders, plato, f, r, x) /\ Inside(a \o x, f)
    BY <1>1, EligibleProject
  <2>2. PICK q \in Seq(Names), y \in Seq(Names) :
          /\ IsProject(Of(g), settings, folders, plato, g, q, y) /\ Inside(b \o y, g)
    BY <1>1, EligibleProject
  <2>3. /\ FirstRoot(settings, folders, f) = {r} /\ r \in Dirs
        /\ a = ProjectRoot(settings, folders, plato, f, r) /\ a \in Seq(Names)
        /\ Of(f).source = {a \o x}
    BY <2>1 DEF IsProject
  <2>4. /\ FirstRoot(settings, folders, g) = {q} /\ q \in Dirs
        /\ b = ProjectRoot(settings, folders, plato, g, q) /\ b \in Seq(Names)
        /\ Of(g).source = {b \o y}
    BY <2>2 DEF IsProject
  <2>5. settings \in Settings /\ folders \in Seq(Folders) /\ f \in Seq(Names) /\ g \in Seq(Names)
    BY <1>1, FileValue DEF Typed
  <2> HIDE DEF a, b
  <2>6. a \o x = b \o y
    BY <1>1, <2>3, <2>4
  <2>7. Inside(a, f) /\ Inside(a, g) /\ Inside(b, f) /\ Inside(b, g)
    <3> DEFINE tree == a \o x
    <3>1. tree \in Seq(Names) /\ IsPrefix(a, tree) /\ IsPrefix(b, tree)
      BY <2>3, <2>4, <2>6, ConcatPrefix
    <3>2. Inside(tree, f) /\ Inside(tree, g)
      BY <2>1, <2>2, <2>6
    <3> HIDE DEF tree
    <3> QED
      BY <2>3, <2>4, <2>5, <3>1, <3>2, InsideAbove
  <2>8. /\ RootFrom(a, r, settings, folders, plato, f)
        /\ RootFrom(b, q, settings, folders, plato, g)
    BY <2>3, <2>4 DEF RootFrom
  <2>9. a = b
    BY <2>5, <2>7, <2>8, SameRoot
  <2> QED
    BY <2>9 DEF a, b
<1>2. WorkspaceInv => OneProjectPerTree
  BY <1>1 DEF WorkspaceInv, OneProjectPerTree
<1> QED
  BY <1>2, WorkspaceInvariant, PTL
=============================================================================
