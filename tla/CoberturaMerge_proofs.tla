----------------------- MODULE CoberturaMerge_proofs -----------------------
(***************************************************************************)
(* For every document, whatever is excluded and whatever sources there     *)
(* are: the classes that are merged away are the generated ones that have  *)
(* a parent, and no others.  Merging changes the lines and the methods of  *)
(* a class, and never what its key is made of, so the index that was made  *)
(* before the loop stays right throughout it.                              *)
(***************************************************************************)
EXTENDS CoberturaMerge, FiniteSetTheorems, SequenceTheorems, TLAPS

\* c is a class, with nothing else in it.
IsClass(c) ==
    c = [file |-> c.file, type |-> c.type, part |-> c.part, package |-> c.package,
         lines |-> c.lines, methods |-> c.methods, rate |-> c.rate]

\* Each class is still the one that was read; its file may be another in the end.
ClassesInv ==
    /\ input \in Documents /\ next \in Nat
    /\ pc \in {"exclude", "index", "merge", "sources", "done"}
    /\ DOMAIN classes = 1..Len(input) /\ classes = [i \in DOMAIN classes |-> classes[i]]
    /\ \A i \in 1..Len(input) :
           /\ IsClass(classes[i])
           /\ classes[i].type = input[i].type /\ classes[i].part = input[i].part
           /\ classes[i].package = input[i].package
           /\ pc # "done" => classes[i].file = input[i].file

\* The i-th class has a parent in a package that is kept.
HasParent(i) == \E j \in Kept : input[j].part = "self" /\ Key(input[j]) = Key(input[i])

\* The index has the keys of these parents.
IndexInv ==
    pc \in {"merge", "sources", "done"} =>
        \A i \in 1..Len(input) : Key(input[i]) \in DOMAIN mainClasses <=> HasParent(i)

\* What is in the document: of the classes the loop has passed, those that are
\* not generated or have no parent.
LiveInv ==
    /\ live = IF pc = "exclude" THEN 1..Len(input)
              ELSE {i \in Kept : ~(i < next /\ input[i].part # "self" /\ HasParent(i))}
    /\ pc \in {"exclude", "index"} => next = 1
    /\ pc \in {"sources", "done"} => next > Len(input)

IInv == ClassesInv /\ IndexInv /\ LiveInv
-----------------------------------------------------------------------------
(* Proofs.                                                                 *)

\* The length of a document is a number.
LEMMA LengthOf == input \in Documents => Len(input) \in Nat
  BY DocumentsAssumption DEF DocumentsAssumption

\* The initial states satisfy the invariant.
LEMMA InitIInv == Init => IInv
<1> SUFFICES ASSUME Init PROVE IInv
  OBVIOUS
<1>1. ClassesInv
  BY DEF Init, ClassesInv, IsClass
<1>2. IndexInv /\ LiveInv
  BY DEF Init, IndexInv, LiveInv
<1> QED
  BY <1>1, <1>2 DEF IInv

\* Merging changes the lines and the methods of the parent only.
LEMMA MergeKeeps ==
    ASSUME NEW c, NEW g, IsClass(c)
    PROVE  /\ IsClass(Merge(c, g))
           /\ Merge(c, g).file = c.file /\ Merge(c, g).type = c.type
           /\ Merge(c, g).part = c.part /\ Merge(c, g).package = c.package
<1> DEFINE Same(d) == /\ IsClass(d) /\ d.file = c.file /\ d.type = c.type
                      /\ d.part = c.part /\ d.package = c.package
<1>1. ASSUME NEW d, Same(d), NEW l PROVE Same([d EXCEPT !.lines = l])
  BY <1>1 DEF IsClass
<1>2. ASSUME NEW d, Same(d), NEW m PROVE Same([d EXCEPT !.methods = m])
  BY <1>2 DEF IsClass
<1>3. Same(WithLines(c, g))
  BY <1>1 DEF WithLines
<1>4. Same(WithMethod(WithLines(c, g), g))
  BY <1>2, <1>3 DEF WithMethod
<1> QED
  BY <1>3, <1>4 DEF Merge

\* Nor does the rate.
LEMMA RateKeeps ==
    ASSUME NEW c, IsClass(c)
    PROVE  /\ IsClass(WithRate(c))
           /\ WithRate(c).file = c.file /\ WithRate(c).type = c.type
           /\ WithRate(c).part = c.part /\ WithRate(c).package = c.package
  BY DEF WithRate, IsClass

\* Every step preserves the invariant.
LEMMA NextIInv == IInv /\ Next => IInv'
<1> SUFFICES ASSUME IInv, Next PROVE IInv'
  OBVIOUS
<1> USE DEF IInv
<1>a. Len(input) \in Nat /\ next \in Nat
  BY LengthOf DEF ClassesInv
<1>1. CASE Exclude
  <2>1. ClassesInv'
    BY <1>1 DEF Exclude, ClassesInv
  <2>2. live' = Kept'
    BY <1>1 DEF Exclude, ClassesInv, LiveInv, Kept
  <2>3. IndexInv' /\ LiveInv'
    BY <1>1, <1>a, <2>2 DEF Exclude, IndexInv, LiveInv, Kept
  <2> QED
    BY <2>1, <2>3
<1>2. CASE Index
  <2>1. ClassesInv'
    BY <1>2 DEF Index, ClassesInv
  <2>2. live = Kept
    BY <1>2, <1>a DEF Index, LiveInv, Kept
  <2>3. ASSUME NEW k PROVE k \in DOMAIN mainClasses' <=>
                               \E j \in Kept : input[j].part = "self" /\ Key(input[j]) = k
    <3>1. \A j \in Kept : Key(classes[j]) = Key(input[j]) /\ classes[j].part = input[j].part
      BY <1>2 DEF Index, ClassesInv, Kept, Key
    <3>2. DOMAIN mainClasses' = {Key(classes[j]) : j \in {i \in live : ~IsGenerated(classes[i])}}
      BY <1>2 DEF Index
    <3> QED
      BY <2>2, <3>1, <3>2 DEF IsGenerated
  <2>4. IndexInv'
    BY <1>2, <2>3, ZenonT(30) DEF Index, IndexInv, HasParent, Kept, Key
  <2>5. LiveInv'
    BY <1>2, <1>a DEF Index, LiveInv, Kept, HasParent, Key
  <2> QED
    BY <2>1, <2>4, <2>5
<1>3. CASE KeepClass
  <2> USE <1>3 DEF KeepClass, AtClass, Advance
  <2>1. ClassesInv' /\ IndexInv'
    BY DEF ClassesInv, IndexInv, HasParent, Kept, Key
  <2>2. ~(next \in live /\ input[next].part # "self" /\ HasParent(next))
    <3> SUFFICES ASSUME next \in live, input[next].part # "self", HasParent(next) PROVE FALSE
      OBVIOUS
    <3>1. next \in 1..Len(input)
      BY DEF LiveInv, Kept
    <3>2. Key(classes[next]) = Key(input[next]) /\ IsGenerated(classes[next])
      BY <3>1 DEF ClassesInv, Key, IsGenerated
    <3> QED
      BY <3>1, <3>2 DEF IndexInv
  <2>3. live = {i \in Kept : ~(i < next + 1 /\ input[i].part # "self" /\ HasParent(i))}
    <3>1. \A i \in Kept : i \in Nat /\ (i < next + 1 <=> i < next \/ i = next)
      BY <1>a DEF Kept
    <3> QED
      BY <2>2, <3>1 DEF LiveInv
  <2>4. LiveInv'
    BY <1>a, <2>3 DEF LiveInv, HasParent, Kept, Key
  <2> QED
    BY <2>1, <2>4
<1>4. CASE MergeClass
  <2> USE <1>4 DEF MergeClass, AtClass, Advance
  <2>1. PICK parent, g : classes' = [classes EXCEPT ![parent] = Merge(@, g)]
    OBVIOUS
  <2>2. ASSUME NEW i \in 1..Len(input)
        PROVE  /\ IsClass(classes'[i]) /\ classes'[i].file = classes[i].file
               /\ classes'[i].type = classes[i].type /\ classes'[i].part = classes[i].part
               /\ classes'[i].package = classes[i].package
    <3>1. IsClass(classes[i]) /\ i \in DOMAIN classes
      BY DEF ClassesInv
    <3>2. classes'[i] = classes[i] \/ classes'[i] = Merge(classes[i], g)
      BY <2>1, <3>1 DEF ClassesInv
    <3> QED
      BY <3>1, <3>2, MergeKeeps
  <2>3. DOMAIN classes' = DOMAIN classes /\ classes' = [i \in DOMAIN classes' |-> classes'[i]]
    BY <2>1 DEF ClassesInv
  <2>4. ClassesInv'
    BY <1>a, <2>2, <2>3 DEF ClassesInv
  <2>5. IndexInv'
    BY DEF IndexInv, HasParent, Kept, Key
  <2>6. next \in Kept /\ input[next].part # "self" /\ HasParent(next)
    <3>1. next \in Kept /\ next \in 1..Len(input)
      BY DEF LiveInv, Kept
    <3>2. Key(classes[next]) = Key(input[next]) /\ input[next].part # "self"
      BY <3>1 DEF ClassesInv, Key, IsGenerated
    <3> QED
      BY <3>1, <3>2 DEF IndexInv
  <2>7. live' = {i \in Kept : ~(i < next + 1 /\ input[i].part # "self" /\ HasParent(i))}
    <3>1. \A i \in Kept : i \in Nat /\ (i < next + 1 <=> i < next \/ i = next)
      BY <1>a DEF Kept
    <3>2. live = {i \in Kept : ~(i < next /\ input[i].part # "self" /\ HasParent(i))}
      BY DEF LiveInv
    <3> QED
      BY <2>6, <3>1, <3>2
  <2>8. LiveInv'
    BY <1>a, <2>7 DEF LiveInv, HasParent, Kept, Key
  <2> QED
    BY <2>4, <2>5, <2>8
<1>5. CASE Recompute
  <2> USE <1>5 DEF Recompute
  <2>1. ASSUME NEW i \in 1..Len(input)
        PROVE  /\ IsClass(classes'[i]) /\ classes'[i].file = classes[i].file
               /\ classes'[i].type = classes[i].type /\ classes'[i].part = classes[i].part
               /\ classes'[i].package = classes[i].package
    <3>1. IsClass(classes[i]) /\ i \in DOMAIN classes
      BY DEF ClassesInv
    <3>2. classes'[i] = classes[i] \/ classes'[i] = WithRate(classes[i])
      BY <3>1
    <3> QED
      BY <3>1, <3>2, RateKeeps
  <2>2. DOMAIN classes' = DOMAIN classes /\ classes' = [i \in DOMAIN classes' |-> classes'[i]]
    OBVIOUS
  <2>3. ClassesInv'
    BY <2>1, <2>2 DEF ClassesInv
  <2>4. IndexInv' /\ LiveInv'
    BY DEF IndexInv, LiveInv, HasParent, Kept, Key
  <2> QED
    BY <2>3, <2>4
<1>6. CASE FixFilenames
  <2> USE <1>6 DEF FixFilenames
  <2>1. ASSUME NEW i \in 1..Len(input)
        PROVE  /\ IsClass(classes'[i])
               /\ classes'[i].type = classes[i].type /\ classes'[i].part = classes[i].part
               /\ classes'[i].package = classes[i].package
    <3>1. IsClass(classes[i]) /\ i \in DOMAIN classes
      BY DEF ClassesInv
    <3>2. classes'[i] = classes[i] \/ \E f : classes'[i] = [classes[i] EXCEPT !.file = f]
      BY <3>1
    <3> QED
      BY <3>1, <3>2 DEF IsClass
  <2>2. DOMAIN classes' = DOMAIN classes /\ classes' = [i \in DOMAIN classes' |-> classes'[i]]
    OBVIOUS
  <2>3. ClassesInv'
    <3>1. pc' = "done" /\ UNCHANGED <<input, next>>
      OBVIOUS
    <3>2. DOMAIN classes' = 1..Len(input)
      BY <2>2 DEF ClassesInv
    <3>3. \A i \in 1..Len(input) :
             /\ IsClass(classes[i])
             /\ classes[i].type = input[i].type /\ classes[i].part = input[i].part
             /\ classes[i].package = input[i].package
      BY DEF ClassesInv
    <3> HIDE DEF FixFilenames
    <3> QED
      BY <2>1, <2>2, <3>1, <3>2, <3>3 DEF ClassesInv
  <2>4. IndexInv' /\ LiveInv'
    BY DEF IndexInv, LiveInv, HasParent, Kept, Key
  <2> QED
    BY <2>3, <2>4
<1> QED
  BY <1>1, <1>2, <1>3, <1>4, <1>5, <1>6 DEF Next

\* IInv is an invariant.
THEOREM Invariance == Spec => []IInv
<1>1. IInv /\ UNCHANGED vars => IInv'
  BY DEF IInv, vars, ClassesInv, IndexInv, LiveInv, HasParent, Kept, Key
<1> QED
  BY <1>1, InitIInv, NextIInv, PTL DEF Spec

\* NoGeneratedNextToParent, for every instance: the loop of
\* mergeCompilerGeneratedClassesIntoParents takes the generated classes that have
\* a parent out of the document, and no others.
THEOREM NoGeneratedNextToParentHolds == Spec => []NoGeneratedNextToParent
<1>1. IInv => NoGeneratedNextToParent
  <2> SUFFICES ASSUME IInv, pc = "done", NEW i \in Kept
      PROVE  i \notin live <=> /\ input[i].part # "self"
                               /\ \E j \in Kept : /\ input[j].part = "self"
                                                 /\ input[j].type = input[i].type
                                                 /\ input[j].file = input[i].file
    BY DEF NoGeneratedNextToParent
  <2>1. Len(input) \in Nat /\ next \in Nat /\ next > Len(input) /\ i \in 1..Len(input)
    BY LengthOf DEF IInv, ClassesInv, LiveInv, Kept
  <2>2. i < next
    BY <2>1
  <2>3. i \notin live <=> input[i].part # "self" /\ HasParent(i)
    BY <2>2 DEF IInv, LiveInv
  <2> QED
    BY <2>3 DEF HasParent, Key
<1> QED
  BY <1>1, Invariance, PTL
-----------------------------------------------------------------------------
(* Numbers and lines.                                                      *)

\* Every non-empty set of natural numbers has a least element: of the intervals
\* 0..m for m in the set one has no other as a proper subset.
LEMMA LeastElement ==
    ASSUME NEW N \in SUBSET Nat, N # {}
    PROVE  \E m \in N : \A k \in N : m <= k
<1> DEFINE F == {0..m : m \in N}
<1>1. ASSUME NEW m \in N PROVE 0..m \in FiniteSubsetsOf(Nat)
  <2>1. IsFiniteSet(0..m)
    BY FS_Interval
  <2> QED
    BY <2>1 DEF FiniteSubsetsOf
<1>2. F \subseteq FiniteSubsetsOf(Nat) /\ F # {}
  BY <1>1
<1>3. PICK x \in F : \A y \in F : ~(<<y, x>> \in StrictSubsetOrdering(Nat))
  BY <1>2, WFMin, FS_StrictSubsetOrderingWellFounded
<1>4. PICK m \in N : x = 0..m
  OBVIOUS
<1>5. ASSUME NEW k \in N, k < m PROVE FALSE
  <2>1. 0..k \subseteq 0..m /\ m \in 0..m /\ m \notin 0..k
    BY <1>5
  <2>2. <<0..k, x>> \in (SUBSET Nat) \X (SUBSET Nat) /\ 0..k # x
    BY <1>4, <2>1
  <2>3. <<0..k, x>> \in StrictSubsetOrdering(Nat)
    BY <1>4, <2>1, <2>2 DEF StrictSubsetOrdering
  <2> QED
    BY <1>3, <2>3
<1> QED
  BY <1>5

\* Min finds it.
LEMMA MinIsLeast ==
    ASSUME NEW N \in SUBSET Nat, N # {}
    PROVE  Min(N) \in N /\ \A k \in N : Min(N) <= k
<1>1. \E m \in N : \A k \in N : m <= k
  BY LeastElement
<1> QED
  BY <1>1 DEF Min

\* A set of natural numbers with a bound has a greatest element, and Max finds it.
LEMMA MaxIsGreatest ==
    ASSUME NEW b \in Nat, NEW N \in SUBSET (0..b), N # {}
    PROVE  Max(N) \in N /\ \A k \in N : k <= Max(N)
<1> DEFINE D == {b - k : k \in N}
<1>1. D \in SUBSET Nat /\ D # {}
  OBVIOUS
<1>2. PICK d \in D : \A e \in D : d <= e
  BY <1>1, LeastElement
<1>3. PICK m \in N : d = b - m
  OBVIOUS
<1>4. ASSUME NEW k \in N PROVE m >= k
  <2>1. d <= b - k
    BY <1>2
  <2> QED
    BY <1>3, <2>1
<1>5. \E x \in N : \A y \in N : x >= y
  BY <1>4
<1>6. Max(N) \in N /\ \A y \in N : Max(N) >= y
  BY <1>5 DEF Max
<1> QED
  BY <1>6

\* One of the lines of L has the number n and at least h hits.
Covers(L, n, h) == \E l \in L : l.number = n /\ l.hits >= h

\* LinesToMap has the greatest hits of each number.
LEMMA LinesToMapIs ==
    ASSUME NEW L \in SUBSET Line
    PROVE  LET m == LinesToMap(L)
           IN /\ DOMAIN m = {l.number : l \in L}
              /\ \A n \in DOMAIN m : m[n] \in 0..MaxHits /\ \E l \in L : l.number = n /\ l.hits = m[n]
              /\ \A l \in L : l.hits <= m[l.number]
<1> DEFINE m == LinesToMap(L)
           H(n) == {l.hits : l \in {k \in L : k.number = n}}
<1>1. DOMAIN m = {l.number : l \in L} /\ \A n \in DOMAIN m : m[n] = Max(H(n))
  BY DEF LinesToMap
<1>2. ASSUME NEW n \in DOMAIN m
      PROVE  H(n) \in SUBSET (0..MaxHits) /\ H(n) # {}
  BY <1>1 DEF Line
<1>3. MaxHits \in Nat
  BY DocumentsAssumption DEF DocumentsAssumption
<1>4. ASSUME NEW n \in DOMAIN m
      PROVE  m[n] \in H(n) /\ \A h \in H(n) : h <= m[n]
  <2> HIDE DEF H, m
  <2> QED
    BY <1>1, <1>2, <1>3, MaxIsGreatest
<1> HIDE DEF m
<1>5. ASSUME NEW l \in L PROVE l.hits <= m[l.number]
  BY <1>1, <1>4
<1> QED
  BY <1>1, <1>2, <1>4, <1>5 DEF m

\* What is read of the map.
LEMMA HitsAtCovers ==
    ASSUME NEW L \in SUBSET Line, NEW n
    PROVE  /\ HitsAt(LinesToMap(L), n) \in Nat
           /\ \A h \in Nat \ {0} : HitsAt(LinesToMap(L), n) >= h <=> Covers(L, n, h)
<1> DEFINE m == LinesToMap(L)
<1>1. /\ DOMAIN m = {l.number : l \in L}
      /\ \A k \in DOMAIN m : m[k] \in 0..MaxHits /\ \E l \in L : l.number = k /\ l.hits = m[k]
      /\ \A l \in L : l.hits <= m[l.number]
  BY LinesToMapIs
<1>2. MaxHits \in Nat
  BY DocumentsAssumption DEF DocumentsAssumption
<1> HIDE DEF m
<1>3. HitsAt(m, n) \in Nat
  BY <1>1, <1>2 DEF HitsAt
<1>4. ASSUME NEW h \in Nat \ {0}, HitsAt(m, n) >= h PROVE Covers(L, n, h)
  BY <1>1, <1>4 DEF HitsAt, Covers
<1>5. ASSUME NEW h \in Nat \ {0}, Covers(L, n, h) PROVE HitsAt(m, n) >= h
  <2>1. PICK l \in L : l.number = n /\ l.hits >= h
    BY <1>5 DEF Covers
  <2>2. n \in DOMAIN m /\ l.hits <= m[n] /\ l.hits \in Int /\ m[n] \in Int
    BY <1>1, <2>1 DEF Line
  <2> QED
    BY <2>1, <2>2 DEF HitsAt
<1> QED
  BY <1>3, <1>4, <1>5 DEF m

\* Two sets of lines that cover the same show the same hits.
LEMMA SameHits ==
    ASSUME NEW K \in SUBSET Line, NEW L \in SUBSET Line, NEW n,
           \A h \in Nat \ {0} : Covers(K, n, h) <=> Covers(L, n, h)
    PROVE  HitsAt(LinesToMap(K), n) = HitsAt(LinesToMap(L), n)
<1> DEFINE a == HitsAt(LinesToMap(K), n)
           b == HitsAt(LinesToMap(L), n)
<1>1. a \in Nat /\ b \in Nat /\ \A h \in Nat \ {0} : a >= h <=> b >= h
  BY HitsAtCovers
<1> HIDE DEF a, b
<1>2. (a # 0 => b >= a) /\ (b # 0 => a >= b)
  BY <1>1
<1> QED
  BY <1>1, <1>2 DEF a, b

\* A map and its lines: MapToLines has one line of each number of m.
LEMMA MapToLinesIs ==
    ASSUME NEW m, DOMAIN m \subseteq Int, \A n \in DOMAIN m : m[n] \in 0..MaxHits
    PROVE  /\ MapToLines(m) \in SUBSET Line
           /\ \A n, h : Covers(MapToLines(m), n, h) <=> n \in DOMAIN m /\ m[n] >= h
<1> DEFINE at(n) == [number |-> n, hits |-> m[n]]
<1>1. ASSUME NEW n \in DOMAIN m PROVE at(n) \in Line /\ at(n).number = n /\ at(n).hits = m[n]
  BY DEF Line
<1>2. MapToLines(m) = {at(n) : n \in DOMAIN m}
  BY DEF MapToLines
<1> HIDE DEF at
<1>3. MapToLines(m) \in SUBSET Line
  BY <1>1, <1>2
<1>4. ASSUME NEW n, NEW h
      PROVE  Covers(MapToLines(m), n, h) <=> n \in DOMAIN m /\ m[n] >= h
  BY <1>1, <1>2 DEF Covers
<1> QED
  BY <1>3, <1>4

\* Merged lines cover what the lines of either class cover.
LEMMA WithLinesCovers ==
    ASSUME NEW c, NEW g, IsClass(c), c.lines \in SUBSET Line, g.lines \in SUBSET Line
    PROVE  LET L == WithLines(c, g).lines
           IN /\ L \in SUBSET Line
              /\ \A n : \A h \in Nat \ {0} :
                     Covers(L, n, h) <=> Covers(c.lines, n, h) \/ Covers(g.lines, n, h)
              /\ L = {} => c.lines = {}
<1> DEFINE a == LinesToMap(c.lines)
           b == LinesToMap(g.lines)
           m == MergeLines(a, b)
<1>0. MaxHits \in Nat
  BY DocumentsAssumption DEF DocumentsAssumption
<1>1. WithLines(c, g).lines = MapToLines(m)
  BY DEF WithLines, IsClass
<1>2. /\ DOMAIN a = {l.number : l \in c.lines}
      /\ \A n \in DOMAIN a : a[n] \in 0..MaxHits /\ \E l \in c.lines : l.number = n /\ l.hits = a[n]
      /\ \A l \in c.lines : l.hits <= a[l.number]
  BY LinesToMapIs
<1>3. /\ DOMAIN b = {l.number : l \in g.lines}
      /\ \A n \in DOMAIN b : b[n] \in 0..MaxHits /\ \E l \in g.lines : l.number = n /\ l.hits = b[n]
      /\ \A l \in g.lines : l.hits <= b[l.number]
  BY LinesToMapIs
<1>4. ASSUME NEW n PROVE HitsAt(a, n) \in Nat /\ HitsAt(b, n) \in Nat
  BY HitsAtCovers
<1>5. ASSUME NEW n, NEW h \in Nat \ {0}
      PROVE  /\ HitsAt(a, n) >= h <=> Covers(c.lines, n, h)
             /\ HitsAt(b, n) >= h <=> Covers(g.lines, n, h)
  BY HitsAtCovers
<1> HIDE DEF a, b
<1>a. DOMAIN a \subseteq Int /\ DOMAIN b \subseteq Int
  BY <1>2, <1>3 DEF Line
<1>b. DOMAIN a \subseteq DOMAIN m /\ DOMAIN m \subseteq Int
  BY <1>a DEF MergeLines
<1>c. ASSUME NEW n
      PROVE  /\ n \in DOMAIN m => /\ m[n] \in 0..MaxHits
                                 /\ m[n] = IF HitsAt(b, n) > HitsAt(a, n) THEN HitsAt(b, n)
                                           ELSE HitsAt(a, n)
             /\ n \notin DOMAIN m => HitsAt(a, n) = 0 /\ HitsAt(b, n) = 0
  <2>1. HitsAt(a, n) \in Nat /\ HitsAt(b, n) \in Nat
    BY <1>4
  <2> QED
    BY <1>0, <1>2, <1>3, <2>1 DEF MergeLines, HitsAt
<1> HIDE DEF m
<1>6. /\ MapToLines(m) \in SUBSET Line
      /\ \A n, h : Covers(MapToLines(m), n, h) <=> n \in DOMAIN m /\ m[n] >= h
  BY <1>b, <1>c, MapToLinesIs
<1>7. ASSUME NEW n, NEW h \in Nat \ {0}
      PROVE  Covers(MapToLines(m), n, h) <=> Covers(c.lines, n, h) \/ Covers(g.lines, n, h)
  <2>1. Covers(MapToLines(m), n, h) <=> n \in DOMAIN m /\ m[n] >= h
    BY <1>6
  <2>2. n \in DOMAIN m /\ m[n] >= h <=> HitsAt(a, n) >= h \/ HitsAt(b, n) >= h
    BY <1>4, <1>c
  <2> QED
    BY <1>5, <2>1, <2>2
<1>8. ASSUME NEW l \in c.lines PROVE MapToLines(m) # {}
  <2>1. l.number \in DOMAIN m
    BY <1>2, <1>b
  <2> QED
    BY <2>1 DEF MapToLines
<1> QED
  BY <1>1, <1>6, <1>7, <1>8

\* The lines of a state machine that were hit, as its parent lists them.
HitLines(g) ==
    LET all == UNION {g.methods[j].lines : j \in 1..Len(g.methods)}
    IN {l \in MapToLines(LinesToMap(all)) : l.hits > 0}

\* What Merge makes of the parent c: its lines are those of WithLines, and it has
\* a method more if g is a state machine that ran.
LEMMA MergeIs ==
    ASSUME NEW c, NEW g, IsClass(c)
    PROVE  /\ Merge(c, g).lines = WithLines(c, g).lines
           /\ Merge(c, g).rate = c.rate
           /\ Merge(c, g).methods =
                  IF g.part \in AsyncMethods /\ HitLines(g) # {}
                  THEN Append(c.methods, [name |-> g.part, lines |-> HitLines(g)]) ELSE c.methods
<1> DEFINE w == WithLines(c, g)
<1>1. IsClass(w) /\ w.rate = c.rate /\ w.methods = c.methods
  BY DEF WithLines, IsClass
<1> HIDE DEF w
<1>2. /\ WithMethod(w, g).lines = w.lines /\ WithMethod(w, g).rate = w.rate
      /\ WithMethod(w, g).methods = IF HitLines(g) = {} THEN w.methods
                                    ELSE Append(w.methods, [name |-> g.part, lines |-> HitLines(g)])
  <2>1. WithMethod(w, g) = IF HitLines(g) = {} THEN w
                           ELSE [w EXCEPT !.methods = Append(@, [name |-> g.part, lines |-> HitLines(g)])]
    BY DEF WithMethod, HitLines
  <2> QED
    BY <1>1, <2>1 DEF IsClass
<1>3. Merge(c, g) = IF g.part \in AsyncMethods THEN WithMethod(w, g) ELSE w
  BY DEF Merge, w
<1> QED
  BY <1>1, <1>2, <1>3 DEF w

\* What it lists are lines of the state machine.
LEMMA HitLinesAre ==
    ASSUME NEW g, g.lines \in SUBSET Line, g.methods \in Seq(Method),
           \A j \in 1..Len(g.methods) : g.methods[j].lines \subseteq g.lines
    PROVE  /\ HitLines(g) \in SUBSET Line
           /\ \A l \in HitLines(g) : l.hits > 0 /\ Covers(g.lines, l.number, l.hits)
<1> DEFINE all == UNION {g.methods[j].lines : j \in 1..Len(g.methods)}
           m == LinesToMap(all)
<1>1. all \in SUBSET Line /\ all \subseteq g.lines
  OBVIOUS
<1>2. HitLines(g) = {l \in MapToLines(m) : l.hits > 0}
  BY DEF HitLines
<1>3. /\ DOMAIN m = {l.number : l \in all}
      /\ \A n \in DOMAIN m : m[n] \in 0..MaxHits /\ \E l \in all : l.number = n /\ l.hits = m[n]
      /\ \A l \in all : l.hits <= m[l.number]
  BY <1>1, LinesToMapIs
<1> HIDE DEF m
<1>4. MapToLines(m) \in SUBSET Line
  BY <1>1, <1>3, MapToLinesIs, SMTT(30) DEF Line
<1>5. ASSUME NEW l \in HitLines(g) PROVE Covers(g.lines, l.number, l.hits)
  <2>1. PICK n \in DOMAIN m : l = [number |-> n, hits |-> m[n]]
    BY <1>2 DEF MapToLines
  <2>2. PICK k \in all : k.number = n /\ k.hits = m[n]
    BY <1>3
  <2>3. k \in g.lines /\ k.number = l.number /\ k.hits = l.hits /\ k.hits \in Int
    BY <1>1, <2>1, <2>2 DEF Line
  <2> QED
    BY <2>3 DEF Covers
<1> QED
  BY <1>2, <1>4, <1>5
-----------------------------------------------------------------------------
(* What the classes show, from the document that was read to the one that  *)
(* is written.                                                             *)

TypesInv ==
    \A i \in 1..Len(input) : classes[i].lines \in SUBSET Line /\ classes[i].methods \in Seq(Method)

\* A generated class is as it was read until it is merged away, and so is every
\* class to begin with.
GeneratedInv ==
    \A i \in 1..Len(input) : input[i].part # "self" \/ pc = "exclude" =>
        classes[i].lines = input[i].lines /\ classes[i].methods = input[i].methods

\* The index leads to a parent of the key, which stays in the document.
MainsInv ==
    pc \in {"merge", "sources", "done"} =>
        \A k \in DOMAIN mainClasses :
            /\ mainClasses[k] \in live
            /\ input[mainClasses[k]].part = "self" /\ Key(input[mainClasses[k]]) = k

\* Of the classes I of the document c, one in the file f covers line n.
ShownBy(c, I, f, n, h) == \E i \in I : input[i].file = f /\ Covers(c[i].lines, n, h)

\* The classes in the document cover what those of the packages that are kept did.
CoverInv ==
    pc # "exclude" =>
        \A f, n : \A h \in Nat \ {0} :
            ShownBy(classes, live, f, n, h) <=> ShownBy(input, Kept, f, n, h)

\* A class has the methods it had, and covers the lines of all its methods.
MethodsInv ==
    \A i \in 1..Len(input) :
        /\ Len(input[i].methods) <= Len(classes[i].methods)
        /\ \A j \in 1..Len(input[i].methods) : classes[i].methods[j] = input[i].methods[j]
        /\ \A j \in 1..Len(classes[i].methods) : \A l \in classes[i].methods[j].lines :
               l.hits = 0 \/ Covers(classes[i].lines, l.number, l.hits)

\* The parent of a state machine that was merged lists it, if it ran.
AsyncInv ==
    \A i \in Kept : i \notin live /\ input[i].part \in AsyncMethods /\ HitLines(input[i]) # {} =>
        LET methods == classes[mainClasses[Key(input[i])]].methods
        IN \E j \in 1..Len(methods) :
               methods[j] = [name |-> input[i].part, lines |-> HitLines(input[i])]

\* A rate is right, unless the class has lines from others and the rates are not
\* yet computed.
RateInv ==
    \A i \in 1..Len(input) :
        i \notin modified \/ classes[i].lines = {} \/ pc \in {"sources", "done"} =>
            classes[i].rate = RateOf(classes[i].lines)

DocInv ==
    /\ TypesInv /\ GeneratedInv /\ MainsInv /\ CoverInv /\ MethodsInv /\ AsyncInv /\ RateInv

\* What is assumed of the classes that were read.
LEMMA InputOK == ASSUME input \in Documents, NEW i \in 1..Len(input) PROVE ClassOK(input[i])
  BY DocumentsAssumption DEF DocumentsAssumption

\* The initial states satisfy it.
LEMMA InitDocInv == Init => DocInv
<1> SUFFICES ASSUME Init PROVE DocInv
  OBVIOUS
<1>1. ASSUME NEW i \in 1..Len(input)
      PROVE  /\ ClassOK(input[i])
             /\ classes[i].lines = input[i].lines /\ classes[i].methods = input[i].methods
             /\ classes[i].rate = RateOf(classes[i].lines)
  BY InputOK DEF Init
<1>2. TypesInv /\ GeneratedInv /\ RateInv
  BY <1>1 DEF TypesInv, GeneratedInv, RateInv, ClassOK
<1>3. MethodsInv
  <2> SUFFICES ASSUME NEW i \in 1..Len(input),
                      NEW j \in 1..Len(input[i].methods), NEW l \in input[i].methods[j].lines
               PROVE  Covers(input[i].lines, l.number, l.hits)
    <3>1. \A i \in 1..Len(input) : Len(input[i].methods) \in Nat
      BY <1>1 DEF ClassOK
    <3> QED
      BY <1>1, <3>1 DEF MethodsInv
  <2>1. l \in input[i].lines /\ l.hits \in Int
    BY <1>1 DEF ClassOK, Line
  <2> QED
    BY <2>1 DEF Covers
<1>4. MainsInv /\ CoverInv /\ AsyncInv
  BY DEF Init, MainsInv, CoverInv, AsyncInv, Kept
<1> QED
  BY <1>2, <1>3, <1>4 DEF DocInv

\* A step that merges a class into its parent.
LEMMA MergeDocInv ==
    ASSUME IInv, DocInv, MergeClass
    PROVE  DocInv'
<1> DEFINE p == mainClasses[Key(classes[next])]
           g == classes[next]
<1>1. next \in 1..Len(input) /\ next \in live /\ next \in Kept /\ input[next].part # "self"
  <2>1. next \in Kept /\ next \in 1..Len(input) /\ next \in live
    BY DEF MergeClass, AtClass, IInv, LiveInv, Kept
  <2> QED
    BY <2>1 DEF MergeClass, AtClass, IInv, ClassesInv, IsGenerated
<1>2. /\ Key(g) = Key(input[next]) /\ Key(g) \in DOMAIN mainClasses
      /\ g.part = input[next].part /\ g.lines = input[next].lines /\ g.methods = input[next].methods
  BY <1>1 DEF MergeClass, AtClass, IInv, ClassesInv, Key, DocInv, GeneratedInv
<1>3. /\ p \in live /\ p \in 1..Len(input) /\ p # next
      /\ input[p].part = "self" /\ input[p].file = input[next].file
  <2>1. p \in live /\ input[p].part = "self" /\ Key(input[p]) = Key(input[next])
    BY <1>2 DEF MergeClass, AtClass, DocInv, MainsInv
  <2> QED
    BY <1>1, <2>1 DEF IInv, LiveInv, Kept, Key, MergeClass, AtClass
<1>4. /\ input' = input /\ excluded' = excluded /\ pc' = "merge" /\ pc = "merge"
      /\ mainClasses' = mainClasses /\ live' = live \ {next} /\ modified' = modified \cup {p}
      /\ classes' = [classes EXCEPT ![p] = Merge(classes[p], g)]
  BY DEF MergeClass, AtClass, Advance
<1>5. IsClass(classes[p]) /\ DOMAIN classes = 1..Len(input)
  BY <1>3 DEF IInv, ClassesInv
<1>6. /\ ClassOK(input[next])
      /\ classes[p].lines \in SUBSET Line /\ classes[p].methods \in Seq(Method)
      /\ g.lines \in SUBSET Line /\ g.methods \in Seq(Method)
      /\ \A j \in 1..Len(g.methods) : g.methods[j].lines \subseteq g.lines
  <2>1. ClassOK(input[next])
    BY <1>1, InputOK DEF IInv, ClassesInv
  <2> QED
    BY <1>1, <1>2, <1>3, <2>1 DEF DocInv, TypesInv, ClassOK
<1>7. HitLines(g) = HitLines(input[next])
  BY <1>2 DEF HitLines
<1> HIDE DEF p, g
<1> DEFINE m == Merge(classes[p], g)
           method == [name |-> g.part, lines |-> HitLines(g)]
<1>8. /\ m.lines \in SUBSET Line
      /\ \A n : \A h \in Nat \ {0} :
             Covers(m.lines, n, h) <=> Covers(classes[p].lines, n, h) \/ Covers(g.lines, n, h)
      /\ m.lines = {} => classes[p].lines = {}
      /\ m.rate = classes[p].rate
      /\ m.methods = IF g.part \in AsyncMethods /\ HitLines(g) # {}
                     THEN Append(classes[p].methods, method) ELSE classes[p].methods
  <2>1. /\ m.lines = WithLines(classes[p], g).lines /\ m.rate = classes[p].rate
        /\ m.methods = IF g.part \in AsyncMethods /\ HitLines(g) # {}
                       THEN Append(classes[p].methods, method) ELSE classes[p].methods
    BY <1>5, MergeIs
  <2> HIDE DEF m, method
  <2> DEFINE L == WithLines(classes[p], g).lines
  <2>2. /\ L \in SUBSET Line
        /\ \A n : \A h \in Nat \ {0} :
               Covers(L, n, h) <=> Covers(classes[p].lines, n, h) \/ Covers(g.lines, n, h)
        /\ L = {} => classes[p].lines = {}
    BY <1>5, <1>6, WithLinesCovers
  <2> QED
    BY <2>1, <2>2
<1>9. /\ HitLines(g) \in SUBSET Line
      /\ \A l \in HitLines(g) : l.hits > 0 /\ Covers(g.lines, l.number, l.hits)
  BY <1>6, HitLinesAre
<1> HIDE DEF m
<1>10. classes'[p] = m /\ \A i \in 1..Len(input) : i # p => classes'[i] = classes[i]
  BY <1>3, <1>4, <1>5 DEF m
\* The methods of the parent, of which there may be one more.
<1>11. /\ m.methods \in Seq(Method) /\ Len(classes[p].methods) \in Nat
       /\ Len(classes[p].methods) <= Len(m.methods)
       /\ \A j \in 1..Len(classes[p].methods) : m.methods[j] = classes[p].methods[j]
       /\ \A j \in 1..Len(m.methods) :
              \/ j \in 1..Len(classes[p].methods)
              \/ m.methods[j] = method
       /\ g.part \in AsyncMethods /\ HitLines(g) # {} =>
              \E j \in 1..Len(m.methods) : m.methods[j] = method
  <2>1. Len(classes[p].methods) \in Nat
    BY <1>6
  <2>2. CASE g.part \in AsyncMethods /\ HitLines(g) # {}
    <3>1. method \in Method
      BY <1>9, <2>2, DocumentsAssumption DEF DocumentsAssumption, Method
    <3> HIDE DEF method
    <3>2. m.methods = Append(classes[p].methods, method)
      BY <1>8, <2>2
    <3>3. /\ m.methods \in Seq(Method) /\ Len(m.methods) = Len(classes[p].methods) + 1
          /\ \A j \in 1..Len(classes[p].methods) : m.methods[j] = classes[p].methods[j]
          /\ m.methods[Len(classes[p].methods) + 1] = method
      BY <1>6, <3>1, <3>2, AppendProperties
    <3> QED
      BY <2>1, <3>3, SMTT(30)
  <2>3. CASE ~(g.part \in AsyncMethods /\ HitLines(g) # {})
    BY <1>6, <1>8, <2>1, <2>3
  <2> QED
    BY <2>2, <2>3
<1>12. TypesInv'
  BY <1>4, <1>8, <1>10, <1>11 DEF DocInv, TypesInv
<1>13. GeneratedInv'
  BY <1>3, <1>4, <1>10 DEF DocInv, GeneratedInv
<1>14. MainsInv'
  BY <1>1, <1>4 DEF DocInv, MainsInv, Key
<1>15. CoverInv'
  <2> SUFFICES ASSUME NEW f, NEW n, NEW h \in Nat \ {0}
               PROVE  ShownBy(classes', live', f, n, h) <=> ShownBy(classes, live, f, n, h)
    <3> SUFFICES ASSUME NEW f, NEW n, NEW h \in Nat \ {0}
                 PROVE  ShownBy(classes, live, f, n, h)' <=> ShownBy(input, Kept, f, n, h)'
      BY DEF CoverInv
    <3>1. ShownBy(input, Kept, f, n, h)' <=> ShownBy(input, Kept, f, n, h)
      BY <1>4 DEF Kept, ShownBy
    <3>2. ShownBy(classes, live, f, n, h)' <=> ShownBy(classes', live', f, n, h)
      BY <1>4 DEF ShownBy
    <3>3. ShownBy(classes, live, f, n, h) <=> ShownBy(input, Kept, f, n, h)
      BY <1>4 DEF DocInv, CoverInv
    <3> QED
      BY <3>1, <3>2, <3>3
  <2>1. live \subseteq 1..Len(input)
    BY <1>4 DEF IInv, LiveInv, Kept
  <2>2. Covers(m.lines, n, h) <=> Covers(classes[p].lines, n, h) \/ Covers(g.lines, n, h)
    BY <1>8
  <2>3. ASSUME ShownBy(classes', live', f, n, h) PROVE ShownBy(classes, live, f, n, h)
    <3>1. PICK i \in live : i # next /\ input[i].file = f /\ Covers(classes'[i].lines, n, h)
      BY <1>4, <2>3 DEF ShownBy
    <3>2. CASE i # p
      BY <1>10, <2>1, <3>1, <3>2 DEF ShownBy
    <3>3. CASE i = p
      BY <1>1, <1>3, <1>10, <2>2, <3>1, <3>3 DEF ShownBy, g
    <3> QED
      BY <3>2, <3>3
  <2>4. ASSUME ShownBy(classes, live, f, n, h) PROVE ShownBy(classes', live', f, n, h)
    <3>1. PICK i \in live : input[i].file = f /\ Covers(classes[i].lines, n, h)
      BY <2>4 DEF ShownBy
    <3>2. CASE i # p /\ i # next
      BY <1>4, <1>10, <2>1, <3>1, <3>2 DEF ShownBy
    <3>3. CASE i = p \/ i = next
      <4>1. Covers(m.lines, n, h) /\ input[p].file = f
        BY <1>3, <2>2, <3>1, <3>3 DEF g
      <4> QED
        BY <1>3, <1>4, <1>10, <4>1 DEF ShownBy
    <3> QED
      BY <3>2, <3>3
  <2> QED
    BY <2>3, <2>4
<1>16. MethodsInv'
  <2>1. ASSUME NEW i \in 1..Len(input), i # p
        PROVE  /\ Len(input[i].methods) <= Len(classes'[i].methods)
               /\ \A j \in 1..Len(input[i].methods) : classes'[i].methods[j] = input[i].methods[j]
               /\ \A j \in 1..Len(classes'[i].methods) : \A l \in classes'[i].methods[j].lines :
                      l.hits = 0 \/ Covers(classes'[i].lines, l.number, l.hits)
    BY <1>10, <2>1 DEF DocInv, MethodsInv
  <2>2. /\ Len(input[p].methods) <= Len(m.methods)
        /\ \A j \in 1..Len(input[p].methods) : m.methods[j] = input[p].methods[j]
    <3>1. /\ Len(input[p].methods) <= Len(classes[p].methods)
          /\ \A j \in 1..Len(input[p].methods) : classes[p].methods[j] = input[p].methods[j]
      BY <1>3 DEF DocInv, MethodsInv
    <3>2. Len(input[p].methods) \in Nat /\ Len(m.methods) \in Nat
      BY <1>3, <1>11, InputOK DEF ClassOK, IInv, ClassesInv
    <3> QED
      BY <1>11, <3>1, <3>2
  <2>3. ASSUME NEW j \in 1..Len(m.methods), NEW l \in m.methods[j].lines
        PROVE  l.hits = 0 \/ Covers(m.lines, l.number, l.hits)
    <3>1. l.hits \in Nat
      <4>1. m.methods[j] \in Method
        BY <1>11
      <4>2. l \in Line
        BY <4>1 DEF Method
      <4> QED
        BY <4>2, DocumentsAssumption DEF DocumentsAssumption, Line
    <3>2. CASE j \in 1..Len(classes[p].methods)
      BY <1>3, <1>8, <1>11, <3>1, <3>2 DEF DocInv, MethodsInv
    <3>3. CASE m.methods[j] = method
      <4>1. l \in HitLines(g)
        BY <3>3
      <4> QED
        BY <1>8, <1>9, <3>1, <4>1
    <3> QED
      BY <1>11, <3>2, <3>3
  <2> QED
    BY <1>4, <1>10, <2>1, <2>2, <2>3 DEF MethodsInv
<1>17. AsyncInv'
  <2> SUFFICES ASSUME NEW i \in Kept, i \notin live \/ i = next,
                      input[i].part \in AsyncMethods, HitLines(input[i]) # {}
               PROVE  LET methods == classes'[mainClasses[Key(input[i])]].methods
                      IN \E j \in 1..Len(methods) :
                             methods[j] = [name |-> input[i].part, lines |-> HitLines(input[i])]
    <3>1. Kept' = Kept
      BY <1>4 DEF Kept
    <3> QED
      BY <1>4, <3>1 DEF AsyncInv
  <2>1. CASE i = next
    <3>1. mainClasses[Key(input[i])] = p
      BY <1>2, <2>1 DEF p, g
    <3>2. method = [name |-> input[i].part, lines |-> HitLines(input[i])]
      BY <1>2, <1>7, <2>1
    <3>3. g.part \in AsyncMethods /\ HitLines(g) # {}
      BY <1>2, <1>7, <2>1
    <3> QED
      BY <1>10, <1>11, <3>1, <3>2, <3>3
  <2>2. CASE i # next
    <3> DEFINE q == mainClasses[Key(input[i])]
               old == [name |-> input[i].part, lines |-> HitLines(input[i])]
    <3>1. PICK j \in 1..Len(classes[q].methods) : classes[q].methods[j] = old
      BY <2>2 DEF DocInv, AsyncInv
    <3>2. q \in 1..Len(input)
      <4>1. i \in 1..Len(input) /\ input[i].part # "self" /\ HasParent(i)
        BY <1>4, <2>2 DEF Kept, IInv, LiveInv
      <4>2. Key(input[i]) \in DOMAIN mainClasses
        BY <1>4, <4>1 DEF IInv, IndexInv
      <4> QED
        BY <1>4, <4>2 DEF DocInv, MainsInv, IInv, LiveInv, Kept
    <3> HIDE DEF old, q
    <3>3. CASE q = p
      <4>1. j \in 1..Len(m.methods) /\ m.methods[j] = old
        <5>1. Len(m.methods) \in Nat
          BY <1>11
        <5> QED
          BY <1>11, <3>1, <3>3, <5>1
      <4> QED
        BY <1>10, <3>3, <4>1 DEF old, q
    <3>4. CASE q # p
      BY <1>10, <3>1, <3>2, <3>4 DEF old, q
    <3> QED
      BY <3>3, <3>4
  <2> QED
    BY <2>1, <2>2
<1>18. RateInv'
  <2>1. ASSUME NEW i \in 1..Len(input), i # p,
               i \notin modified' \/ classes'[i].lines = {}
        PROVE  classes'[i].rate = RateOf(classes'[i].lines)
    BY <1>4, <1>10, <2>1 DEF DocInv, RateInv
  <2>2. ASSUME m.lines = {} PROVE m.rate = RateOf(m.lines)
    BY <1>3, <1>8, <2>2 DEF DocInv, RateInv
  <2> QED
    BY <1>4, <1>10, <2>1, <2>2 DEF RateInv
<1> QED
  BY <1>12, <1>13, <1>14, <1>15, <1>16, <1>17, <1>18 DEF DocInv

\* Computing a rate changes nothing else.
LEMMA RateIs ==
    ASSUME NEW c, IsClass(c)
    PROVE  /\ WithRate(c).lines = c.lines /\ WithRate(c).methods = c.methods
           /\ WithRate(c).rate = IF c.lines = {} THEN c.rate ELSE RateOf(c.lines)
  BY DEF WithRate, IsClass

\* What is left alone as long as the lines and the methods of the classes are.
LEMMA SameLines ==
    ASSUME IInv, DocInv, UNCHANGED <<input, excluded, live, mainClasses>>,
           pc # "exclude", pc' = pc \/ (pc' \in {"sources", "done"} /\ pc \in {"merge", "sources"}),
           \A i \in 1..Len(input) : /\ classes'[i].lines = classes[i].lines
                                  /\ classes'[i].methods = classes[i].methods
    PROVE  TypesInv' /\ GeneratedInv' /\ MainsInv' /\ CoverInv' /\ MethodsInv' /\ AsyncInv'
<1>1. Kept' = Kept /\ live \subseteq 1..Len(input)
  BY DEF Kept, IInv, LiveInv
<1>2. TypesInv' /\ GeneratedInv' /\ MethodsInv'
  <2>1. TypesInv'
    BY DEF DocInv, TypesInv
  <2>2. GeneratedInv'
    <3>1. pc' # "exclude"
      OBVIOUS
    <3> QED
      BY <3>1 DEF DocInv, GeneratedInv
  <2>3. MethodsInv'
    <3> SUFFICES ASSUME NEW i \in 1..Len(input')
                 PROVE  /\ Len(input'[i].methods) <= Len(classes'[i].methods)
                        /\ \A j \in 1..Len(input'[i].methods) :
                               classes'[i].methods[j] = input'[i].methods[j]
                        /\ \A j \in 1..Len(classes'[i].methods) :
                               \A l \in classes'[i].methods[j].lines :
                                   l.hits = 0 \/ Covers(classes'[i].lines, l.number, l.hits)
      BY DEF MethodsInv
    <3>1. i \in 1..Len(input) /\ input'[i].methods = input[i].methods
      OBVIOUS
    <3>2. classes'[i].lines = classes[i].lines /\ classes'[i].methods = classes[i].methods
      BY <3>1
    <3>3. /\ Len(input[i].methods) <= Len(classes[i].methods)
          /\ \A j \in 1..Len(input[i].methods) : classes[i].methods[j] = input[i].methods[j]
          /\ \A j \in 1..Len(classes[i].methods) : \A l \in classes[i].methods[j].lines :
                 l.hits = 0 \/ Covers(classes[i].lines, l.number, l.hits)
      BY <3>1 DEF DocInv, MethodsInv
    <3> QED
      BY <3>1, <3>2, <3>3
  <2> QED
    BY <2>1, <2>2, <2>3
<1>3. MainsInv'
  BY DEF DocInv, MainsInv
<1>4. CoverInv'
  <2> SUFFICES ASSUME NEW f, NEW n, NEW h \in Nat \ {0}
               PROVE  ShownBy(classes, live, f, n, h)' <=> ShownBy(input, Kept, f, n, h)'
    BY DEF CoverInv
  <2>1. ShownBy(input, Kept, f, n, h)' <=> ShownBy(input, Kept, f, n, h)
    BY <1>1 DEF ShownBy
  <2>2. ShownBy(classes, live, f, n, h)' <=> ShownBy(classes, live, f, n, h)
    BY <1>1 DEF ShownBy
  <2> QED
    BY <2>1, <2>2 DEF DocInv, CoverInv
<1>5. AsyncInv'
  <2> SUFFICES ASSUME NEW i \in Kept, i \notin live,
                      input[i].part \in AsyncMethods, HitLines(input[i]) # {}
               PROVE  LET methods == classes'[mainClasses[Key(input[i])]].methods
                      IN \E j \in 1..Len(methods) :
                             methods[j] = [name |-> input[i].part, lines |-> HitLines(input[i])]
    BY <1>1 DEF AsyncInv
  <2>1. i \in 1..Len(input) /\ pc # "index" /\ input[i].part # "self" /\ HasParent(i)
    BY LengthOf DEF Kept, IInv, ClassesInv, LiveInv
  <2>2. mainClasses[Key(input[i])] \in 1..Len(input)
    BY <1>1, <2>1 DEF IInv, ClassesInv, IndexInv, DocInv, MainsInv
  <2> QED
    BY <2>2 DEF DocInv, AsyncInv
<1> QED
  BY <1>2, <1>3, <1>4, <1>5

\* Every step preserves the invariant.
LEMMA NextDocInv == IInv /\ DocInv /\ Next => DocInv'
<1> SUFFICES ASSUME IInv, DocInv, Next PROVE DocInv'
  OBVIOUS
<1>a. Len(input) \in Nat /\ next \in Nat
  BY LengthOf DEF IInv, ClassesInv
<1>1. CASE Exclude
  <2>1. /\ UNCHANGED <<input, excluded, classes, mainClasses, next, modified>>
        /\ pc = "exclude" /\ pc' = "index"
    BY <1>1 DEF Exclude
  <2>2. Kept' = Kept /\ live' = Kept /\ Kept \subseteq 1..Len(input)
    BY <1>1 DEF Exclude, IInv, ClassesInv, LiveInv, Kept
  <2>3. TypesInv' /\ GeneratedInv' /\ MainsInv' /\ MethodsInv' /\ RateInv'
    BY <2>1 DEF DocInv, TypesInv, GeneratedInv, MainsInv, MethodsInv, RateInv
  <2>4. CoverInv'
    <3>1. ASSUME NEW f, NEW n, NEW h
          PROVE  ShownBy(classes, live, f, n, h)' <=> ShownBy(input, Kept, f, n, h)'
      BY <2>1, <2>2 DEF ShownBy, DocInv, GeneratedInv
    <3> QED
      BY <3>1 DEF CoverInv
  <2>5. AsyncInv'
    BY <2>2 DEF AsyncInv
  <2> QED
    BY <2>3, <2>4, <2>5 DEF DocInv
<1>2. CASE Index
  <2>1. /\ UNCHANGED <<input, excluded, classes, live, next, modified>>
        /\ pc = "index" /\ pc' = "merge"
    BY <1>2 DEF Index
  <2>2. Kept' = Kept /\ live = Kept /\ Kept \subseteq 1..Len(input)
    BY <1>a, <2>1 DEF IInv, LiveInv, Kept
  <2>3. TypesInv' /\ GeneratedInv' /\ MethodsInv' /\ RateInv'
    BY <2>1 DEF DocInv, TypesInv, GeneratedInv, MethodsInv, RateInv
  <2>4. MainsInv'
    <3> SUFFICES ASSUME NEW k \in DOMAIN mainClasses'
                 PROVE  /\ mainClasses'[k] \in live
                        /\ input[mainClasses'[k]].part = "self" /\ Key(input[mainClasses'[k]]) = k
      BY <2>1 DEF MainsInv
    <3> DEFINE M == {i \in live : ~IsGenerated(classes[i]) /\ Key(classes[i]) = k}
    <3>1. mainClasses'[k] = Max(M) /\ M # {}
      <4> DEFINE mains == {i \in live : ~IsGenerated(classes[i])}
      <4>1. mainClasses' = [x \in {Key(classes[i]) : i \in mains} |->
                               Max({i \in mains : Key(classes[i]) = x})]
        BY <1>2 DEF Index
      <4>2. {i \in mains : Key(classes[i]) = k} = M
        OBVIOUS
      <4> HIDE DEF mains
      <4>3. mainClasses'[k] = Max({i \in mains : Key(classes[i]) = k})
        BY <4>1
      <4>4. \E i \in mains : Key(classes[i]) = k
        BY <4>1
      <4> QED
        BY <4>2, <4>3, <4>4
    <3>2. M \in SUBSET (0..Len(input))
      <4>1. M \subseteq live /\ 1..Len(input) \subseteq 0..Len(input)
        BY <1>a
      <4> HIDE DEF M
      <4> QED
        BY <2>2, <4>1
    <3>3. Max(M) \in M
      <4> HIDE DEF M
      <4> QED
        BY <1>a, <3>1, <3>2, MaxIsGreatest
    <3>4. \A i \in M : /\ i \in live /\ input[i].part = "self" /\ Key(input[i]) = k
      BY <2>1, <2>2 DEF IInv, ClassesInv, IsGenerated, Key
    <3> QED
      BY <3>1, <3>3, <3>4
  <2>5. CoverInv'
    <3>1. ASSUME NEW f, NEW n, NEW h \in Nat \ {0}
          PROVE  ShownBy(classes, live, f, n, h)' <=> ShownBy(input, Kept, f, n, h)'
      <4>1. ShownBy(classes, live, f, n, h) <=> ShownBy(input, Kept, f, n, h)
        BY <2>1 DEF DocInv, CoverInv
      <4> QED
        BY <2>1, <2>2, <4>1 DEF ShownBy
    <3> QED
      BY <3>1 DEF CoverInv
  <2>6. AsyncInv'
    BY <2>1, <2>2 DEF AsyncInv
  <2> QED
    BY <2>3, <2>4, <2>5, <2>6 DEF DocInv
<1>3. CASE KeepClass
  <2>1. UNCHANGED <<input, excluded, classes, live, mainClasses, modified, pc>> /\ pc = "merge"
    BY <1>3 DEF KeepClass, AtClass, Advance
  <2>2. RateInv'
    BY <2>1 DEF DocInv, RateInv
  <2> QED
    BY <2>1, <2>2, SameLines DEF DocInv
<1>4. CASE MergeClass
  BY <1>4, MergeDocInv
<1>5. CASE Recompute
  <2>1. /\ UNCHANGED <<input, excluded, live, mainClasses>> /\ pc = "merge" /\ pc' = "sources"
        /\ classes' = [i \in DOMAIN classes |->
                          IF i \in modified THEN WithRate(classes[i]) ELSE classes[i]]
    BY <1>5 DEF Recompute
  <2>2. ASSUME NEW i \in 1..Len(input)
        PROVE  /\ classes'[i].lines = classes[i].lines /\ classes'[i].methods = classes[i].methods
               /\ classes'[i].rate = RateOf(classes[i].lines)
    <3>1. IsClass(classes[i]) /\ i \in DOMAIN classes
      BY DEF IInv, ClassesInv
    <3>2. i \notin modified \/ classes[i].lines = {} => classes[i].rate = RateOf(classes[i].lines)
      BY DEF DocInv, RateInv
    <3> QED
      BY <2>1, <3>1, <3>2, RateIs
  <2>3. RateInv'
    BY <2>1, <2>2 DEF RateInv
  <2> QED
    BY <2>1, <2>2, <2>3, SameLines DEF DocInv
<1>6. CASE FixFilenames
  <2>1. UNCHANGED <<input, excluded, live, mainClasses>> /\ pc = "sources" /\ pc' = "done"
    BY <1>6 DEF FixFilenames
  <2>2. ASSUME NEW i \in 1..Len(input)
        PROVE  /\ classes'[i].lines = classes[i].lines /\ classes'[i].methods = classes[i].methods
               /\ classes'[i].rate = classes[i].rate
    <3>1. IsClass(classes[i]) /\ i \in DOMAIN classes
      BY DEF IInv, ClassesInv
    <3>2. classes'[i] = classes[i] \/ \E x : classes'[i] = [classes[i] EXCEPT !.file = x]
      BY <1>6, <3>1 DEF FixFilenames
    <3> QED
      BY <3>1, <3>2 DEF IsClass
  <2>3. RateInv'
    BY <2>1, <2>2 DEF DocInv, RateInv
  <2> QED
    BY <2>1, <2>2, <2>3, SameLines DEF DocInv
<1> QED
  BY <1>1, <1>2, <1>3, <1>4, <1>5, <1>6 DEF Next

\* DocInv is an invariant.
THEOREM DocInvariance == Spec => []DocInv
<1>1. DocInv /\ UNCHANGED vars => DocInv'
  <2> SUFFICES ASSUME DocInv, UNCHANGED vars PROVE DocInv'
    OBVIOUS
  <2> USE DEF vars
  <2>1. TypesInv' /\ GeneratedInv' /\ MainsInv' /\ MethodsInv' /\ RateInv'
    BY DEF DocInv, TypesInv, GeneratedInv, MainsInv, MethodsInv, RateInv, Key
  <2>2. Kept' = Kept
    BY DEF Kept
  <2>3. CoverInv'
    <3>1. ASSUME NEW f, NEW n, NEW h \in Nat \ {0}, pc' # "exclude"
          PROVE  ShownBy(classes, live, f, n, h)' <=> ShownBy(input, Kept, f, n, h)'
      <4>1. pc # "exclude"
        BY <3>1
      <4>2. ShownBy(classes, live, f, n, h) <=> ShownBy(input, Kept, f, n, h)
        BY <4>1 DEF DocInv, CoverInv
      <4> QED
        BY <2>2, <4>2 DEF ShownBy
    <3> QED
      BY <3>1 DEF CoverInv
  <2>4. AsyncInv'
    BY <2>2 DEF DocInv, AsyncInv, Key
  <2> QED
    BY <2>1, <2>3, <2>4 DEF DocInv
<1> QED
  BY <1>1, InitDocInv, NextDocInv, Invariance, PTL DEF Spec

\* CoverageKept, for every document and whatever is excluded: merging the
\* generated classes neither loses a hit of a line nor makes one up.
THEOREM CoverageKeptHolds == Spec => []CoverageKept
<1>1. IInv /\ DocInv => CoverageKept
  <2> SUFFICES ASSUME IInv, DocInv, pc # "exclude", NEW f, NEW n
               PROVE  HitsAt(FileHits(classes, live, f), n) = HitsAt(FileHits(input, Kept, f), n)
    BY DEF CoverageKept
  <2> DEFINE Of(c, I) == UNION {c[i].lines : i \in {j \in I : input[j].file = f}}
  <2>1. live \subseteq 1..Len(input) /\ Kept \subseteq 1..Len(input)
    BY DEF IInv, LiveInv, Kept
  <2>2. \A i \in 1..Len(input) : classes[i].lines \in SUBSET Line /\ input[i].lines \in SUBSET Line
    BY InputOK DEF IInv, ClassesInv, DocInv, TypesInv, ClassOK
  <2>3. Of(classes, live) \in SUBSET Line /\ Of(input, Kept) \in SUBSET Line
    BY <2>1, <2>2
  <2>4. ASSUME NEW c, NEW I, NEW h
        PROVE  Covers(Of(c, I), n, h) <=> ShownBy(c, I, f, n, h)
    BY DEF Covers, ShownBy
  <2>5. FileHits(classes, live, f) = LinesToMap(Of(classes, live))
    BY DEF FileHits
  <2>6. FileHits(input, Kept, f) = LinesToMap(Of(input, Kept))
    BY DEF FileHits
  <2> HIDE DEF Of
  <2>7. ASSUME NEW h \in Nat \ {0}
        PROVE  Covers(Of(classes, live), n, h) <=> Covers(Of(input, Kept), n, h)
    BY <2>4 DEF DocInv, CoverInv
  <2> QED
    BY <2>3, <2>5, <2>6, <2>7, SameHits
<1> QED
  BY <1>1, DocInvariance, Invariance, PTL

\* ClassesAgree, for every document: what a class that is written says of its
\* methods, of those that were merged into it and of its rate agrees with its lines.
THEOREM ClassesAgreeHolds == Spec => []ClassesAgree
<1>1. IInv /\ DocInv => ClassesAgree
  <2> SUFFICES ASSUME IInv, DocInv PROVE ClassesAgree
    OBVIOUS
  <2>1. live \subseteq 1..Len(input) /\ Kept \subseteq 1..Len(input)
    BY DEF IInv, LiveInv, Kept
  <2>2. ASSUME NEW i \in Kept, i \notin live, input[i].part \in AsyncMethods,
               NEW ran, ran = {l \in MapToLines(FileHits(input, {i}, input[i].file)) : l.hits > 0},
               ran # {}
        PROVE  LET methods == classes[mainClasses[Key(input[i])]].methods
               IN \E j \in 1..Len(methods) :
                      methods[j].name = input[i].part /\ methods[j].lines = ran
    <3> DEFINE all == UNION {input[i].methods[j].lines : j \in 1..Len(input[i].methods)}
    <3>1. input[i].lines = all
      BY <2>1, <2>2, InputOK DEF IInv, ClassesInv, ClassOK
    <3>2. FileHits(input, {i}, input[i].file) = LinesToMap(input[i].lines)
      <4>1. {j \in {i} : input[j].file = input[i].file} = {i}
        OBVIOUS
      <4>2. UNION {input[k].lines : k \in {i}} = input[i].lines
        OBVIOUS
      <4> QED
        BY <4>1, <4>2 DEF FileHits
    <3>3. ran = HitLines(input[i])
      BY <2>2, <3>1, <3>2 DEF HitLines
    <3> DEFINE methods == classes[mainClasses[Key(input[i])]].methods
    <3>4. \E j \in 1..Len(methods) :
              methods[j] = [name |-> input[i].part, lines |-> HitLines(input[i])]
      BY <2>2, <3>3 DEF DocInv, AsyncInv
    <3> QED
      BY <3>3, <3>4
  <2>3. ASSUME NEW i \in live, NEW j \in 1..Len(classes[i].methods),
               NEW l \in classes[i].methods[j].lines
        PROVE  HitsAt(LinesToMap(classes[i].lines), l.number) >= l.hits
    <3>1. classes[i].lines \in SUBSET Line /\ classes[i].methods[j] \in Method
      BY <2>1 DEF DocInv, TypesInv
    <3>2. l \in Line
      BY <3>1 DEF Method
    <3>3. l.hits \in Nat
      BY <3>2, DocumentsAssumption DEF DocumentsAssumption, Line
    <3>4. l.hits = 0 \/ Covers(classes[i].lines, l.number, l.hits)
      BY <2>1 DEF DocInv, MethodsInv
    <3> QED
      BY <3>1, <3>3, <3>4, HitsAtCovers
  <2>4. \A i \in live : \A j \in 1..Len(input[i].methods) :
            classes[i].methods[j] = input[i].methods[j]
    BY <2>1 DEF DocInv, MethodsInv
  <2>5. pc = "done" => \A i \in live : classes[i].rate = RateOf(classes[i].lines)
    BY <2>1 DEF DocInv, RateInv
  <2> QED
    BY <2>2, <2>3, <2>4, <2>5 DEF ClassesAgree
<1> QED
  BY <1>1, DocInvariance, Invariance, PTL
-----------------------------------------------------------------------------
(* Sources.                                                                *)

\* The last n segments of the paths a and b are the same.
SameEnd(a, b, n) == \A i \in 0..(n - 1) : a[Len(a) - i] = b[Len(b) - i]

\* commonPathSuffixLen is the most segments on which two paths agree.
LEMMA CommonIs ==
    ASSUME NEW a \in Seq(Segments), NEW b \in Seq(Segments)
    PROVE  LET c == commonPathSuffixLen(a, b)
           IN /\ c \in 0..Len(a) /\ c <= Len(b) /\ SameEnd(a, b, c)
              /\ \A n \in Nat : n <= Len(a) /\ n <= Len(b) /\ SameEnd(a, b, n) => n <= c
<1> DEFINE least == Min({Len(a), Len(b)})
           N == {n \in 0..least : SameEnd(a, b, n)}
<1>1. Len(a) \in Nat /\ least \in Nat /\ least <= Len(a) /\ least <= Len(b) /\ least \in {Len(a), Len(b)}
  <2>1. {Len(a), Len(b)} \in SUBSET Nat /\ {Len(a), Len(b)} # {}
    OBVIOUS
  <2> QED
    BY <2>1, MinIsLeast
<1> HIDE DEF least
<1>2. N \in SUBSET (0..Len(a)) /\ 0 \in N
  BY <1>1 DEF SameEnd
<1>3. commonPathSuffixLen(a, b) = Max(N)
  BY DEF commonPathSuffixLen, SameEnd, least
<1>4. Max(N) \in N /\ \A n \in N : n <= Max(N)
  <2> HIDE DEF N
  <2> QED
    BY <1>1, <1>2, MaxIsGreatest
<1>5. ASSUME NEW n \in Nat, n <= Len(a), n <= Len(b), SameEnd(a, b, n) PROVE n \in N
  BY <1>1, <1>5
<1>6. Max(N) \in 0..Len(a) /\ Max(N) <= Len(b) /\ SameEnd(a, b, Max(N))
  <2>1. ASSUME NEW c \in N PROVE c \in 0..Len(a) /\ c <= Len(b) /\ SameEnd(a, b, c)
    BY <1>1
  <2> HIDE DEF N
  <2> QED
    BY <1>4, <2>1
<1> HIDE DEF N
<1> QED
  BY <1>3, <1>4, <1>5, <1>6

\* The end of a path, as a sequence of its own.
LEMMA SameEndIs ==
    ASSUME NEW a \in Seq(Segments), NEW b \in Seq(Segments),
           NEW n \in Nat, n >= 1, n <= Len(a), n <= Len(b)
    PROVE  SubSeq(a, Len(a) - n + 1, Len(a)) = SubSeq(b, Len(b) - n + 1, Len(b))
               <=> SameEnd(a, b, n)
<1> DEFINE Tails(s) == SubSeq(s, Len(s) - n + 1, Len(s))
<1>1. ASSUME NEW s \in Seq(Segments), n <= Len(s)
      PROVE  /\ Tails(s) \in Seq(Segments) /\ Len(Tails(s)) = n
             /\ \A i \in 1..n : Tails(s)[i] = s[Len(s) - n + i]
  <2> DEFINE m == Len(s) - n + 1
             l == Len(s)
  <2>1. m \in 1..(Len(s) + 1) /\ l \in (m - 1)..Len(s) /\ l - m + 1 = n
    BY <1>1
  <2>2. Tails(s) = SubSeq(s, m, l) /\ \A i \in 1..n : m + i - 1 = Len(s) - n + i
    OBVIOUS
  <2> HIDE DEF m, l
  <2> QED
    BY <2>1, <2>2, SubSeqProperties, SMTT(30)
<1>2. /\ Tails(a) \in Seq(Segments) /\ Len(Tails(a)) = n
      /\ \A i \in 1..n : Tails(a)[i] = a[Len(a) - n + i]
  BY <1>1
<1>3. /\ Tails(b) \in Seq(Segments) /\ Len(Tails(b)) = n
      /\ \A i \in 1..n : Tails(b)[i] = b[Len(b) - n + i]
  BY <1>1
<1> HIDE DEF Tails
<1>4. Tails(a) = Tails(b) <=> \A i \in 1..n : Tails(a)[i] = Tails(b)[i]
  BY <1>2, <1>3, SeqEqual
<1>5. ASSUME SameEnd(a, b, n), NEW i \in 1..n PROVE Tails(a)[i] = Tails(b)[i]
  <2>1. /\ n - i \in 0..(n - 1)
        /\ Len(a) - (n - i) = Len(a) - n + i /\ Len(b) - (n - i) = Len(b) - n + i
    OBVIOUS
  <2> QED
    BY <1>2, <1>3, <1>5, <2>1 DEF SameEnd
<1>6. ASSUME \A i \in 1..n : Tails(a)[i] = Tails(b)[i], NEW i \in 0..(n - 1)
      PROVE  a[Len(a) - i] = b[Len(b) - i]
  <2>1. /\ n - i \in 1..n
        /\ Len(a) - n + (n - i) = Len(a) - i /\ Len(b) - n + (n - i) = Len(b) - i
    OBVIOUS
  <2> QED
    BY <1>2, <1>3, <1>6, <2>1
<1> QED
  BY <1>4, <1>5, <1>6 DEF Tails, SameEnd

\* The source that a missing file gets.
LEMMA PickBestIs ==
    ASSUME lookup \in Lookups, NEW file \in Seq(Segments), file # <<>>, Candidates(file) # {}
    PROVE  \E best \in Candidates(file) :
               /\ pickBestFilenameMatch(file) = Cached[best]
               /\ \A o \in Candidates(file) :
                      commonPathSuffixLen(file, Cached[o]) <= commonPathSuffixLen(file, Cached[best])
<1> DEFINE Common(k) == commonPathSuffixLen(file, Cached[k])
           C == {Common(k) : k \in Candidates(file)}
           B == {k \in Candidates(file) : \A o \in Candidates(file) : Common(o) <= Common(k)}
<1>1. \A k \in Candidates(file) : k \in Nat /\ Cached[k] \in Seq(Segments)
  BY LookupsAssumption DEF LookupsAssumption, Candidates
<1>2. \A k \in Candidates(file) : Common(k) \in 0..Len(file)
  BY <1>1, CommonIs
<1>3. pickBestFilenameMatch(file) = Cached[Min(B)]
  BY DEF pickBestFilenameMatch
<1> HIDE DEF Common
<1>4. PICK k \in Candidates(file) : \A c \in C : c <= Common(k)
  <2>1. Len(file) \in Nat /\ C \in SUBSET (0..Len(file)) /\ C # {}
    BY <1>2
  <2>2. Max(C) \in C /\ \A c \in C : c <= Max(C)
    <3> HIDE DEF C
    <3> QED
      BY <2>1, MaxIsGreatest
  <2> QED
    BY <2>2
<1>5. B \in SUBSET Nat /\ B # {}
  BY <1>1, <1>4
<1>6. Min(B) \in B
  <2> HIDE DEF B
  <2> QED
    BY <1>5, MinIsLeast
<1>7. Min(B) \in Candidates(file) /\ \A o \in Candidates(file) : Common(o) <= Common(Min(B))
  <2>1. ASSUME NEW b \in B
        PROVE  b \in Candidates(file) /\ \A o \in Candidates(file) : Common(o) <= Common(b)
    OBVIOUS
  <2> HIDE DEF B
  <2> QED
    BY <1>6, <2>1
<1> HIDE DEF B
<1> QED
  BY <1>3, <1>7 DEF Common

\* A class has the file that MissingSourcesAreFound asks for.
SourceOK(i) ==
    LET file == input[i].file
        now == classes[i].file
    IN IF file = <<>> \/ file \in lookup.present \/ Fits(file) = {}
       THEN now = file
       ELSE /\ now \in Fits(file)
            /\ \A path \in Fits(file) : \A n \in 1..Len(file) :
                   AgreesOn(path, file, n) => AgreesOn(now, file, n)
            /\ \A j \in live : input[j].file = file => classes[j].file = now

\* MissingSourcesAreFound, for every document and every index of sources.
THEOREM MissingSourcesAreFoundHolds == Spec => []MissingSourcesAreFound
<1> DEFINE Inv == lookup \in Lookups /\ MissingSourcesAreFound
<1>1. Init => Inv
  BY DEF Init, MissingSourcesAreFound
<1>2. ASSUME IInv, Inv, FixFilenames PROVE MissingSourcesAreFound'
  <2>1. /\ UNCHANGED <<input, live, lookup>> /\ live \subseteq 1..Len(input)
        /\ \A i \in 1..Len(input) : IsClass(classes[i]) /\ classes[i].file = input[i].file
    BY <1>2 DEF FixFilenames, IInv, ClassesInv, LiveInv, Kept
  <2>2. ASSUME NEW i \in live PROVE input[i].file \in Seq(Segments)
    <3>1. ClassOK(input[i])
      BY <1>2, <2>1, InputOK DEF IInv, ClassesInv
    <3> QED
      BY <3>1 DEF ClassOK
  <2>3. \A k \in lookup.index : Cached[k] \in Seq(Segments) \ {<<>>}
    BY <1>2, LookupsAssumption DEF LookupsAssumption
  <2>4. ASSUME NEW k \in lookup.index, NEW file \in Seq(Segments), file # <<>>,
               NEW n \in 1..Len(file)
        PROVE  AgreesOn(Cached[k], file, n) <=>
                   n <= Len(Cached[k]) /\ SameEnd(file, Cached[k], n)
    <3>1. Cached[k] \in Seq(Segments)
      BY <2>3
    <3>2. Len(Cached[k]) \in Nat /\ Len(file) \in Nat /\ n \in Nat /\ n >= 1 /\ n <= Len(file)
      BY <2>4, <3>1
    <3>3. ASSUME n <= Len(Cached[k])
          PROVE  End(Cached[k], n) = End(file, n) <=> SameEnd(file, Cached[k], n)
      BY <2>4, <3>1, <3>2, <3>3, SameEndIs DEF End
    <3> QED
      BY <3>2, <3>3 DEF AgreesOn
  <2>5. ASSUME NEW file \in Seq(Segments), file # <<>>
        PROVE  Fits(file) = {Cached[k] : k \in Candidates(file)}
    <3>1. ASSUME NEW k \in lookup.index
          PROVE  AgreesOn(Cached[k], file, 1) <=> Last(Cached[k]) = Last(file)
      <4>1. Cached[k] \in Seq(Segments) /\ Len(Cached[k]) \in Nat \ {0} /\ Len(file) \in Nat \ {0}
        BY <2>3, <2>5, EmptySeq
      <4>2. AgreesOn(Cached[k], file, 1) <=> SameEnd(file, Cached[k], 1)
        <5>1. 1 \in 1..Len(file) /\ 1 <= Len(Cached[k])
          BY <4>1
        <5> QED
          BY <2>4, <2>5, <5>1
      <4>3. SameEnd(file, Cached[k], 1) <=> file[Len(file)] = Cached[k][Len(Cached[k])]
        BY <4>1 DEF SameEnd
      <4> QED
        BY <4>2, <4>3 DEF Last
    <3> QED
      BY <3>1 DEF Candidates, Fits
  <2>6. ASSUME NEW file \in Seq(Segments), file # <<>>, Candidates(file) # {}
        PROVE  /\ pickBestFilenameMatch(file) \in Fits(file)
               /\ \A path \in Fits(file) : \A n \in 1..Len(file) :
                      AgreesOn(path, file, n) => AgreesOn(pickBestFilenameMatch(file), file, n)
    <3>1. PICK best \in Candidates(file) :
              /\ pickBestFilenameMatch(file) = Cached[best]
              /\ \A o \in Candidates(file) :
                     commonPathSuffixLen(file, Cached[o]) <= commonPathSuffixLen(file, Cached[best])
      BY <1>2, <2>6, PickBestIs
    <3>2. \A k \in Candidates(file) : k \in lookup.index /\ Cached[k] \in Seq(Segments)
      BY <2>3 DEF Candidates
    <3>3. ASSUME NEW o \in Candidates(file), NEW n \in 1..Len(file), AgreesOn(Cached[o], file, n)
          PROVE  AgreesOn(Cached[best], file, n)
      <4> DEFINE c == commonPathSuffixLen(file, Cached[best])
                 d == commonPathSuffixLen(file, Cached[o])
      <4>1. n <= Len(Cached[o]) /\ SameEnd(file, Cached[o], n)
        BY <2>4, <2>6, <3>2, <3>3
      <4>2. n <= d /\ d \in Nat
        BY <2>6, <3>2, <4>1, CommonIs
      <4>3. c \in Nat /\ c <= Len(Cached[best]) /\ SameEnd(file, Cached[best], c)
        BY <2>6, <3>2, CommonIs
      <4>4. d <= c
        BY <3>1
      <4> HIDE DEF c, d
      <4>5. n <= c /\ Len(Cached[best]) \in Nat
        BY <3>2, <4>2, <4>3, <4>4
      <4>6. n <= Len(Cached[best]) /\ SameEnd(file, Cached[best], n)
        BY <4>3, <4>5 DEF SameEnd
      <4> QED
        BY <2>4, <2>6, <3>2, <4>6
    <3>4. Fits(file) = {Cached[k] : k \in Candidates(file)}
      BY <2>5, <2>6
    <3> QED
      BY <3>1, <3>3, <3>4
  <2>7. ASSUME NEW i \in live
        PROVE  classes'[i].file =
                   IF input[i].file = <<>> \/ input[i].file \in lookup.present
                      \/ Candidates(input[i].file) = {}
                   THEN input[i].file ELSE pickBestFilenameMatch(input[i].file)
    <3>1. IsClass(classes[i]) /\ classes[i].file = input[i].file /\ i \in DOMAIN classes
      BY <1>2, <2>1 DEF IInv, ClassesInv
    <3>2. input[i].file \in Missing <=>
              input[i].file # <<>> /\ input[i].file \notin lookup.present
      BY <3>1 DEF Missing
    <3>3. classes'[i] = IF input[i].file \in Missing /\ Candidates(input[i].file) # {}
                        THEN [classes[i] EXCEPT !.file = pickBestFilenameMatch(input[i].file)]
                        ELSE classes[i]
      BY <1>2, <3>1 DEF FixFilenames
    <3> QED
      BY <3>1, <3>2, <3>3 DEF IsClass
  <2>8. \A file : Fits(file)' = Fits(file)
    BY <2>1 DEF Fits
  <2>9. ASSUME NEW i \in live PROVE SourceOK(i)'
    <3>1. PICK file, now : file = input[i].file /\ now = classes'[i].file
      OBVIOUS
    <3>2. /\ input'[i].file = file /\ classes'[i].file = now /\ live' = live
          /\ \A j \in live : input'[j].file = input[j].file
          /\ lookup'.present = lookup.present /\ Fits(file)' = Fits(file)
      BY <2>1, <2>8, <3>1
    <3>3. ASSUME file = <<>> \/ file \in lookup.present PROVE now = file
      BY <2>7, <3>1, <3>3
    <3>4. ASSUME ~(file = <<>> \/ file \in lookup.present)
          PROVE  /\ Fits(file) = {} => now = file
                 /\ Fits(file) # {} =>
                        /\ now \in Fits(file)
                        /\ \A path \in Fits(file) : \A n \in 1..Len(file) :
                               AgreesOn(path, file, n) => AgreesOn(now, file, n)
      <4>1. file \in Seq(Segments) /\ file # <<>>
        BY <2>2, <3>1, <3>4
      <4>2. Fits(file) = {} <=> Candidates(file) = {}
        <5>1. Fits(file) = {Cached[k] : k \in Candidates(file)}
          BY <2>5, <4>1
        <5> QED
          BY <5>1
      <4>3. now = IF Candidates(file) = {} THEN file ELSE pickBestFilenameMatch(file)
        BY <2>7, <3>1, <3>4
      <4>4. ASSUME Candidates(file) # {}
            PROVE  /\ now \in Fits(file)
                   /\ \A path \in Fits(file) : \A n \in 1..Len(file) :
                          AgreesOn(path, file, n) => AgreesOn(now, file, n)
        <5>1. now = pickBestFilenameMatch(file)
          BY <4>3, <4>4
        <5>2. /\ pickBestFilenameMatch(file) \in Fits(file)
              /\ \A path \in Fits(file) : \A n \in 1..Len(file) :
                     AgreesOn(path, file, n) => AgreesOn(pickBestFilenameMatch(file), file, n)
          BY <2>6, <4>1, <4>4
        <5> QED
          BY <5>1, <5>2
      <4> QED
        BY <4>2, <4>3, <4>4
    <3>5. ASSUME NEW j \in live, input[j].file = file PROVE classes'[j].file = now
      BY <2>7, <3>1, <3>5
    <3> QED
      BY <3>2, <3>3, <3>4, <3>5 DEF SourceOK
  <2>10. (\A i \in live : SourceOK(i))'
    BY <2>1, <2>9
  <2> QED
    BY <2>10, Zenon DEF MissingSourcesAreFound, SourceOK
<1>3. IInv /\ Inv /\ Next => Inv'
  <2> SUFFICES ASSUME IInv, Inv, Next PROVE Inv'
    OBVIOUS
  <2>1. lookup' = lookup /\ (FixFilenames \/ pc' # "done")
    <3>1. CASE Exclude \/ Index
      BY <3>1 DEF Exclude, Index
    <3>2. CASE KeepClass \/ MergeClass
      BY <3>2 DEF KeepClass, MergeClass, Advance, AtClass
    <3>3. CASE Recompute \/ FixFilenames
      BY <3>3 DEF Recompute, FixFilenames
    <3> QED
      BY <3>1, <3>2, <3>3 DEF Next
  <2>2. MissingSourcesAreFound'
    BY <1>2, <2>1 DEF MissingSourcesAreFound
  <2> QED
    BY <2>1, <2>2
<1>4. Inv /\ UNCHANGED vars => Inv'
  BY DEF vars, MissingSourcesAreFound, Fits
<1> QED
  BY <1>1, <1>3, <1>4, Invariance, PTL DEF Spec
=============================================================================
