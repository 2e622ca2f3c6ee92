--------------------------- MODULE ApiGeneratorProofs ---------------------------
(***************************************************************************)
(* What the generator promises: the binding follows its sources and        *)
(* nothing else, an error leaves it alone, and a repetition finds it up to *)
(* date.  It holds for any documents, Go files and directories, and for    *)
(* any number of runs.                                                     *)
(***************************************************************************)
EXTENDS ApiGenerator, Integers, FiniteSetTheorems, SequenceTheorems,
        WellFoundedInduction, TLAPS

--------------------------------------------------------------------------------
(* Sorting.                                                                 *)

\* The names of S, and those of them in their order.
Names(S) == [x \in S |-> x]
InOrder(S) == [n \in 1 .. Cardinality(S) |-> Nth(Names(S), n)]

OneToOne(f) == \A i, j \in DOMAIN f : f[i] = f[j] => i = j

\* A set is counted by the elements of another that stand for its elements.
LEMMA SameSize ==
  ASSUME NEW A, IsFiniteSet(A), NEW B, NEW f \in [A -> B],
         \A i, j \in A : f[i] = f[j] => i = j, \A b \in B : \E a \in A : f[a] = b
  PROVE  IsFiniteSet(B) /\ Cardinality(B) = Cardinality(A)
<1>1. f \in Bijection(A, B)
  BY DEF Bijection, Injection, Surjection, IsInjective
<1> QED
  BY <1>1, FS_Bijection DEF ExistsBijection

\* The place of a name depends on the names only.
LEMMA NthOfRange ==
  ASSUME NEW A, IsFiniteSet(A), NEW f \in [A -> Nat], OneToOne(f)
  PROVE  /\ IsFiniteSet(Range(f)) /\ Range(f) \subseteq Nat
         /\ Cardinality(Range(f)) = Cardinality(A)
         /\ \A n : Nth(f, n) = Nth(Names(Range(f)), n)
<1> DEFINE S == Range(f)
<1>1. /\ S = {f[i] : i \in A} /\ S \subseteq Nat
      /\ f \in [A -> S] /\ \A y \in S : \E i \in A : f[i] = y
  BY DEF Range
<1>2. \A i, j \in A : f[i] = f[j] => i = j
  BY DEF OneToOne
<1>3. IsFiniteSet(S) /\ Cardinality(S) = Cardinality(A)
  BY <1>1, <1>2, SameSize
<1>4. Range(Names(S)) = S
  BY DEF Range, Names
<1>5. ASSUME NEW x \in S
      PROVE  /\ Cardinality(Lower(f, x)) = Cardinality(Lower(Names(S), x))
             /\ Cardinality(NotHigher(f, x)) = Cardinality(NotHigher(Names(S), x))
  <2>1. Lower(f, x) \in SUBSET A /\ NotHigher(f, x) \in SUBSET A
    BY DEF Lower, NotHigher
  <2>2. IsFiniteSet(Lower(f, x)) /\ IsFiniteSet(NotHigher(f, x))
    BY <2>1, FS_Subset
  <2>3. /\ Lower(Names(S), x) = {y \in S : y < x}
        /\ NotHigher(Names(S), x) = {y \in S : y <= x}
    BY DEF Lower, NotHigher, Names
  <2>4. Cardinality(Lower(f, x)) = Cardinality({y \in S : y < x})
    <3> DEFINE T == {y \in S : y < x}
               g == [i \in Lower(f, x) |-> f[i]]
    <3>1. g \in [Lower(f, x) -> T]
      BY <1>1 DEF Lower
    <3>2. \A i, j \in Lower(f, x) : g[i] = g[j] => i = j
      BY <1>2, <2>1
    <3>3. \A y \in T : \E i \in Lower(f, x) : g[i] = y
      BY <1>1 DEF Lower
    <3> HIDE DEF T, g
    <3>4. Cardinality(T) = Cardinality(Lower(f, x))
      BY <2>2, <3>1, <3>2, <3>3, SameSize
    <3> QED
      BY <3>4 DEF T
  <2>5. Cardinality(NotHigher(f, x)) = Cardinality({y \in S : y <= x})
    <3> DEFINE T == {y \in S : y <= x}
               g == [i \in NotHigher(f, x) |-> f[i]]
    <3>1. g \in [NotHigher(f, x) -> T]
      BY <1>1 DEF NotHigher
    <3>2. \A i, j \in NotHigher(f, x) : g[i] = g[j] => i = j
      BY <1>2, <2>1
    <3>3. \A y \in T : \E i \in NotHigher(f, x) : g[i] = y
      BY <1>1 DEF NotHigher
    <3> HIDE DEF T, g
    <3>4. Cardinality(T) = Cardinality(NotHigher(f, x))
      BY <2>2, <3>1, <3>2, <3>3, SameSize
    <3> QED
      BY <3>4 DEF T
  <2> QED
    BY <2>3, <2>4, <2>5
<1>6. ASSUME NEW n PROVE Nth(f, n) = Nth(Names(S), n)
  BY <1>4, <1>5 DEF Nth
<1> QED
  BY <1>1, <1>3, <1>6

LEMMA Interval == ASSUME NEW n \in Nat PROVE IsFiniteSet(1 .. n) /\ Cardinality(1 .. n) = n
BY FS_Interval

\* A list without repetitions is sorted into the order of its names.
LEMMA AscendingInOrder ==
  ASSUME NEW s \in Seq(Nat), OneToOne(s)
  PROVE  /\ Ascending(s) = InOrder(Range(s))
         /\ IsFiniteSet(Range(s)) /\ Range(s) \subseteq Nat
<1>1. Len(s) \in Nat /\ DOMAIN s = 1 .. Len(s) /\ s \in [1 .. Len(s) -> Nat]
  OBVIOUS
<1>2. IsFiniteSet(1 .. Len(s)) /\ Cardinality(1 .. Len(s)) = Len(s)
  BY <1>1, Interval
<1>3. /\ IsFiniteSet(Range(s)) /\ Range(s) \subseteq Nat /\ Cardinality(Range(s)) = Len(s)
      /\ \A n : Nth(s, n) = Nth(Names(Range(s)), n)
  BY <1>1, <1>2, NthOfRange
<1> QED
  BY <1>1, <1>3 DEF Ascending, InOrder

\* In order, each name has its place: as many are not higher.
LEMMA InOrderPlaces ==
  ASSUME NEW S, IsFiniteSet(S), S \subseteq Nat
  PROVE  /\ Cardinality(S) \in Nat
         /\ \A n \in 1 .. Cardinality(S) : InOrder(S)[n] \in S
         /\ \A x \in S : \E n \in 1 .. Cardinality(S) : InOrder(S)[n] = x
         /\ \A m, n \in 1 .. Cardinality(S) : m < n => InOrder(S)[m] < InOrder(S)[n]
<1> DEFINE N == Cardinality(S)
           Under(x) == {y \in S : y < x}
           Upto(x) == {y \in S : y <= x}
           rank == [x \in S |-> Cardinality(Upto(x))]
<1>1. N \in Nat
  BY FS_CardinalityType
<1> HIDE DEF Under, Upto
<1>2. ASSUME NEW x \in S
      PROVE  /\ x \in Nat /\ IsFiniteSet(Under(x)) /\ IsFiniteSet(Upto(x))
             /\ Cardinality(Under(x)) \in Nat
             /\ Cardinality(Upto(x)) = Cardinality(Under(x)) + 1
             /\ Cardinality(Upto(x)) <= N
  <2>1. Under(x) \in SUBSET S /\ Upto(x) \in SUBSET S
    BY DEF Under, Upto
  <2>2. IsFiniteSet(Under(x)) /\ IsFiniteSet(Upto(x)) /\ Cardinality(Upto(x)) <= N
    BY <2>1, FS_Subset
  <2>3. Upto(x) = Under(x) \cup {x} /\ x \notin Under(x)
    <3>1. x \in Nat /\ ~ (x < x) /\ \A y \in S : y \in Nat /\ (y <= x <=> y < x \/ y = x)
      OBVIOUS
    <3> QED
      BY <3>1, Zenon DEF Under, Upto
  <2>4. Cardinality(Under(x) \cup {x}) = Cardinality(Under(x)) + 1
    BY <2>2, <2>3, FS_AddElement
  <2> QED
    BY <2>2, <2>3, <2>4, FS_CardinalityType
<1>3. ASSUME NEW x \in S, NEW y \in S, x < y PROVE Cardinality(Upto(x)) < Cardinality(Upto(y))
  <2>1. \A z \in S : z <= x => z < y
    BY <1>3
  <2>2. Upto(x) \in SUBSET Under(y)
    BY <2>1 DEF Under, Upto
  <2>3. Cardinality(Upto(x)) <= Cardinality(Under(y))
    BY <1>2, <2>2, FS_Subset
  <2> QED
    BY <1>2, <2>3
<1>4. rank \in [S -> 1 .. N]
  BY <1>1, <1>2
<1>5. \A x, y \in S : rank[x] = rank[y] => x = y
  <2> SUFFICES ASSUME NEW x \in S, NEW y \in S, x # y PROVE rank[x] # rank[y]
    OBVIOUS
  <2>1. x < y \/ y < x
    OBVIOUS
  <2> QED
    BY <1>2, <1>3, <2>1
<1>6. \A n \in 1 .. N : \E x \in S : rank[x] = n
  <2>1. IsFiniteSet(1 .. N) /\ Cardinality(1 .. N) = N
    BY <1>1, FS_Interval
  <2>2. rank \in Injection(S, 1 .. N)
    BY <1>4, <1>5 DEF Injection, IsInjective
  <2>3. rank \in Surjection(S, 1 .. N)
    BY <2>1, <2>2, FS_Injection
  <2> QED
    BY <2>3 DEF Surjection
<1>7. ASSUME NEW n \in 1 .. N PROVE InOrder(S)[n] \in S /\ rank[InOrder(S)[n]] = n
  <2> DEFINE At(x) == Cardinality(Under(x)) < n /\ n <= Cardinality(Upto(x))
  <2>1. PICK x \in S : rank[x] = n
    BY <1>6
  <2>2. At(x)
    BY <1>2, <2>1
  <2>3. InOrder(S)[n] = CHOOSE y \in S : At(y)
    <3>1. Range(Names(S)) = S
      BY DEF Range, Names
    <3>2. \A y \in S : Lower(Names(S), y) = Under(y) /\ NotHigher(Names(S), y) = Upto(y)
      BY DEF Lower, NotHigher, Names, Under, Upto
    <3>3. InOrder(S)[n] = Nth(Names(S), n)
      BY DEF InOrder
    <3> QED
      BY <3>1, <3>2, <3>3 DEF Nth
  <2>4. InOrder(S)[n] \in S /\ At(InOrder(S)[n])
    BY <2>2, <2>3
  <2>5. ASSUME NEW y \in S, At(y) PROVE rank[y] = n
    <3>1. /\ Cardinality(Under(y)) \in Nat /\ n \in Nat
          /\ Cardinality(Upto(y)) = Cardinality(Under(y)) + 1
      BY <1>1, <1>2
    <3> QED
      BY <2>5, <3>1
  <2> HIDE DEF At, rank
  <2> QED
    BY <2>4, <2>5
<1> HIDE DEF rank, N
<1>8. ASSUME NEW x \in S PROVE \E n \in 1 .. N : InOrder(S)[n] = x
  <2>1. rank[x] \in 1 .. N
    BY <1>4
  <2>2. InOrder(S)[rank[x]] = x
    BY <1>5, <1>7, <2>1
  <2> QED
    BY <2>1, <2>2
<1>9. ASSUME NEW m \in 1 .. N, NEW n \in 1 .. N, m < n PROVE InOrder(S)[m] < InOrder(S)[n]
  <2> DEFINE x == InOrder(S)[m]
             y == InOrder(S)[n]
  <2>1. x \in S /\ y \in S /\ rank[x] = m /\ rank[y] = n
    BY <1>7
  <2>2. y < x => rank[y] < rank[x]
    BY <1>3, <2>1 DEF rank
  <2>3. x # y
    BY <1>9, <2>1
  <2> HIDE DEF x, y
  <2>4. x < y
    BY <1>9, <2>1, <2>2, <2>3, <1>1 DEF N
  <2> QED
    BY <2>4 DEF x, y
<1> QED
  BY <1>1, <1>7, <1>8, <1>9 DEF N

\* Records are sorted by their names.
LEMMA NameOrder ==
  ASSUME NEW M, IsFiniteSet(M), \A m \in M : m.name \in Nat,
         \A m, k \in M : m.name = k.name => m = k
  PROVE  /\ Cardinality(M) \in Nat /\ DOMAIN InNameOrder(M) = 1 .. Cardinality(M)
         /\ \A n \in 1 .. Cardinality(M) : InNameOrder(M)[n] \in M
         /\ \A m \in M : \E n \in 1 .. Cardinality(M) : InNameOrder(M)[n] = m
         /\ \A i, j \in 1 .. Cardinality(M) :
              i # j => InNameOrder(M)[i].name # InNameOrder(M)[j].name
<1> DEFINE f == [k \in M |-> k.name]
           N == Cardinality(M)
           R == Range(f)
<1>1. f \in [M -> Nat] /\ OneToOne(f)
  BY DEF OneToOne
<1>2. /\ IsFiniteSet(R) /\ R \subseteq Nat /\ Cardinality(R) = N
      /\ \A n : Nth(f, n) = Nth(Names(R), n)
  <2> HIDE DEF f
  <2> QED
    BY <1>1, NthOfRange
<1>3. R = {m.name : m \in M}
  BY DEF Range
<1>4. /\ N \in Nat
      /\ \A n \in 1 .. N : InOrder(R)[n] \in R
      /\ \A x \in R : \E n \in 1 .. N : InOrder(R)[n] = x
      /\ \A m, n \in 1 .. N : m < n => InOrder(R)[m] < InOrder(R)[n]
  <2> HIDE DEF R
  <2> QED
    BY <1>2, InOrderPlaces
<1>5. \A n \in 1 .. N : Nth(f, n) = InOrder(R)[n]
  BY <1>2 DEF InOrder
<1>6. ASSUME NEW n \in 1 .. N
      PROVE  InNameOrder(M)[n] \in M /\ InNameOrder(M)[n].name = InOrder(R)[n]
  <2>1. \E m \in M : m.name = InOrder(R)[n]
    BY <1>3, <1>4
  <2>2. InNameOrder(M)[n] = CHOOSE m \in M : m.name = Nth(f, n)
    BY DEF InNameOrder
  <2> HIDE DEF f, R
  <2> QED
    BY <1>5, <2>1, <2>2
<1>7. ASSUME NEW m \in M PROVE \E n \in 1 .. N : InNameOrder(M)[n] = m
  <2>1. PICK n \in 1 .. N : InOrder(R)[n] = m.name
    BY <1>3, <1>4
  <2> QED
    BY <1>6, <2>1
<1>8. ASSUME NEW i \in 1 .. N, NEW j \in 1 .. N, i # j
      PROVE  InNameOrder(M)[i].name # InNameOrder(M)[j].name
  <2> HIDE DEF N, R, f
  <2>1. InOrder(R)[i] \in Nat /\ InOrder(R)[j] \in Nat
    BY <1>2, <1>4
  <2>2. i \in Nat /\ j \in Nat
    BY <1>4
  <2>3. i < j \/ j < i
    BY <1>8, <2>2
  <2>4. InOrder(R)[i] < InOrder(R)[j] \/ InOrder(R)[j] < InOrder(R)[i]
    BY <1>4, <2>3
  <2>5. InOrder(R)[i] # InOrder(R)[j]
    BY <2>1, <2>4
  <2> QED
    BY <1>6, <2>5
<1> QED
  BY <1>4, <1>6, <1>7, <1>8 DEF InNameOrder

--------------------------------------------------------------------------------
(* The invariant.                                                           *)

\* What the first n documents of D hold: each function with the library whose
\* document has it.
LibraryCount == Len(Libraries)
FunctionRecord == [name : Nat, library : Range(Libraries)]
FunctionsIn(D, n) ==
  {f \in FunctionRecord :
     \E j \in 1 .. n : f.library = Libraries[j] /\ f.name \in Range(D[Libraries[j]].functions)}
NamesIn(D, n) == UNION {Range(D[Libraries[j]].functions) : j \in 1 .. n}
EnumsIn(D, n) == UNION {Range(D[Libraries[j]].enums) : j \in 1 .. n}
MacrosIn(D, n) == UNION {Range(D[Libraries[j]].macros) : j \in 1 .. n}

\* The first n documents are there, and no name is in them twice.
Readable(D, n) ==
  /\ \A j \in 1 .. n :
       LET d == D[Libraries[j]] IN
       /\ d \notin {None, Broken} /\ d.functions # << >>
       /\ OneToOne(d.functions) /\ OneToOne(d.enums)
  /\ \A i, j \in 1 .. n :
       i # j => /\ Range(D[Libraries[i]].functions) \cap Range(D[Libraries[j]].functions) = {}
                /\ Range(D[Libraries[i]].enums) \cap Range(D[Libraries[j]].enums) = {}

\* The combined document k is made of the first n documents.
Combines(k, D, n) ==
  /\ k \in [functions : Seq(FunctionRecord), enums : Seq(Nat), macros : Seq(apiMacro)]
  /\ Range(k.functions) = FunctionsIn(D, n) /\ OneToOne(k.functions)
  /\ Range(k.enums) = EnumsIn(D, n) /\ OneToOne(k.enums)
  /\ Range(k.macros) = MacrosIn(D, n)

\* The functions W of the documents D can be rendered, and what is made of them.
ValueMacros(D) == {m \in MacrosIn(D, LibraryCount) : m.name \notin Private}
CanRender(D, W) ==
  /\ W \subseteq NamesIn(D, LibraryCount) /\ W \cap Unsupported = {}
  /\ \A m \in ValueMacros(D) : m.value # Broken
  /\ ~ Conflicting(ValueMacros(D))
  /\ EnumsIn(D, LibraryCount) \cap Invalid = {}
  /\ \A t \in AliasTypes : OfType(InOrder(EnumsIn(D, LibraryCount)), t) # << >>
FunctionOf(D, n) == CHOOSE f \in FunctionsIn(D, LibraryCount) : f.name = n
Binding(D, W) ==
  [hash |-> D,
   functions |-> [i \in 1 .. Cardinality(W) |-> FunctionOf(D, InOrder(W)[i])],
   enums |-> InOrder(EnumsIn(D, LibraryCount)),
   macros |-> InNameOrder(ValueMacros(D)),
   aliases |-> [t \in AliasTypes |-> OfType(InOrder(EnumsIn(D, LibraryCount)), t)]]

\* The documents a config is resolved to, and the functions it selects.
DocsOf(c) == docs[resolveAPIPath(c.requested)]
Selects(c) ==
  /\ c.mode = "all" \/ (c.mode = "used" /\ discoverNativeSymbols \notin {Broken, {}})
  /\ IsFiniteSet(Wanted(c, DocsOf(c))) /\ Wanted(c, DocsOf(c)) \subseteq Nat

TypeInv ==
  /\ docs \in [Directory -> DocumentSets \cup {None}]
  /\ env \in Directory \cup {None} /\ package \in Packages /\ config \in Configs
  /\ pc \in {"idle", "resolve", "load", "render"}

\* A run has read the first documents of the directory it resolved; when it
\* renders, it has read all of them and its symbols are in order.
RunInv ==
  /\ pc = "resolve" => library = 1 /\ combined = Empty
  /\ pc \in {"load", "render"} =>
       /\ path = resolveAPIPath(config.requested) /\ path # None
       /\ library \in 1 .. LibraryCount + 1
       /\ Readable(docs[path], library - 1) /\ Combines(combined, docs[path], library - 1)
  /\ pc = "render" =>
       library = LibraryCount + 1 /\ Selects(config) /\ symbols = InOrder(Wanted(config, DocsOf(config)))

\* As long as nothing is edited, a run with the options of the last success
\* would succeed again, and with the same binding.
SettledInv ==
  settled # None =>
    /\ settled \in Configs
    /\ resolveAPIPath(settled.requested) # None
    /\ Readable(DocsOf(settled), LibraryCount) /\ Selects(settled)
    /\ CanRender(DocsOf(settled), Wanted(settled, DocsOf(settled)))
    /\ output = Binding(DocsOf(settled), Wanted(settled, DocsOf(settled)))

GeneratorInv == TypeInv /\ RunInv /\ SettledInv

--------------------------------------------------------------------------------
(* Reading the documents.                                                   *)

\* A list of sources: their libraries are members of the list.
LEMMA LibraryFacts ==
  /\ LibraryCount \in Nat /\ LibraryCount >= 1
  /\ DOMAIN Libraries = 1 .. LibraryCount
  /\ Range(Libraries) = {Libraries[j] : j \in 1 .. LibraryCount}
<1>1. Libraries \in Seq(Range(Libraries)) /\ Libraries # << >>
  BY GeneratorAssumption
<1> QED
  BY <1>1 DEF LibraryCount, Range

\* The range of two lists put together, and when nothing in them is twice.
LEMMA RangeOfBoth ==
  ASSUME NEW S, NEW s \in Seq(S), NEW t \in Seq(S)
  PROVE  /\ s \o t \in Seq(S) /\ Range(s \o t) = Range(s) \cup Range(t)
         /\ OneToOne(s) /\ OneToOne(t) /\ Range(s) \cap Range(t) = {} => OneToOne(s \o t)
<1> DEFINE u == s \o t
<1>1. /\ u \in Seq(S) /\ Len(s) \in Nat /\ Len(t) \in Nat
      /\ DOMAIN s = 1 .. Len(s) /\ DOMAIN t = 1 .. Len(t)
      /\ DOMAIN u = 1 .. Len(s) + Len(t)
      /\ \A i \in 1 .. Len(s) + Len(t) : u[i] = IF i <= Len(s) THEN s[i] ELSE t[i - Len(s)]
  BY ConcatProperties
<1> HIDE DEF u
<1> DEFINE m == Len(s)
           n == Len(t)
<1>2. m \in Nat /\ n \in Nat
  BY <1>1
<1>3. /\ DOMAIN s = 1 .. m /\ DOMAIN t = 1 .. n /\ DOMAIN u = 1 .. m + n
      /\ \A i \in 1 .. m + n : u[i] = IF i <= m THEN s[i] ELSE t[i - m]
  BY <1>1
<1> HIDE DEF m, n
<1>4. ASSUME NEW i \in 1 .. m + n
      PROVE  \/ i \in 1 .. m /\ u[i] = s[i]
             \/ i - m \in 1 .. n /\ u[i] = t[i - m]
  BY <1>2, <1>3
<1>5. /\ \A i \in 1 .. m : i \in 1 .. m + n /\ u[i] = s[i]
      /\ \A i \in 1 .. n : i + m \in 1 .. m + n /\ u[i + m] = t[i]
  <2>1. ASSUME NEW i \in 1 .. m PROVE i \in 1 .. m + n /\ u[i] = s[i]
    BY <1>2, <1>3
  <2>2. ASSUME NEW i \in 1 .. n PROVE i + m \in 1 .. m + n /\ u[i + m] = t[i]
    <3>1. i + m \in 1 .. m + n /\ ~ (i + m <= m) /\ (i + m) - m = i
      BY <1>2
    <3> QED
      BY <1>3, <3>1
  <2> QED
    BY <2>1, <2>2
<1>6. Range(u) = Range(s) \cup Range(t)
  BY <1>3, <1>4, <1>5 DEF Range
<1>7. ASSUME OneToOne(s), OneToOne(t), Range(s) \cap Range(t) = {},
             NEW i \in 1 .. m + n, NEW j \in 1 .. m + n, u[i] = u[j]
      PROVE  i = j
  <2>1. CASE i \in 1 .. m /\ u[i] = s[i] /\ j \in 1 .. m /\ u[j] = s[j]
    BY <1>3, <1>7, <2>1 DEF OneToOne
  <2>2. CASE i - m \in 1 .. n /\ u[i] = t[i - m] /\ j - m \in 1 .. n /\ u[j] = t[j - m]
    <3>1. i - m = j - m
      BY <1>3, <1>7, <2>2 DEF OneToOne
    <3> QED
      BY <1>2, <3>1
  <2>3. CASE i \in 1 .. m /\ u[i] = s[i] /\ j - m \in 1 .. n /\ u[j] = t[j - m]
    BY <1>3, <1>7, <2>3 DEF Range
  <2>4. CASE i - m \in 1 .. n /\ u[i] = t[i - m] /\ j \in 1 .. m /\ u[j] = s[j]
    BY <1>3, <1>7, <2>4 DEF Range
  <2> QED
    BY <1>4, <2>1, <2>2, <2>3, <2>4
<1> QED
  BY <1>1, <1>3, <1>6, <1>7 DEF OneToOne, u

\* What the first n + 1 documents hold is what the first n do, and one more.
LEMMA OneMore ==
  ASSUME NEW D, NEW n \in Nat
  PROVE  LET d == D[Libraries[n + 1]] IN
         /\ NamesIn(D, n + 1) = NamesIn(D, n) \cup Range(d.functions)
         /\ EnumsIn(D, n + 1) = EnumsIn(D, n) \cup Range(d.enums)
         /\ MacrosIn(D, n + 1) = MacrosIn(D, n) \cup Range(d.macros)
         /\ FunctionsIn(D, n + 1) =
              FunctionsIn(D, n)
                \cup {f \in FunctionRecord : f.library = Libraries[n + 1] /\ f.name \in Range(d.functions)}
<1>1. 1 .. n + 1 = (1 .. n) \cup {n + 1}
  OBVIOUS
<1>2. NamesIn(D, n + 1) = NamesIn(D, n) \cup Range(D[Libraries[n + 1]].functions)
  BY <1>1, Zenon DEF NamesIn
<1>3. EnumsIn(D, n + 1) = EnumsIn(D, n) \cup Range(D[Libraries[n + 1]].enums)
  BY <1>1, Zenon DEF EnumsIn
<1>4. MacrosIn(D, n + 1) = MacrosIn(D, n) \cup Range(D[Libraries[n + 1]].macros)
  BY <1>1, Zenon DEF MacrosIn
<1>5. FunctionsIn(D, n + 1) =
        FunctionsIn(D, n)
          \cup {f \in FunctionRecord :
                  f.library = Libraries[n + 1] /\ f.name \in Range(D[Libraries[n + 1]].functions)}
  BY <1>1, Zenon DEF FunctionsIn
<1> QED
  BY <1>2, <1>3, <1>4, <1>5

\* The functions of the combined document are those of the documents.
LEMMA FunctionNames ==
  ASSUME NEW D, NEW n \in Nat, n <= LibraryCount,
         \A j \in 1 .. n : Range(D[Libraries[j]].functions) \subseteq Nat
  PROVE  {f.name : f \in FunctionsIn(D, n)} = NamesIn(D, n)
<1>1. \A j \in 1 .. n : Libraries[j] \in Range(Libraries)
  BY LibraryFacts
<1>2. ASSUME NEW j \in 1 .. n, NEW x \in Range(D[Libraries[j]].functions)
      PROVE  \E f \in FunctionsIn(D, n) : f.name = x
  <2> DEFINE f == [name |-> x, library |-> Libraries[j]]
  <2>1. f \in FunctionRecord
    BY <1>1 DEF FunctionRecord
  <2>2. f \in FunctionsIn(D, n) /\ f.name = x
    BY <2>1 DEF FunctionsIn
  <2> QED
    BY <2>2
<1>3. \A x \in NamesIn(D, n) : \E f \in FunctionsIn(D, n) : f.name = x
  BY <1>2 DEF NamesIn
<1>4. \A f \in FunctionsIn(D, n) : f.name \in NamesIn(D, n)
  BY DEF FunctionsIn, NamesIn
<1> QED
  BY <1>3, <1>4

\* The functions of a document, with their library.
Tagged(names, l) == [i \in DOMAIN names |-> [name |-> names[i], library |-> l]]

LEMMA TaggedFunctions ==
  ASSUME NEW names \in Seq(Nat), NEW l \in Range(Libraries)
  PROVE  /\ Tagged(names, l) \in Seq(FunctionRecord)
         /\ Range(Tagged(names, l)) =
              {f \in FunctionRecord : f.library = l /\ f.name \in Range(names)}
         /\ OneToOne(names) => OneToOne(Tagged(names, l))
<1> DEFINE t == Tagged(names, l)
           n == Len(names)
<1>1. /\ n \in Nat /\ DOMAIN names = 1 .. n /\ DOMAIN t = 1 .. n
      /\ \A i \in 1 .. n : names[i] \in Nat /\ t[i] = [name |-> names[i], library |-> l]
  BY DEF Tagged
<1>2. \A i \in 1 .. n : t[i] \in FunctionRecord /\ t[i].name = names[i] /\ t[i].library = l
  BY <1>1 DEF FunctionRecord
<1>3. t \in [1 .. n -> FunctionRecord]
  <2>1. t = [i \in 1 .. n |-> [name |-> names[i], library |-> l]]
    BY <1>1 DEF Tagged
  <2> QED
    BY <1>2, <2>1
<1> HIDE DEF t, n
<1>4. t \in Seq(FunctionRecord)
  BY <1>1, <1>3, SeqDef
<1>5. \A f \in FunctionRecord : f = [name |-> f.name, library |-> f.library]
  BY DEF FunctionRecord
<1>6. Range(t) = {f \in FunctionRecord : f.library = l /\ f.name \in Range(names)}
  <2>1. \A i \in 1 .. n : t[i] \in {f \in FunctionRecord : f.library = l /\ f.name \in Range(names)}
    BY <1>1, <1>2 DEF Range
  <2>2. ASSUME NEW f \in FunctionRecord, f.library = l, f.name \in Range(names)
        PROVE  f \in Range(t)
    <3>1. PICK i \in 1 .. n : names[i] = f.name
      BY <1>1, <2>2 DEF Range
    <3>2. t[i] = f
      BY <1>1, <1>5, <2>2, <3>1
    <3> QED
      BY <1>1, <3>2 DEF Range
  <2> QED
    BY <1>1, <2>1, <2>2 DEF Range
<1>7. OneToOne(names) => OneToOne(t)
  BY <1>1, <1>2 DEF OneToOne
<1> QED
  BY <1>4, <1>6, <1>7 DEF t

\* What a readable document is.
LEMMA DocumentFacts ==
  ASSUME NEW D \in DocumentSets, NEW j \in 1 .. LibraryCount,
         D[Libraries[j]] \notin {None, Broken}
  PROVE  LET d == D[Libraries[j]] IN
         /\ Libraries[j] \in Range(Libraries)
         /\ d.functions \in Seq(Nat) /\ d.enums \in Seq(Nat) /\ d.macros \in Seq(apiMacro)
         /\ Range(d.functions) \subseteq Nat /\ Range(d.enums) \subseteq Nat
         /\ Range(d.macros) \subseteq apiMacro
<1> DEFINE d == D[Libraries[j]]
<1>1. Libraries[j] \in Range(Libraries)
  BY LibraryFacts
<1>2. D \in [Range(Libraries) -> apiDocument \cup {None, Broken}]
  BY GeneratorAssumption
<1>3. d \in apiDocument
  BY <1>1, <1>2
<1> HIDE DEF d
<1>4. d.functions \in Seq(Nat) /\ d.enums \in Seq(Nat) /\ d.macros \in Seq(apiMacro)
  BY <1>3 DEF apiDocument
<1>5. \A S : \A s \in Seq(S) : Range(s) \subseteq S
  BY DEF Range
<1> QED
  BY <1>1, <1>4, <1>5 DEF d

\* With no name in two documents, a name has one library.
LEMMA OneLibrary ==
  ASSUME NEW D, NEW n \in Nat, Readable(D, n),
         NEW f \in FunctionsIn(D, n), NEW g \in FunctionsIn(D, n), f.name = g.name
  PROVE  f = g
<1>1. PICK i \in 1 .. n : f.library = Libraries[i] /\ f.name \in Range(D[Libraries[i]].functions)
  BY DEF FunctionsIn
<1>2. PICK j \in 1 .. n : g.library = Libraries[j] /\ g.name \in Range(D[Libraries[j]].functions)
  BY DEF FunctionsIn
<1>3. i = j
  BY <1>1, <1>2 DEF Readable
<1>4. f \in FunctionRecord /\ g \in FunctionRecord
  BY DEF FunctionsIn
<1> QED
  BY <1>1, <1>2, <1>3, <1>4 DEF FunctionRecord

\* A document is accepted when it can be read beside those before it, and only
\* then.
LEMMA AcceptableIsReadable ==
  ASSUME NEW D \in DocumentSets, NEW n \in Nat, n < LibraryCount,
         Readable(D, n), Combines(combined, D, n)
  PROVE  Acceptable(D[Libraries[n + 1]]) <=> Readable(D, n + 1)
<1> DEFINE d == D[Libraries[n + 1]]
           F(j) == Range(D[Libraries[j]].functions)
           E(j) == Range(D[Libraries[j]].enums)
<1>1. n + 1 \in 1 .. LibraryCount /\ 1 .. n + 1 = (1 .. n) \cup {n + 1} /\ n + 1 \notin 1 .. n
  BY LibraryFacts
<1>2. \A j \in 1 .. n : j \in 1 .. LibraryCount
  BY LibraryFacts
<1>3. \A j \in 1 .. n : F(j) \subseteq Nat
  <2> SUFFICES ASSUME NEW j \in 1 .. n PROVE F(j) \subseteq Nat
    OBVIOUS
  <2>1. D[Libraries[j]] \notin {None, Broken} /\ j \in 1 .. LibraryCount
    BY <1>2 DEF Readable
  <2> QED
    BY <2>1, DocumentFacts
<1>4. Functions = NamesIn(D, n)
  <2>1. n <= LibraryCount
    BY LibraryFacts
  <2>2. {f.name : f \in FunctionsIn(D, n)} = NamesIn(D, n)
    BY <1>3, <2>1, FunctionNames
  <2> QED
    BY <2>2 DEF Functions, Combines
<1>5. Range(combined.enums) = EnumsIn(D, n)
  BY DEF Combines
<1>6. Acceptable(d) <=>
        /\ d \notin {None, Broken} /\ d.functions # << >>
        /\ OneToOne(d.functions) /\ OneToOne(d.enums)
        /\ \A j \in 1 .. n : F(n + 1) \cap F(j) = {} /\ E(n + 1) \cap E(j) = {}
  <2>1. F(n + 1) \cap NamesIn(D, n) = {} <=> \A j \in 1 .. n : F(n + 1) \cap F(j) = {}
    BY DEF NamesIn
  <2>2. E(n + 1) \cap EnumsIn(D, n) = {} <=> \A j \in 1 .. n : E(n + 1) \cap E(j) = {}
    BY DEF EnumsIn
  <2>3. \A names, earlier :
          ~ TwiceIn(names, earlier) <=> OneToOne(names) /\ Range(names) \cap earlier = {}
    BY DEF TwiceIn, OneToOne
  <2>4. ~ TwiceIn(d.functions, Functions) <=>
          OneToOne(d.functions) /\ \A j \in 1 .. n : F(n + 1) \cap F(j) = {}
    BY <1>4, <2>1, <2>3
  <2>5. ~ TwiceIn(d.enums, Range(combined.enums)) <=>
          OneToOne(d.enums) /\ \A j \in 1 .. n : E(n + 1) \cap E(j) = {}
    BY <1>5, <2>2, <2>3
  <2> QED
    BY <2>4, <2>5 DEF Acceptable
<1>7. Readable(D, n + 1) <=>
        /\ Readable(D, n)
        /\ d \notin {None, Broken} /\ d.functions # << >>
        /\ OneToOne(d.functions) /\ OneToOne(d.enums)
        /\ \A j \in 1 .. n : F(n + 1) \cap F(j) = {} /\ E(n + 1) \cap E(j) = {}
  BY <1>1, Zenon DEF Readable
<1> QED
  BY <1>6, <1>7

\* Reading one more document combines one more.
LEMMA CombinesMore ==
  ASSUME NEW D \in DocumentSets, NEW n \in Nat, n < LibraryCount,
         Readable(D, n + 1), NEW k, Combines(k, D, n)
  PROVE  LET d == D[Libraries[n + 1]] IN
         Combines([functions |-> k.functions \o Tagged(d.functions, Libraries[n + 1]),
                   enums |-> k.enums \o d.enums, macros |-> k.macros \o d.macros], D, n + 1)
<1> DEFINE l == Libraries[n + 1]
           d == D[l]
           T == Tagged(d.functions, l)
           fs == k.functions \o T
           es == k.enums \o d.enums
           ms == k.macros \o d.macros
<1>1. n + 1 \in 1 .. LibraryCount /\ n + 1 \in 1 .. n + 1
  BY LibraryFacts
<1>2. d \notin {None, Broken} /\ OneToOne(d.functions) /\ OneToOne(d.enums)
  BY <1>1 DEF Readable
<1>3. /\ l \in Range(Libraries)
      /\ d.functions \in Seq(Nat) /\ d.enums \in Seq(Nat) /\ d.macros \in Seq(apiMacro)
  BY <1>1, <1>2, DocumentFacts
<1>4. /\ T \in Seq(FunctionRecord) /\ OneToOne(T)
      /\ Range(T) = {f \in FunctionRecord : f.library = l /\ f.name \in Range(d.functions)}
  BY <1>2, <1>3, TaggedFunctions
<1>5. /\ k.functions \in Seq(FunctionRecord) /\ k.enums \in Seq(Nat) /\ k.macros \in Seq(apiMacro)
      /\ Range(k.functions) = FunctionsIn(D, n) /\ OneToOne(k.functions)
      /\ Range(k.enums) = EnumsIn(D, n) /\ OneToOne(k.enums)
      /\ Range(k.macros) = MacrosIn(D, n)
  BY DEF Combines
<1>6. /\ Range(d.functions) \cap NamesIn(D, n) = {}
      /\ Range(d.enums) \cap EnumsIn(D, n) = {}
  <2>1. \A j \in 1 .. n : j \in 1 .. n + 1 /\ j # n + 1
    OBVIOUS
  <2>2. \A j \in 1 .. n : /\ Range(d.functions) \cap Range(D[Libraries[j]].functions) = {}
                         /\ Range(d.enums) \cap Range(D[Libraries[j]].enums) = {}
    BY <1>1, <2>1, Zenon DEF Readable
  <2> HIDE DEF d
  <2>3. ASSUME NEW x \in NamesIn(D, n) PROVE x \notin Range(d.functions)
    BY <2>2, Zenon DEF NamesIn
  <2>4. ASSUME NEW x \in EnumsIn(D, n) PROVE x \notin Range(d.enums)
    BY <2>2, Zenon DEF EnumsIn
  <2> QED
    BY <2>3, <2>4
<1>7. Range(k.functions) \cap Range(T) = {}
  <2>1. \A f \in FunctionsIn(D, n) : f.name \in NamesIn(D, n)
    BY DEF FunctionsIn, NamesIn
  <2> QED
    BY <1>4, <1>5, <1>6, <2>1
<1>8. /\ NamesIn(D, n + 1) = NamesIn(D, n) \cup Range(d.functions)
      /\ EnumsIn(D, n + 1) = EnumsIn(D, n) \cup Range(d.enums)
      /\ MacrosIn(D, n + 1) = MacrosIn(D, n) \cup Range(d.macros)
      /\ FunctionsIn(D, n + 1) =
           FunctionsIn(D, n) \cup {f \in FunctionRecord : f.library = l /\ f.name \in Range(d.functions)}
  BY OneMore
<1> HIDE DEF T, d, l
<1>9. fs \in Seq(FunctionRecord) /\ Range(fs) = FunctionsIn(D, n + 1) /\ OneToOne(fs)
  <2>1. /\ fs \in Seq(FunctionRecord) /\ OneToOne(fs)
        /\ Range(fs) = Range(k.functions) \cup Range(T)
    BY <1>4, <1>5, <1>7, RangeOfBoth
  <2> QED
    BY <1>4, <1>5, <1>8, <2>1
<1>10. es \in Seq(Nat) /\ Range(es) = EnumsIn(D, n + 1) /\ OneToOne(es)
  <2>1. Range(k.enums) \cap Range(d.enums) = {}
    BY <1>5, <1>6
  <2>2. /\ es \in Seq(Nat) /\ OneToOne(es)
        /\ Range(es) = Range(k.enums) \cup Range(d.enums)
    BY <1>2, <1>3, <1>5, <2>1, RangeOfBoth
  <2> QED
    BY <1>5, <1>8, <2>2
<1>11. ms \in Seq(apiMacro) /\ Range(ms) = MacrosIn(D, n + 1)
  <2>1. ms \in Seq(apiMacro) /\ Range(ms) = Range(k.macros) \cup Range(d.macros)
    BY <1>3, <1>5, RangeOfBoth
  <2> QED
    BY <1>5, <1>8, <2>1
<1> HIDE DEF fs, es, ms
<1>12. Combines([functions |-> fs, enums |-> es, macros |-> ms], D, n + 1)
  BY <1>9, <1>10, <1>11 DEF Combines
<1> QED
  BY <1>12 DEF fs, es, ms, T, d, l

\* What a list holds is finite, and so is what finitely many lists hold.
LEMMA RangeIsFinite ==
  ASSUME NEW S, NEW s \in Seq(S)
  PROVE  IsFiniteSet(Range(s)) /\ Range(s) \subseteq S
<1> DEFINE n == Len(s)
<1>1. n \in Nat /\ DOMAIN s = 1 .. n /\ s \in [1 .. n -> S]
  OBVIOUS
<1> HIDE DEF n
<1>2. IsFiniteSet(1 .. n)
  BY <1>1, Interval
<1>3. s \in Surjection(1 .. n, Range(s)) /\ Range(s) \subseteq S
  BY <1>1 DEF Surjection, Range
<1> QED
  BY <1>2, <1>3, FS_Surjection

LEMMA UnionIsFinite ==
  ASSUME NEW n \in Nat, NEW g, DOMAIN g = 1 .. n, g = [j \in 1 .. n |-> g[j]],
         \A j \in 1 .. n : IsFiniteSet(g[j])
  PROVE  IsFiniteSet(UNION {g[j] : j \in 1 .. n})
<1> DEFINE S == {g[j] : j \in 1 .. n}
<1>1. g \in Surjection(1 .. n, S)
  BY DEF Surjection
<1>2. IsFiniteSet(1 .. n)
  BY Interval
<1>3. IsFiniteSet(S)
  <2> HIDE DEF S
  <2> QED
    BY <1>1, <1>2, FS_Surjection
<1>4. \A T \in S : IsFiniteSet(T)
  OBVIOUS
<1> HIDE DEF S
<1>5. IsFiniteSet(UNION S)
  BY <1>3, <1>4, FS_UNION
<1> QED
  BY <1>5 DEF S

\* The documents of a directory hold finitely many names.
LEMMA DocumentsAreFinite ==
  ASSUME NEW D \in DocumentSets, Readable(D, LibraryCount)
  PROVE  /\ IsFiniteSet(NamesIn(D, LibraryCount)) /\ NamesIn(D, LibraryCount) \subseteq Nat
         /\ IsFiniteSet(EnumsIn(D, LibraryCount)) /\ EnumsIn(D, LibraryCount) \subseteq Nat
         /\ IsFiniteSet(MacrosIn(D, LibraryCount)) /\ MacrosIn(D, LibraryCount) \subseteq apiMacro
<1> DEFINE F == [j \in 1 .. LibraryCount |-> Range(D[Libraries[j]].functions)]
           E == [j \in 1 .. LibraryCount |-> Range(D[Libraries[j]].enums)]
           M == [j \in 1 .. LibraryCount |-> Range(D[Libraries[j]].macros)]
<1>1. LibraryCount \in Nat
  BY LibraryFacts
<1>2. ASSUME NEW j \in 1 .. LibraryCount
      PROVE  /\ IsFiniteSet(F[j]) /\ F[j] \subseteq Nat /\ IsFiniteSet(E[j]) /\ E[j] \subseteq Nat
             /\ IsFiniteSet(M[j]) /\ M[j] \subseteq apiMacro
  <2> DEFINE d == D[Libraries[j]]
  <2>1. d \notin {None, Broken}
    BY DEF Readable
  <2>2. d.functions \in Seq(Nat) /\ d.enums \in Seq(Nat) /\ d.macros \in Seq(apiMacro)
    BY <2>1, DocumentFacts
  <2>3. F[j] = Range(d.functions) /\ E[j] = Range(d.enums) /\ M[j] = Range(d.macros)
    OBVIOUS
  <2> HIDE DEF d, F, E, M
  <2> QED
    BY <2>2, <2>3, RangeIsFinite
<1>3. /\ NamesIn(D, LibraryCount) = UNION {F[j] : j \in 1 .. LibraryCount}
      /\ EnumsIn(D, LibraryCount) = UNION {E[j] : j \in 1 .. LibraryCount}
      /\ MacrosIn(D, LibraryCount) = UNION {M[j] : j \in 1 .. LibraryCount}
  BY DEF NamesIn, EnumsIn, MacrosIn
<1>4. /\ DOMAIN F = 1 .. LibraryCount /\ F = [j \in 1 .. LibraryCount |-> F[j]]
      /\ DOMAIN E = 1 .. LibraryCount /\ E = [j \in 1 .. LibraryCount |-> E[j]]
      /\ DOMAIN M = 1 .. LibraryCount /\ M = [j \in 1 .. LibraryCount |-> M[j]]
  OBVIOUS
<1> HIDE DEF F, E, M
<1>5. /\ IsFiniteSet(UNION {F[j] : j \in 1 .. LibraryCount})
      /\ IsFiniteSet(UNION {E[j] : j \in 1 .. LibraryCount})
      /\ IsFiniteSet(UNION {M[j] : j \in 1 .. LibraryCount})
  BY <1>1, <1>2, <1>4, UnionIsFinite
<1> QED
  BY <1>2, <1>3, <1>5

--------------------------------------------------------------------------------
(* Selecting and rendering.                                                 *)

\* In both modes the symbols are the functions wanted, in order.
LEMMA SymbolsFromDocuments ==
  ASSUME NEW k, NEW D \in DocumentSets, Readable(D, LibraryCount), Combines(k, D, LibraryCount)
  PROVE  Ascending([i \in DOMAIN k.functions |-> k.functions[i].name]) = InOrder(NamesIn(D, LibraryCount))
<1> DEFINE fs == k.functions
           s == [i \in DOMAIN fs |-> fs[i].name]
           n == Len(fs)
<1>1. fs \in Seq(FunctionRecord) /\ Range(fs) = FunctionsIn(D, LibraryCount) /\ OneToOne(fs)
  BY DEF Combines
<1> HIDE DEF fs
<1>2. n \in Nat /\ DOMAIN fs = 1 .. n /\ \A i \in 1 .. n : fs[i] \in FunctionRecord
  BY <1>1
<1> HIDE DEF n
<1>3. s \in [1 .. n -> Nat]
  BY <1>2 DEF FunctionRecord
<1>4. s \in Seq(Nat) /\ DOMAIN s = 1 .. n
  BY <1>2, <1>3, SeqDef
<1>5. OneToOne(s)
  <2> SUFFICES ASSUME NEW i \in 1 .. n, NEW j \in 1 .. n, s[i] = s[j] PROVE i = j
    BY <1>4 DEF OneToOne
  <2>1. fs[i] \in FunctionsIn(D, LibraryCount) /\ fs[j] \in FunctionsIn(D, LibraryCount)
    BY <1>1, <1>2 DEF Range
  <2>2. fs[i].name = fs[j].name
    BY <1>2
  <2>3. fs[i] = fs[j]
    BY <2>1, <2>2, OneLibrary, LibraryFacts
  <2> QED
    BY <1>1, <1>2, <2>3 DEF OneToOne
<1>6. Range(s) = {f.name : f \in FunctionsIn(D, LibraryCount)}
  BY <1>1, <1>2, <1>4 DEF Range
<1>7. \A j \in 1 .. LibraryCount : Range(D[Libraries[j]].functions) \subseteq Nat
  <2> SUFFICES ASSUME NEW j \in 1 .. LibraryCount PROVE Range(D[Libraries[j]].functions) \subseteq Nat
    OBVIOUS
  <2>1. D[Libraries[j]] \notin {None, Broken}
    BY DEF Readable
  <2> QED
    BY <2>1, DocumentFacts
<1>8. Range(s) = NamesIn(D, LibraryCount)
  <2>1. LibraryCount \in Nat /\ LibraryCount <= LibraryCount
    BY LibraryFacts
  <2>2. {f.name : f \in FunctionsIn(D, LibraryCount)} = NamesIn(D, LibraryCount)
    BY <1>7, <2>1, FunctionNames
  <2> HIDE DEF s
  <2> QED
    BY <1>6, <2>2
<1> HIDE DEF s
<1>9. Ascending(s) = InOrder(NamesIn(D, LibraryCount))
  BY <1>4, <1>5, <1>8, AscendingInOrder
<1> QED
  BY <1>9 DEF s, fs

\* The order in which the map of selectors is walked is lost by sorting.
LEMMA SymbolsFromFiles ==
  ASSUME NEW S, IsFiniteSet(S), S \subseteq Nat, NEW s \in SetToSeqs(S)
  PROVE  Ordered(s) = InOrder(S)
<1> DEFINE n == Cardinality(S)
<1>1. n \in Nat /\ s \in [1 .. n -> S] /\ \A i, j \in 1 .. n : i # j => s[i] # s[j]
  BY FS_CardinalityType DEF SetToSeqs
<1> HIDE DEF n
<1>2. s \in Seq(Nat) /\ OneToOne(s)
  <2>1. s \in [1 .. n -> Nat] /\ DOMAIN s = 1 .. n
    BY <1>1
  <2>2. s \in Seq(Nat)
    BY <1>1, <2>1, SeqDef
  <2>3. \A i, j \in 1 .. n : s[i] = s[j] => i = j
    BY <1>1
  <2> QED
    BY <2>1, <2>2, <2>3, Zenon DEF OneToOne
<1>3. Range(s) = S
  <2>1. s \in Injection(1 .. n, S)
    BY <1>1 DEF Injection, IsInjective
  <2>2. IsFiniteSet(1 .. n) /\ Cardinality(1 .. n) = Cardinality(S)
    BY <1>1, Interval DEF n
  <2>3. s \in Surjection(1 .. n, S)
    BY <2>1, <2>2, FS_Injection
  <2> QED
    BY <1>1, <2>3 DEF Surjection, Range
<1> QED
  BY <1>2, <1>3, AscendingInOrder DEF Ordered

\* A name the documents have belongs to one function.
LEMMA FunctionOfName ==
  ASSUME NEW D \in DocumentSets, Readable(D, LibraryCount), NEW x \in NamesIn(D, LibraryCount)
  PROVE  /\ FunctionOf(D, x) \in FunctionsIn(D, LibraryCount) /\ FunctionOf(D, x).name = x
         /\ \A g \in FunctionsIn(D, LibraryCount) : g.name = x => g = FunctionOf(D, x)
<1>1. PICK f \in FunctionsIn(D, LibraryCount) : f.name = x
  <2>1. PICK j \in 1 .. LibraryCount : x \in Range(D[Libraries[j]].functions)
    BY DEF NamesIn
  <2>2. D[Libraries[j]] \notin {None, Broken}
    BY DEF Readable
  <2>3. x \in Nat /\ Libraries[j] \in Range(Libraries)
    BY <2>1, <2>2, DocumentFacts
  <2>4. [name |-> x, library |-> Libraries[j]] \in FunctionsIn(D, LibraryCount)
    BY <2>1, <2>3 DEF FunctionsIn, FunctionRecord
  <2> QED
    BY <2>4
<1>2. \A g \in FunctionsIn(D, LibraryCount) : g.name = x => g = f
  BY <1>1, OneLibrary, LibraryFacts
<1>3. FunctionOf(D, x) = f
  BY <1>1, <1>2 DEF FunctionOf
<1> QED
  BY <1>1, <1>2, <1>3

\* The function the generator finds by its name is that one.
LEMMA NamedFunction ==
  ASSUME NEW D \in DocumentSets, Readable(D, LibraryCount), Combines(combined, D, LibraryCount),
         NEW x \in NamesIn(D, LibraryCount)
  PROVE  FunctionNamed(x) = FunctionOf(D, x)
<1> DEFINE f == FunctionOf(D, x)
           fs == combined.functions
           n == Len(fs)
           I == {i \in 1 .. n : fs[i].name = x}
<1>1. fs \in Seq(FunctionRecord) /\ Range(fs) = FunctionsIn(D, LibraryCount) /\ OneToOne(fs)
  BY DEF Combines
<1>2. n \in Nat /\ DOMAIN fs = 1 .. n
  BY <1>1
<1>3. /\ f \in FunctionsIn(D, LibraryCount) /\ f.name = x
      /\ \A g \in FunctionsIn(D, LibraryCount) : g.name = x => g = f
  BY FunctionOfName
<1> HIDE DEF f
<1>4. PICK i \in 1 .. n : fs[i] = f
  BY <1>1, <1>2, <1>3 DEF Range
<1>5. I = {i}
  <2>1. \A j \in 1 .. n : fs[j].name = x => fs[j] = f
    BY <1>1, <1>2, <1>3 DEF Range
  <2>2. \A j \in 1 .. n : fs[j] = f => j = i
    BY <1>1, <1>2, <1>4 DEF OneToOne
  <2> QED
    BY <1>3, <1>4, <2>1, <2>2
<1>6. FunctionNamed(x) = fs[IF I # {} THEN Max(I) ELSE 0]
  BY DEF FunctionNamed, SelectLastInSeq
<1>7. Max({i}) = i
  BY <1>2 DEF Max
<1>8. FunctionNamed(x) = f
  <2> HIDE DEF I
  <2> QED
    BY <1>4, <1>5, <1>6, <1>7
<1> QED
  BY <1>8 DEF f

\* What is rendered follows from the documents and the functions wanted.
LEMMA RenderedFromDocuments ==
  ASSUME NEW D \in DocumentSets, docs[path] = D,
         Readable(D, LibraryCount), Combines(combined, D, LibraryCount),
         NEW W, IsFiniteSet(W), W \subseteq Nat, symbols = InOrder(W)
  PROVE  /\ Renderable <=> CanRender(D, W)
         /\ Renderable => renderGenerated = Binding(D, W)
<1> DEFINE E == EnumsIn(D, LibraryCount)
           N == Cardinality(W)
<1>1. DOMAIN symbols = 1 .. N
  BY DEF InOrder
<1>2. /\ \A i \in 1 .. N : symbols[i] \in W
      /\ \A x \in W : \E i \in 1 .. N : symbols[i] = x
  BY InOrderPlaces
<1>3. Range(symbols) = W
  BY <1>1, <1>2 DEF Range
<1>4. Functions = NamesIn(D, LibraryCount)
  <2>1. \A j \in 1 .. LibraryCount : Range(D[Libraries[j]].functions) \subseteq Nat
    <3> SUFFICES ASSUME NEW j \in 1 .. LibraryCount PROVE Range(D[Libraries[j]].functions) \subseteq Nat
      OBVIOUS
    <3>1. D[Libraries[j]] \notin {None, Broken}
      BY DEF Readable
    <3> QED
      BY <3>1, DocumentFacts
  <2>2. LibraryCount \in Nat /\ LibraryCount <= LibraryCount
    BY LibraryFacts
  <2>3. {f.name : f \in FunctionsIn(D, LibraryCount)} = NamesIn(D, LibraryCount)
    BY <2>1, <2>2, FunctionNames
  <2> QED
    BY <2>3 DEF Functions, Combines
<1>5. Macros = ValueMacros(D)
  BY DEF Macros, ValueMacros, Combines
<1>6. Range(combined.enums) = E /\ Ascending(combined.enums) = InOrder(E)
  <2>1. combined.enums \in Seq(Nat) /\ OneToOne(combined.enums) /\ Range(combined.enums) = E
    BY DEF Combines
  <2> QED
    BY <2>1, AscendingInOrder
<1>7. \A t : Group(t) = OfType(InOrder(E), t)
  BY <1>6 DEF Group
<1>8. Renderable <=> CanRender(D, W)
  BY <1>3, <1>4, <1>5, <1>6, <1>7, Zenon DEF Renderable, CanRender
<1>9. ASSUME CanRender(D, W) PROVE renderGenerated = Binding(D, W)
  <2>1. \A i \in 1 .. N : FunctionNamed(symbols[i]) = FunctionOf(D, InOrder(W)[i])
    <3>1. \A x \in W : x \in NamesIn(D, LibraryCount)
      BY <1>9 DEF CanRender
    <3> QED
      BY <1>2, <3>1, NamedFunction
  <2>2. [i \in DOMAIN symbols |-> FunctionNamed(symbols[i])] =
          [i \in 1 .. N |-> FunctionOf(D, InOrder(W)[i])]
    BY <1>1, <2>1
  <2>3. [t \in AliasTypes |-> Group(t)] = [t \in AliasTypes |-> OfType(InOrder(E), t)]
    BY <1>7
  <2>4. constantMacros = InNameOrder(ValueMacros(D))
    BY <1>5 DEF constantMacros
  <2> QED
    BY <1>6, <2>2, <2>3, <2>4, Zenon DEF renderGenerated, Binding
<1> QED
  BY <1>8, <1>9

--------------------------------------------------------------------------------
(* The steps.                                                               *)

\* The least of some numbers is the first candidate that is there.
LEMMA LeastNumber ==
  ASSUME NEW S \in SUBSET Nat, S # {}
  PROVE  Min(S) \in S /\ \A y \in S : Min(S) <= y
<1>1. PICK x \in S : \A y \in S : ~ (<<y, x>> \in OpToRel(<, Nat))
  BY NatLessThanWellFounded, WFMin
<1>2. \A y \in S : x <= y
  <2> SUFFICES ASSUME NEW y \in S, y < x PROVE FALSE
    OBVIOUS
  <2>1. <<y, x>> \in OpToRel(<, Nat)
    BY DEF OpToRel
  <2> QED
    BY <1>1, <2>1
<1> QED
  BY <1>2 DEF Min

\* The run resolves to a directory that has documents.
LEMMA ResolvedDirectory ==
  ASSUME TypeInv, NEW c \in Configs, resolveAPIPath(c.requested) # None
  PROVE  LET p == resolveAPIPath(c.requested) IN
         p \in Directory /\ Present(p) /\ docs[p] \in DocumentSets
<1> DEFINE p == resolveAPIPath(c.requested)
           I == {i \in 1 .. Len(Candidates) : Present(Candidates[i])}
<1>1. \A i \in 1 .. Len(Candidates) : Candidates[i] \in Directory
  BY GeneratorAssumption
<1>2. p \in Directory /\ Present(p)
  <2>1. CASE c.requested # "auto"
    BY <2>1 DEF resolveAPIPath, existingPath, Configs
  <2>2. CASE c.requested = "auto" /\ env # None
    BY <2>2 DEF resolveAPIPath, existingPath, TypeInv
  <2>3. CASE c.requested = "auto" /\ env = None
    <3>1. I # {} /\ p = Candidates[Min(I)]
      BY <2>3 DEF resolveAPIPath, SelectInSeq
    <3>2. I \in SUBSET Nat
      OBVIOUS
    <3>3. Min(I) \in I
      <4> HIDE DEF I
      <4> QED
        BY <3>1, <3>2, LeastNumber
    <3> QED
      BY <1>1, <3>1, <3>3
  <2> QED
    BY <2>1, <2>2, <2>3
<1>3. docs[p] \in DocumentSets
  BY <1>2 DEF Present, TypeInv
<1> QED
  BY <1>2, <1>3

\* The sources stay as they are while the generator runs.
LEMMA SourcesStay ==
  ASSUME UNCHANGED <<files, config>>
  PROVE  /\ resolveAPIPath(config.requested)' = resolveAPIPath(config.requested)
         /\ discoverNativeSymbols' = discoverNativeSymbols
         /\ DocsOf(config)' = DocsOf(config)
         /\ Wanted(config, DocsOf(config))' = Wanted(config, DocsOf(config))
         /\ Selects(config)' = Selects(config)
<1>1. resolveAPIPath(config.requested)' = resolveAPIPath(config.requested)
  BY DEF files, resolveAPIPath, existingPath, Present, SelectInSeq
<1>2. discoverNativeSymbols' = discoverNativeSymbols
  BY DEF files, discoverNativeSymbols, Mentioned
<1>3. DocsOf(config)' = DocsOf(config)
  BY <1>1 DEF files, DocsOf
<1>4. Wanted(config, DocsOf(config))' = Wanted(config, DocsOf(config))
  BY <1>3 DEF files, Wanted
<1> QED
  BY <1>1, <1>2, <1>3, <1>4 DEF Selects

\* A step that touches neither files nor output keeps the last success true.
LEMMA SettledStays ==
  ASSUME UNCHANGED <<files, settled, output>>, SettledInv
  PROVE  SettledInv'
<1>1. resolveAPIPath(settled.requested)' = resolveAPIPath(settled.requested)
  BY DEF files, resolveAPIPath, existingPath, Present, SelectInSeq
<1>2. discoverNativeSymbols' = discoverNativeSymbols
  BY DEF files, discoverNativeSymbols, Mentioned
<1>3. DocsOf(settled)' = DocsOf(settled)
  BY <1>1 DEF files, DocsOf
<1>4. Wanted(settled, DocsOf(settled))' = Wanted(settled, DocsOf(settled))
  BY <1>3 DEF files, Wanted
<1> QED
  BY <1>1, <1>2, <1>3, <1>4 DEF SettledInv, Selects

\* The invariant holds before the first run.
LEMMA InitGeneratorInv == Init => GeneratorInv
BY GeneratorAssumption DEF Init, GeneratorInv, TypeInv, RunInv, SettledInv, Configs

\* Every step keeps each part of it.
LEMMA TypeStays == TypeInv /\ [Next]_vars => TypeInv'
<1> SUFFICES ASSUME TypeInv, [Next]_vars PROVE TypeInv'
  OBVIOUS
<1> USE DEF TypeInv, files, work
<1>1. CASE Edit
  BY <1>1 DEF Edit
<1>2. CASE Run
  BY <1>2 DEF Run
<1>3. CASE Resolve
  BY <1>3 DEF Resolve, Error
<1>4. CASE loadAPIDocument
  BY <1>4 DEF loadAPIDocument, Error
<1>5. CASE selectNativeSymbols
  BY <1>5 DEF selectNativeSymbols, Error
<1>6. CASE Render
  BY <1>6 DEF Render, Error
<1>7. CASE UNCHANGED vars
  BY <1>7 DEF vars
<1> QED
  BY <1>1, <1>2, <1>3, <1>4, <1>5, <1>6, <1>7 DEF Next

\* Before the first document there is nothing.
LEMMA NothingRead == ASSUME NEW D PROVE Readable(D, 0) /\ Combines(Empty, D, 0)
<1>1. \A j \in 1 .. 0 : FALSE
  OBVIOUS
<1>2. FunctionsIn(D, 0) = {} /\ EnumsIn(D, 0) = {} /\ MacrosIn(D, 0) = {}
  BY <1>1 DEF FunctionsIn, EnumsIn, MacrosIn
<1>3. Empty \in [functions : Seq(FunctionRecord), enums : Seq(Nat), macros : Seq(apiMacro)]
  BY DEF Empty
<1>4. Empty.functions = << >> /\ Empty.enums = << >> /\ Empty.macros = << >>
  BY DEF Empty
<1>5. Range(<< >>) = {} /\ OneToOne(<< >>)
  BY DEF Range, OneToOne
<1> QED
  BY <1>1, <1>2, <1>3, <1>4, <1>5 DEF Readable, Combines

\* The directory of a run under way.
LEMMA RunDirectory ==
  ASSUME TypeInv, RunInv, pc \in {"load", "render"}
  PROVE  /\ path = resolveAPIPath(config.requested) /\ path # None
         /\ docs[path] = DocsOf(config) /\ docs[path] \in DocumentSets
         /\ library \in 1 .. LibraryCount + 1
         /\ Readable(docs[path], library - 1) /\ Combines(combined, docs[path], library - 1)
<1>1. path = resolveAPIPath(config.requested) /\ path # None /\ config \in Configs
  BY DEF RunInv, TypeInv
<1> QED
  BY <1>1, ResolvedDirectory DEF RunInv, DocsOf

\* Resolving, reading and selecting keep what the invariant says of the run.
LEMMA ResolveKeepsRun == ASSUME TypeInv, RunInv, Resolve PROVE RunInv'
<1>1. UNCHANGED <<files, config>>
  BY DEF Resolve
<1>2. CASE path' = None
  BY <1>2 DEF Resolve, Error, RunInv
<1>3. CASE path' # None
  <2>1. /\ pc' = "load" /\ path' = resolveAPIPath(config.requested)
        /\ library' = library /\ combined' = combined /\ library = 1 /\ combined = Empty
    BY <1>3 DEF Resolve, RunInv
  <2>2. path' = resolveAPIPath(config.requested)'
    BY <1>1, <2>1, SourcesStay
  <2>3. library' \in 1 .. LibraryCount + 1 /\ library' - 1 = 0
    BY <2>1, LibraryFacts
  <2>4. Readable(docs'[path'], library' - 1) /\ Combines(combined', docs'[path'], library' - 1)
    BY <2>1, <2>3, NothingRead
  <2> QED
    BY <1>3, <2>1, <2>2, <2>3, <2>4 DEF RunInv
<1> QED
  BY <1>2, <1>3

LEMMA LoadKeepsRun == ASSUME TypeInv, RunInv, loadAPIDocument PROVE RunInv'
<1> DEFINE l == Libraries[library]
           d == docs[path][l]
           n == library - 1
<1>1. UNCHANGED <<files, config, path>> /\ pc = "load" /\ library <= LibraryCount
  BY DEF loadAPIDocument, LibraryCount
<1>2. /\ path = resolveAPIPath(config.requested) /\ path # None
      /\ docs[path] \in DocumentSets
      /\ library \in 1 .. LibraryCount + 1
      /\ Readable(docs[path], n) /\ Combines(combined, docs[path], n)
  BY <1>1, RunDirectory
<1>3. n \in Nat /\ n < LibraryCount /\ n + 1 = library
  BY <1>1, <1>2, LibraryFacts
<1>4. CASE ~ Acceptable(d)
  BY <1>4 DEF loadAPIDocument, Error, RunInv
<1>5. CASE Acceptable(d)
  <2> DEFINE k == [functions |-> combined.functions \o Tagged(d.functions, l),
                   enums |-> combined.enums \o d.enums, macros |-> combined.macros \o d.macros]
  <2>1. Readable(docs[path], n + 1)
    BY <1>2, <1>3, <1>5, AcceptableIsReadable
  <2>2. Combines(k, docs[path], n + 1)
    BY <1>2, <1>3, <2>1, CombinesMore
  <2>3. combined' = k /\ library' = library + 1 /\ pc' = "load"
    BY <1>5, <1>1 DEF loadAPIDocument, Tagged
  <2>4. path' = resolveAPIPath(config.requested)' /\ path' = path /\ docs' = docs
    BY <1>1, <1>2, SourcesStay DEF files
  <2>5. library' \in 1 .. LibraryCount + 1 /\ library' - 1 = n + 1
    BY <1>1, <1>2, <2>3, LibraryFacts
  <2> HIDE DEF k, n
  <2>6. Readable(docs'[path'], library' - 1) /\ Combines(combined', docs'[path'], library' - 1)
    BY <2>1, <2>2, <2>3, <2>4, <2>5
  <2> QED
    BY <1>2, <2>3, <2>4, <2>5, <2>6 DEF RunInv
<1> QED
  BY <1>4, <1>5

\* The functions of all documents are those of the list of libraries.
LEMMA AllDocuments ==
  ASSUME NEW D \in DocumentSets
  PROVE  /\ DOMAIN D = Range(Libraries)
         /\ \A c : c.mode # "used" => Wanted(c, D) = NamesIn(D, LibraryCount)
         /\ UNION {Range(D[l].enums) : l \in DOMAIN D} = EnumsIn(D, LibraryCount)
         /\ UNION {Range(D[l].macros) : l \in DOMAIN D} = MacrosIn(D, LibraryCount)
<1>1. DOMAIN D = Range(Libraries)
  BY GeneratorAssumption
<1>2. DOMAIN D = {Libraries[j] : j \in 1 .. LibraryCount}
  BY <1>1, LibraryFacts
<1>3. UNION {Range(D[l].functions) : l \in DOMAIN D} = NamesIn(D, LibraryCount)
  BY <1>2, Zenon DEF NamesIn
<1>4. UNION {Range(D[l].enums) : l \in DOMAIN D} = EnumsIn(D, LibraryCount)
  BY <1>2, Zenon DEF EnumsIn
<1>5. UNION {Range(D[l].macros) : l \in DOMAIN D} = MacrosIn(D, LibraryCount)
  BY <1>2, Zenon DEF MacrosIn
<1> QED
  BY <1>1, <1>3, <1>4, <1>5 DEF Wanted

\* What the Go files mention, when they parse.
LEMMA MentionedFunctions ==
  ASSUME TypeInv, discoverNativeSymbols # Broken
  PROVE  /\ \A c, D : c.mode = "used" => Wanted(c, D) = discoverNativeSymbols
         /\ IsFiniteSet(discoverNativeSymbols) /\ discoverNativeSymbols \subseteq Nat
<1> DEFINE own == {g \in package : ~ g.test}
           calls == [f \in own |-> f.calls]
           S == {f.calls : f \in own}
<1>1. /\ ~ \E f \in package : ~ f.test /\ f.calls = Broken
      /\ discoverNativeSymbols = UNION S
  BY DEF discoverNativeSymbols, Mentioned
<1>2. package \in Packages
  BY DEF TypeInv
<1>3. IsFiniteSet(own)
  BY <1>2, GeneratorAssumption, FS_Subset
<1>4. \A T \in S : IsFiniteSet(T) /\ T \subseteq Nat
  BY <1>1, <1>2, GeneratorAssumption
<1>5. IsFiniteSet(S)
  <2>1. calls \in Surjection(own, S)
    BY DEF Surjection
  <2> HIDE DEF calls, S, own
  <2> QED
    BY <1>3, <2>1, FS_Surjection
<1>6. IsFiniteSet(UNION S)
  <2> HIDE DEF S
  <2> QED
    BY <1>4, <1>5, FS_UNION
<1>7. UNION S \subseteq Nat
  BY <1>4
<1>8. \A c, D : c.mode = "used" => Wanted(c, D) = UNION S
  BY DEF Wanted
<1> HIDE DEF S
<1> QED
  BY <1>1, <1>6, <1>7, <1>8

\* A run under way has read all documents when it selects.
LEMMA AllRead ==
  ASSUME TypeInv, RunInv, pc \in {"load", "render"}, library > LibraryCount
  PROVE  /\ library = LibraryCount + 1
         /\ Readable(docs[path], LibraryCount) /\ Combines(combined, docs[path], LibraryCount)
<1>1. /\ library \in 1 .. LibraryCount + 1
      /\ Readable(docs[path], library - 1) /\ Combines(combined, docs[path], library - 1)
  BY RunDirectory
<1>2. library = LibraryCount + 1 /\ library - 1 = LibraryCount
  BY <1>1, LibraryFacts
<1> QED
  BY <1>1, <1>2

LEMMA SelectKeepsRun == ASSUME TypeInv, RunInv, selectNativeSymbols PROVE RunInv'
<1> DEFINE D == docs[path]
           W == Wanted(config, DocsOf(config))
<1>1. /\ UNCHANGED <<files, config, path, library, combined>> /\ pc = "load"
      /\ library > LibraryCount
  BY DEF selectNativeSymbols, LibraryCount
<1>2. /\ path = resolveAPIPath(config.requested) /\ path # None
      /\ D = DocsOf(config) /\ D \in DocumentSets
  BY <1>1, RunDirectory
<1>3. library = LibraryCount + 1 /\ Readable(D, LibraryCount) /\ Combines(combined, D, LibraryCount)
  BY <1>1, AllRead
<1>4. CASE pc' = "idle"
  BY <1>4 DEF RunInv
<1>5. CASE pc' = "render"
  <2>1. Selects(config) /\ symbols' = InOrder(W)
    <3>1. CASE config.mode = "all"
      <4>1. symbols' = Ascending([i \in DOMAIN combined.functions |-> combined.functions[i].name])
        BY <3>1, <1>5 DEF selectNativeSymbols, Error
      <4>2. W = NamesIn(D, LibraryCount)
        BY <1>2, <3>1, AllDocuments
      <4>3. symbols' = InOrder(W)
        BY <1>2, <1>3, <4>1, <4>2, SymbolsFromDocuments
      <4>4. IsFiniteSet(W) /\ W \subseteq Nat
        BY <1>2, <1>3, <4>2, DocumentsAreFinite
      <4> QED
        BY <3>1, <4>3, <4>4 DEF Selects
    <3>2. CASE config.mode # "all"
      <4>1. /\ config.mode = "used" /\ discoverNativeSymbols \notin {Broken, {}}
            /\ \E s \in SetToSeqs(discoverNativeSymbols) : symbols' = Ordered(s)
        BY <3>2, <1>5 DEF selectNativeSymbols, Error
      <4>2. /\ W = discoverNativeSymbols
            /\ IsFiniteSet(discoverNativeSymbols) /\ discoverNativeSymbols \subseteq Nat
        BY <4>1, MentionedFunctions
      <4>3. symbols' = InOrder(discoverNativeSymbols)
        BY <4>1, <4>2, SymbolsFromFiles
      <4> QED
        BY <4>1, <4>2, <4>3 DEF Selects
    <3> QED
      BY <3>1, <3>2
  <2>2. /\ path' = resolveAPIPath(config.requested)' /\ Selects(config)'
        /\ symbols' = InOrder(Wanted(config, DocsOf(config))')
    BY <1>1, <1>2, <2>1, SourcesStay
  <2>3. library' = library /\ combined' = combined /\ path' = path /\ docs' = docs
    BY <1>1 DEF files
  <2>4. Readable(docs'[path'], library' - 1) /\ Combines(combined', docs'[path'], library' - 1)
    BY <1>1, <2>3, RunDirectory
  <2>5. library' = LibraryCount + 1 /\ library' \in 1 .. LibraryCount + 1
    BY <1>3, <2>3, LibraryFacts
  <2>6. InOrder(Wanted(config, DocsOf(config)))' = InOrder(Wanted(config, DocsOf(config))')
    OBVIOUS
  <2> QED
    BY <1>2, <1>5, <2>2, <2>3, <2>4, <2>5, <2>6 DEF RunInv
<1>6. pc' \in {"idle", "render"}
  BY DEF selectNativeSymbols, Error
<1> QED
  BY <1>4, <1>5, <1>6

LEMMA RunStays == TypeInv /\ RunInv /\ [Next]_vars => RunInv'
<1> SUFFICES ASSUME TypeInv, RunInv, [Next]_vars PROVE RunInv'
  OBVIOUS
<1>1. CASE Edit
  BY <1>1 DEF Edit, RunInv
<1>2. CASE Run
  BY <1>2 DEF Run, RunInv
<1>3. CASE Resolve
  BY <1>3, ResolveKeepsRun
<1>4. CASE loadAPIDocument
  BY <1>4, LoadKeepsRun
<1>5. CASE selectNativeSymbols
  BY <1>5, SelectKeepsRun
<1>6. CASE Render
  BY <1>6 DEF Render, Error, RunInv
<1>7. CASE UNCHANGED vars
  <2>1. UNCHANGED <<files, config>> /\ UNCHANGED <<pc, path, library, combined, symbols>>
    BY <1>7 DEF vars, work
  <2>2. /\ resolveAPIPath(config.requested)' = resolveAPIPath(config.requested)
        /\ Wanted(config, DocsOf(config))' = Wanted(config, DocsOf(config))
        /\ Selects(config)' = Selects(config) /\ docs' = docs
    BY <2>1, SourcesStay DEF files
  <2>3. InOrder(Wanted(config, DocsOf(config)))' = InOrder(Wanted(config, DocsOf(config)))
    BY <2>2
  <2> QED
    BY <2>1, <2>2, <2>3 DEF RunInv
<1> QED
  BY <1>1, <1>2, <1>3, <1>4, <1>5, <1>6, <1>7 DEF Next

\* What a run renders: the binding of the documents it resolved and of the
\* functions its options want.
LEMMA WhatIsRendered ==
  ASSUME TypeInv, RunInv, pc = "render"
  PROVE  LET W == Wanted(config, DocsOf(config)) IN
         /\ resolveAPIPath(config.requested) # None
         /\ Readable(DocsOf(config), LibraryCount) /\ Selects(config)
         /\ Renderable <=> CanRender(DocsOf(config), W)
         /\ Renderable => renderGenerated = Binding(DocsOf(config), W)
<1> DEFINE D == docs[path]
           W == Wanted(config, DocsOf(config))
<1>1. /\ path = resolveAPIPath(config.requested) /\ path # None
      /\ D = DocsOf(config) /\ D \in DocumentSets
  BY RunDirectory
<1>2. library = LibraryCount + 1 /\ Selects(config) /\ symbols = InOrder(W)
  BY DEF RunInv
<1>3. library > LibraryCount
  BY <1>2, LibraryFacts
<1>4. Readable(D, LibraryCount) /\ Combines(combined, D, LibraryCount)
  BY <1>3, AllRead
<1>5. IsFiniteSet(W) /\ W \subseteq Nat
  BY <1>2 DEF Selects
<1>6. /\ Renderable <=> CanRender(D, W)
      /\ Renderable => renderGenerated = Binding(D, W)
  <2> HIDE DEF W
  <2> QED
    BY <1>1, <1>2, <1>4, <1>5, RenderedFromDocuments
<1> QED
  BY <1>1, <1>2, <1>4, <1>6

\* A run that ends in success is one that would be repeated.
LEMMA RenderSettles == ASSUME TypeInv, RunInv, SettledInv, Render PROVE SettledInv'
<1> DEFINE D == DocsOf(config)
           W == Wanted(config, D)
<1>1. UNCHANGED <<files, config>> /\ pc = "render"
  BY DEF Render
<1>2. CASE UNCHANGED <<output, settled>>
  BY <1>1, <1>2, SettledStays
<1>3. CASE settled' = None
  BY <1>3 DEF SettledInv
<1>4. CASE Renderable /\ output' = renderGenerated /\ settled' = config
  <2>1. /\ resolveAPIPath(config.requested) # None
        /\ Readable(D, LibraryCount) /\ Selects(config)
        /\ CanRender(D, W) /\ output' = Binding(D, W)
    BY <1>1, <1>4, WhatIsRendered
  <2>2. /\ resolveAPIPath(config.requested)' = resolveAPIPath(config.requested)
        /\ DocsOf(config)' = D /\ Wanted(config, DocsOf(config))' = W
        /\ Selects(config)' = Selects(config)
    BY <1>1, SourcesStay
  <2>3. settled' = config' /\ config \in Configs /\ config' = config
    BY <1>1, <1>4 DEF TypeInv
  <2> DEFINE Wc == Wanted(config, DocsOf(config))
  <2>4. /\ resolveAPIPath(settled.requested)' = resolveAPIPath(config.requested)'
        /\ DocsOf(settled)' = DocsOf(config)'
        /\ Wanted(settled, DocsOf(settled))' = Wanted(config, DocsOf(config))'
        /\ Selects(settled)' = Selects(config)'
    <3>1. resolveAPIPath(settled.requested)' = resolveAPIPath(config.requested)'
      BY <2>3 DEF resolveAPIPath, existingPath, Present, SelectInSeq
    <3>2. DocsOf(settled)' = DocsOf(config)'
      BY <3>1 DEF DocsOf
    <3>3. Wanted(settled, DocsOf(settled))' = Wanted(config, DocsOf(config))'
      BY <2>3, <3>2 DEF Wanted
    <3> QED
      BY <2>3, <3>1, <3>2, <3>3 DEF Selects
  <2> QED
    BY <2>1, <2>2, <2>3, <2>4 DEF SettledInv
<1> QED
  BY <1>2, <1>3, <1>4 DEF Render

LEMMA SettledKept == TypeInv /\ RunInv /\ SettledInv /\ [Next]_vars => SettledInv'
<1> SUFFICES ASSUME TypeInv, RunInv, SettledInv, [Next]_vars PROVE SettledInv'
  OBVIOUS
<1>1. CASE Edit
  BY <1>1 DEF Edit, SettledInv
<1>2. CASE Run
  BY <1>2, SettledStays DEF Run
<1>3. CASE Resolve
  BY <1>3, SettledStays DEF Resolve
<1>4. CASE loadAPIDocument
  BY <1>4, SettledStays DEF loadAPIDocument
<1>5. CASE selectNativeSymbols
  BY <1>5, SettledStays DEF selectNativeSymbols
<1>6. CASE Render
  BY <1>6, RenderSettles
<1>7. CASE UNCHANGED vars
  BY <1>7, SettledStays DEF vars
<1> QED
  BY <1>1, <1>2, <1>3, <1>4, <1>5, <1>6, <1>7 DEF Next

\* Every reachable state of the generator has the invariant: what it has read is
\* what the documents hold (loadAPIDocument), what it selected is in order
\* (selectNativeSymbols), and its last success would be repeated (run).
THEOREM GeneratorInvariant == Spec => []GeneratorInv
<1>1. GeneratorInv /\ [Next]_vars => GeneratorInv'
  BY TypeStays, RunStays, SettledKept DEF GeneratorInv
<1> QED
  BY <1>1, InitGeneratorInv, PTL DEF Spec

--------------------------------------------------------------------------------
(* The binding and its sources.                                             *)

\* The directory a config means is the one it is resolved to.
LEMMA MeantIsResolved ==
  ASSUME NEW c \in Configs, resolveAPIPath(c.requested) # None
  PROVE  Meant(c) = resolveAPIPath(c.requested)
<1> DEFINE p == resolveAPIPath(c.requested)
           n == Len(Candidates)
           I == {i \in 1 .. n : Present(Candidates[i])}
           First(i) == Present(Candidates[i]) /\ \A j \in 1 .. i - 1 : ~ Present(Candidates[j])
<1>1. /\ n \in Nat /\ DOMAIN Candidates = 1 .. n
      /\ \A i \in 1 .. n : Candidates[i] \in Directory
  BY GeneratorAssumption
<1>2. CASE c.requested # "auto"
  BY <1>2 DEF Meant, resolveAPIPath, existingPath
<1>3. CASE c.requested = "auto" /\ env # None
  BY <1>3 DEF Meant, resolveAPIPath, existingPath
<1>4. CASE c.requested = "auto" /\ env = None
  <2>1. I # {} /\ p = Candidates[Min(I)]
    BY <1>4 DEF resolveAPIPath, SelectInSeq
  <2>2. I \in SUBSET Nat
    OBVIOUS
  <2>3. Min(I) \in I /\ \A j \in I : Min(I) <= j
    <3> HIDE DEF I
    <3> QED
      BY <2>1, <2>2, LeastNumber
  <2> DEFINE m == Min(I)
  <2>4. m \in 1 .. n /\ Present(Candidates[m]) /\ \A j \in 1 .. n : Present(Candidates[j]) => m <= j
    BY <2>3
  <2> HIDE DEF m, n
  <2>5. First(m)
    <3>1. \A j \in 1 .. m - 1 : j \in 1 .. n /\ ~ (m <= j)
      BY <1>1, <2>4
    <3> QED
      BY <2>4, <3>1
  <2>6. ASSUME NEW i \in 1 .. n, First(i) PROVE i = m
    <3>1. m <= i
      BY <2>4, <2>6
    <3>2. ~ (m < i)
      <4> SUFFICES ASSUME m < i PROVE FALSE
        OBVIOUS
      <4>1. m \in 1 .. i - 1
        BY <1>1, <2>4
      <4> QED
        BY <2>4, <2>6, <4>1
    <3> QED
      BY <1>1, <2>4, <3>1, <3>2
  <2>7. Meant(c) = CHOOSE d \in Directory : \E i \in 1 .. n : Candidates[i] = d /\ First(i)
    <3>1. \A d \in Directory :
            (\E i \in DOMAIN Candidates :
               Candidates[i] = d /\ Present(d) /\ \A j \in 1 .. i - 1 : ~ Present(Candidates[j]))
            <=> \E i \in 1 .. n : Candidates[i] = d /\ First(i)
      BY <1>1
    <3> QED
      BY <1>4, <3>1 DEF Meant
  <2> HIDE DEF First
  <2>8. Meant(c) = Candidates[m]
    BY <1>1, <2>4, <2>5, <2>6, <2>7
  <2> QED
    BY <2>1, <2>8 DEF m
<1> QED
  BY <1>2, <1>3, <1>4

\* What a list made from a set in order holds, each element once.
LEMMA InOrderHolds ==
  ASSUME NEW S, IsFiniteSet(S), S \subseteq Nat
  PROVE  /\ DOMAIN InOrder(S) = 1 .. Cardinality(S)
         /\ Range(InOrder(S)) = S
         /\ \A i, j \in 1 .. Cardinality(S) : i # j => InOrder(S)[i] # InOrder(S)[j]
<1> DEFINE n == Cardinality(S)
           s == InOrder(S)
<1>1. /\ n \in Nat
      /\ \A i \in 1 .. n : s[i] \in S
      /\ \A x \in S : \E i \in 1 .. n : s[i] = x
      /\ \A i, j \in 1 .. n : i < j => s[i] < s[j]
  BY InOrderPlaces
<1>2. DOMAIN s = 1 .. n
  BY DEF InOrder
<1> HIDE DEF n, s
<1>3. ASSUME NEW i \in 1 .. n, NEW j \in 1 .. n, i # j PROVE s[i] # s[j]
  <2>1. i < j \/ j < i
    BY <1>1, <1>3
  <2>2. s[i] \in Nat /\ s[j] \in Nat
    BY <1>1
  <2> QED
    BY <1>1, <2>1, <2>2
<1>4. Range(s) = S
  BY <1>1, <1>2 DEF Range
<1> QED
  BY <1>2, <1>3, <1>4 DEF n, s

\* The functions of a binding are those wanted, each in its own library, and
\* each once.
LEMMA BoundFunctions ==
  ASSUME NEW D \in DocumentSets, Readable(D, LibraryCount),
         NEW W, IsFiniteSet(W), W \subseteq NamesIn(D, LibraryCount), W \subseteq Nat
  PROVE  LET s == Binding(D, W).functions IN
         /\ Range(s) =
              {f \in [name : W, library : DOMAIN D] : f.name \in Range(D[f.library].functions)}
         /\ {f.name : f \in Range(s)} = W
         /\ \A i, j \in DOMAIN s : i # j => s[i].name # s[j].name
<1> DEFINE n == Cardinality(W)
           s == Binding(D, W).functions
           F == {f \in [name : W, library : DOMAIN D] : f.name \in Range(D[f.library].functions)}
<1>1. /\ DOMAIN InOrder(W) = 1 .. n /\ Range(InOrder(W)) = W
      /\ \A i, j \in 1 .. n : i # j => InOrder(W)[i] # InOrder(W)[j]
  BY InOrderHolds
<1>2. DOMAIN s = 1 .. n /\ \A i \in 1 .. n : s[i] = FunctionOf(D, InOrder(W)[i])
  BY DEF Binding
<1>3. \A x \in W :
        /\ FunctionOf(D, x) \in FunctionsIn(D, LibraryCount) /\ FunctionOf(D, x).name = x
        /\ \A g \in FunctionsIn(D, LibraryCount) : g.name = x => g = FunctionOf(D, x)
  BY FunctionOfName
<1> HIDE DEF s, n
<1>4. \A i \in 1 .. n : InOrder(W)[i] \in W
  BY <1>1 DEF Range
<1>5. Range(s) = {FunctionOf(D, x) : x \in W}
  <2>1. \A x \in W : \E i \in 1 .. n : InOrder(W)[i] = x
    BY <1>1 DEF Range
  <2>2. Range(s) = {s[i] : i \in 1 .. n}
    BY <1>2 DEF Range
  <2>3. \A x \in W : \E i \in 1 .. n : s[i] = FunctionOf(D, x)
    BY <1>2, <2>1
  <2>4. \A i \in 1 .. n : \E x \in W : s[i] = FunctionOf(D, x)
    BY <1>2, <1>4
  <2> QED
    BY <2>2, <2>3, <2>4
<1>6. \A x \in W : FunctionOf(D, x) \in F
  <2> SUFFICES ASSUME NEW x \in W PROVE FunctionOf(D, x) \in F
    OBVIOUS
  <2>1. FunctionOf(D, x) \in FunctionRecord /\ FunctionOf(D, x).name = x
    BY <1>3 DEF FunctionsIn
  <2>2. PICK j \in 1 .. LibraryCount :
          /\ FunctionOf(D, x).library = Libraries[j]
          /\ FunctionOf(D, x).name \in Range(D[Libraries[j]].functions)
    BY <1>3 DEF FunctionsIn
  <2>3. FunctionOf(D, x) \in [name : W, library : DOMAIN D]
    BY <2>1, AllDocuments DEF FunctionRecord
  <2> QED
    BY <2>2, <2>3
<1>7. ASSUME NEW f \in F PROVE f = FunctionOf(D, f.name) /\ f.name \in W
  <2>1. /\ f \in [name : W, library : Range(Libraries)]
        /\ f.name \in Range(D[f.library].functions)
    BY AllDocuments
  <2>2. f \in FunctionRecord
    BY <2>1 DEF FunctionRecord
  <2>3. PICK j \in 1 .. LibraryCount : f.library = Libraries[j]
    BY <2>1, LibraryFacts
  <2>4. f \in FunctionsIn(D, LibraryCount)
    BY <2>1, <2>2, <2>3 DEF FunctionsIn
  <2> QED
    BY <1>3, <2>1, <2>4
<1>8. Range(s) = F
  BY <1>5, <1>6, <1>7
<1>9. {f.name : f \in Range(s)} = W
  BY <1>3, <1>5
<1>10. \A i, j \in 1 .. n : i # j => s[i].name # s[j].name
  <2>1. \A i \in 1 .. n : s[i].name = InOrder(W)[i]
    BY <1>2, <1>3, <1>4
  <2> QED
    BY <1>1, <2>1
<1> QED
  BY <1>2, <1>8, <1>9, <1>10 DEF s

\* The macros of a binding are those with a value, and each once.
LEMMA BoundMacros ==
  ASSUME NEW D \in DocumentSets, Readable(D, LibraryCount), ~ Conflicting(ValueMacros(D))
  PROVE  LET s == InNameOrder(ValueMacros(D)) IN
         /\ Range(s) = ValueMacros(D)
         /\ \A i, j \in DOMAIN s : i # j => s[i].name # s[j].name
<1> DEFINE M == ValueMacros(D)
           s == InNameOrder(M)
           n == Cardinality(M)
<1>1. M \in SUBSET MacrosIn(D, LibraryCount)
  BY DEF ValueMacros
<1>2. IsFiniteSet(M) /\ M \subseteq apiMacro
  BY <1>1, DocumentsAreFinite, FS_Subset
<1> HIDE DEF M
<1>3. \A m \in M : m.name \in Nat
  BY <1>2 DEF apiMacro
<1>4. \A m, k \in M : m.name = k.name => m = k
  BY <1>2 DEF Conflicting, apiMacro, M
<1>5. /\ DOMAIN s = 1 .. n
      /\ \A i \in 1 .. n : s[i] \in M
      /\ \A m \in M : \E i \in 1 .. n : s[i] = m
      /\ \A i, j \in 1 .. n : i # j => s[i].name # s[j].name
  BY <1>2, <1>3, <1>4, NameOrder
<1> HIDE DEF s, n
<1>6. Range(s) = M
  BY <1>5 DEF Range
<1> QED
  BY <1>5, <1>6 DEF s, M

\* The binding is made of the documents its options mean and of the functions
\* they want, every function is bound in the library whose document has it, and
\* every name is declared once (renderGenerated, discoverNativeSymbols).
THEOREM OutputFromSources == Spec => []OutputFollowsItsSources
<1>1. GeneratorInv => OutputFollowsItsSources
  <2> SUFFICES ASSUME TypeInv, SettledInv, settled # None PROVE OutputFollowsItsSources
    BY DEF GeneratorInv, OutputFollowsItsSources
  <2> DEFINE D == DocsOf(settled)
             W == Wanted(settled, D)
             E == EnumsIn(D, LibraryCount)
  <2>1. /\ settled \in Configs /\ resolveAPIPath(settled.requested) # None
        /\ Readable(D, LibraryCount) /\ IsFiniteSet(W) /\ W \subseteq Nat
        /\ CanRender(D, W) /\ output = Binding(D, W)
    BY DEF SettledInv, Selects
  <2>2. docs[Meant(settled)] = D /\ D \in DocumentSets
    BY <2>1, MeantIsResolved, ResolvedDirectory DEF DocsOf
  <2> HIDE DEF D, W
  <2>3. W \subseteq NamesIn(D, LibraryCount) /\ ~ Conflicting(ValueMacros(D))
    BY <2>1 DEF CanRender
  <2>4. /\ Range(output.functions) =
             {f \in [name : W, library : DOMAIN D] : f.name \in Range(D[f.library].functions)}
        /\ {f.name : f \in Range(output.functions)} = W
        /\ \A i, j \in DOMAIN output.functions :
             i # j => output.functions[i].name # output.functions[j].name
    <3> DEFINE s == Binding(D, W).functions
    <3>1. /\ Range(s) =
               {f \in [name : W, library : DOMAIN D] : f.name \in Range(D[f.library].functions)}
          /\ {f.name : f \in Range(s)} = W
          /\ \A i, j \in DOMAIN s : i # j => s[i].name # s[j].name
      <4>1. /\ D \in DocumentSets /\ Readable(D, LibraryCount)
            /\ IsFiniteSet(W) /\ W \subseteq NamesIn(D, LibraryCount) /\ W \subseteq Nat
        BY <2>1, <2>2, <2>3
      <4> QED
        BY <4>1, BoundFunctions, Zenon
    <3>2. output.functions = s
      BY <2>1
    <3> HIDE DEF s
    <3> QED
      BY <3>1, <3>2
  <2>5. output.hash = D /\ output.enums = InOrder(E) /\ output.macros = InNameOrder(ValueMacros(D))
    BY <2>1 DEF Binding
  <2>6. /\ Range(output.enums) = UNION {Range(D[l].enums) : l \in DOMAIN D}
        /\ \A i, j \in DOMAIN output.enums : i # j => output.enums[i] # output.enums[j]
    <3>1. IsFiniteSet(E) /\ E \subseteq Nat
      BY <2>1, <2>2, DocumentsAreFinite
    <3>2. UNION {Range(D[l].enums) : l \in DOMAIN D} = E
      BY <2>2, AllDocuments
    <3> HIDE DEF E
    <3> QED
      <4>1. /\ DOMAIN InOrder(E) = 1 .. Cardinality(E) /\ Range(InOrder(E)) = E
            /\ \A i, j \in 1 .. Cardinality(E) : i # j => InOrder(E)[i] # InOrder(E)[j]
        BY <3>1, InOrderHolds
      <4> QED
        BY <2>5, <3>2, <4>1, Zenon
  <2>7. /\ Range(output.macros) =
             {m \in UNION {Range(D[l].macros) : l \in DOMAIN D} : m.name \notin Private}
        /\ \A i, j \in DOMAIN output.macros : i # j => output.macros[i].name # output.macros[j].name
    <3>1. UNION {Range(D[l].macros) : l \in DOMAIN D} = MacrosIn(D, LibraryCount)
      BY <2>2, AllDocuments
    <3>2. /\ Range(output.macros) = ValueMacros(D)
          /\ \A i, j \in DOMAIN output.macros : i # j => output.macros[i].name # output.macros[j].name
      BY <2>1, <2>2, <2>3, <2>5, BoundMacros
    <3> QED
      BY <3>1, <3>2 DEF ValueMacros
  <2> QED
    BY <2>2, <2>4, <2>5, <2>6, <2>7 DEF OutputFollowsItsSources, EachNameOnce, W
<1> QED
  BY <1>1, GeneratorInvariant, PTL

\* A run that ends with an error, in whatever step, has not touched the output:
\* run() renders everything before it writes.
THEOREM ErrorsLeaveTheOutput == Spec => ErrorsChangeNothing
<1>1. [Next]_vars => [outcome' = "error" => output' = output]_vars
  <2> SUFFICES ASSUME Next PROVE outcome' = "error" => output' = output
    OBVIOUS
  <2>1. CASE Edit
    BY <2>1 DEF Edit
  <2>2. CASE Run
    BY <2>2 DEF Run
  <2>3. CASE Resolve
    BY <2>3 DEF Resolve
  <2>4. CASE loadAPIDocument
    BY <2>4 DEF loadAPIDocument
  <2>5. CASE selectNativeSymbols
    BY <2>5 DEF selectNativeSymbols
  <2>6. CASE Render
    BY <2>6 DEF Render
  <2> QED
    BY <2>1, <2>2, <2>3, <2>4, <2>5, <2>6 DEF Next
<1> QED
  BY <1>1, PTL DEF Spec, ErrorsChangeNothing

\* A document that could be read once can be read again, after those before it.
LEMMA StillAcceptable ==
  ASSUME TypeInv, RunInv, pc = "load", library <= LibraryCount,
         Readable(docs[path], LibraryCount)
  PROVE  Acceptable(docs[path][Libraries[library]])
<1> DEFINE n == library - 1
<1>1. /\ docs[path] \in DocumentSets /\ library \in 1 .. LibraryCount + 1
      /\ Readable(docs[path], n) /\ Combines(combined, docs[path], n)
  BY RunDirectory
<1>2. n \in Nat /\ n < LibraryCount /\ n + 1 = library /\ \A j \in 1 .. n + 1 : j \in 1 .. LibraryCount
  BY <1>1, LibraryFacts
<1>3. Readable(docs[path], n + 1)
  BY <1>2, Zenon DEF Readable
<1> QED
  BY <1>1, <1>2, <1>3, AcceptableIsReadable

\* With the sources as they were at the last success, the same options find the
\* file up to date: run() ends in no other way (renderGenerated, bytes.Equal).
THEOREM RepetitionIsQuiet == Spec => RepeatIsQuiet
<1> DEFINE Quiet == pc # "idle" /\ pc' = "idle" /\ config = settled => outcome' = "up to date"
<1>1. GeneratorInv /\ [Next]_vars => [Quiet]_vars
  <2> SUFFICES ASSUME TypeInv, RunInv, SettledInv, Next,
                      pc # "idle", pc' = "idle", config = settled
               PROVE  outcome' = "up to date"
    BY DEF GeneratorInv
  <2> DEFINE D == DocsOf(config)
             W == Wanted(config, D)
  <2>1. settled # None
    BY GeneratorAssumption DEF TypeInv
  <2>2. /\ resolveAPIPath(config.requested) # None
        /\ Readable(D, LibraryCount) /\ Selects(config)
        /\ CanRender(D, W) /\ output = Binding(D, W)
    BY <2>1 DEF SettledInv
  <2>3. pc \in {"load", "render"} => docs[path] = D
    BY RunDirectory
  <2>4. ~ Edit /\ ~ Run
    BY DEF Edit, Run
  <2>5. ~ Resolve
    BY <2>2 DEF Resolve
  <2>6. ~ loadAPIDocument
    <3> SUFFICES ASSUME loadAPIDocument PROVE FALSE
      OBVIOUS
    <3>1. pc = "load" /\ library <= LibraryCount
      BY DEF loadAPIDocument, LibraryCount
    <3>2. Acceptable(docs[path][Libraries[library]])
      BY <2>2, <2>3, <3>1, StillAcceptable
    <3> QED
      BY <3>1, <3>2 DEF loadAPIDocument
  <2>7. ~ selectNativeSymbols
    BY <2>2 DEF selectNativeSymbols, Selects
  <2>8. CASE Render
    <3>1. pc = "render"
      BY <2>8 DEF Render
    <3>2. Renderable /\ output = renderGenerated
      BY <2>2, <3>1, WhatIsRendered
    <3> QED
      BY <2>8, <3>2 DEF Render
  <2> QED
    BY <2>4, <2>5, <2>6, <2>7, <2>8 DEF Next
<1> QED
  BY <1>1, GeneratorInvariant, PTL DEF Spec, RepeatIsQuiet

================================================================================
