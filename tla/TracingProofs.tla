--------------------------- MODULE TracingProofs ---------------------------
(***************************************************************************)
(* What the checks of an installed tree promise, for every tree and every  *)
(* allow list, and for every order in which a process loads what is in it; *)
(* and that errors reach the agent on the spans they belong to, for any    *)
(* nesting of spans, of calls of sendError() and of asynchronous work.     *)
(***************************************************************************)
EXTENDS Tracing, FiniteSetTheorems, WellFoundedInduction, TLAPS

\* A set with less than two elements has one at most.
LEMMA AtMostOne ==
  ASSUME NEW S, IsFiniteSet(S), Cardinality(S) < 2, NEW a \in S, NEW b \in S
  PROVE  a = b
<1> SUFFICES ASSUME a # b PROVE FALSE
  OBVIOUS
<1>1. IsFiniteSet({a}) /\ Cardinality({a}) = 1
  BY FS_Singleton
<1>2. IsFiniteSet({a} \cup {b}) /\ Cardinality({a} \cup {b}) = 2
  BY <1>1, FS_AddElement
<1>3. Cardinality({a} \cup {b}) <= Cardinality(S)
  BY FS_Subset
<1>4. Cardinality(S) \in Nat
  BY FS_CardinalityType
<1> QED
  BY <1>2, <1>3, <1>4

LEMMA ImageIsFinite ==
  ASSUME NEW S, IsFiniteSet(S), NEW f, DOMAIN f = S, f = [x \in S |-> f[x]]
  PROVE  IsFiniteSet({f[x] : x \in S})
<1> DEFINE T == {f[x] : x \in S}
<1>1. f \in Surjection(S, T)
  BY DEF Surjection
<1> QED
  BY <1>1, FS_Surjection

\* Of a tree, the copies of one package have finitely many versions.
LEMMA FiniteVersions ==
  ASSUME NEW packages \in Trees, NEW copies, copies \subseteq packages
  PROVE  /\ IsFiniteSet(Versions(copies))
         /\ IsFiniteSet({Minor(v) : v \in Versions(copies)})
<1>1. IsFiniteSet(copies)
  BY TreesAssumption, FS_Subset
<1>2. IsFiniteSet(Versions(copies))
  <2> DEFINE f == [p \in copies |-> p.version]
  <2>1. IsFiniteSet({f[p] : p \in copies})
    BY <1>1, ImageIsFinite
  <2>2. Versions(copies) = {f[p] : p \in copies}
    BY DEF Versions
  <2> QED
    BY <2>1, <2>2
<1>3. IsFiniteSet({Minor(v) : v \in Versions(copies)})
  <2> DEFINE S == Versions(copies)
             f == [v \in S |-> Minor(v)]
  <2>1. IsFiniteSet({f[v] : v \in S})
    BY <1>2, ImageIsFinite
  <2>2. {Minor(v) : v \in S} = {f[v] : v \in S}
    OBVIOUS
  <2> QED
    BY <2>1, <2>2
<1> QED
  BY <1>2, <1>3

-----------------------------------------------------------------------------
(* Duplicates of other packages                                            *)

\* Without aliases, a copy at the top of the tree has the version that is the
\* baseline.
LEMMA TopIsBaseline ==
  ASSUME NEW name, ~Aliased(name),
         NEW p \in findPackages(tree, name), causeOf(p) = None
  PROVE  p.version = Baseline(findPackages(tree, name))
<1> DEFINE copies == findPackages(tree, name)
           top == CHOOSE o \in copies : causeOf(o) = None
<1>1. top \in copies /\ causeOf(top) = None
  OBVIOUS
<1>2. Baseline(copies) = top.version
  BY DEF Baseline
<1> HIDE DEF top
<1> QED
  BY <1>1, <1>2 DEF Aliased

\* The check looks at every copy that is nested and is not of the baseline.
LEMMA OffBaselineAllowed ==
  ASSUME tree \in Trees, check(tree),
         NEW p \in tree, NEW q \in tree, Duplicated(p, q),
         NEW c \in {p, q}, causeOf(c) # None,
         c.version # Baseline(findPackages(tree, p.name))
  PROVE  IsAllowed(p) \/ IsAllowed(q)
<1> DEFINE copies == findPackages(tree, p.name)
<1>1. p \in copies /\ q \in copies /\ c.name = p.name /\ p.name \in OpenTelemetry \ {Api}
  BY DEF findPackages, Duplicated
<1>2. ~(Cardinality(Versions(copies)) < 2)
  <2>1. p.version \in Versions(copies) /\ q.version \in Versions(copies)
    BY <1>1 DEF Versions
  <2>2. IsFiniteSet(Versions(copies))
    BY FiniteVersions DEF findPackages
  <2> QED
    BY <2>1, <2>2, AtMostOne DEF Duplicated
<1>3. c \in findDuplicates(tree)
  <2>1. p.name \in Names(tree)
    BY <1>1 DEF Names
  <2>2. c \in copies
    BY <1>1
  <2> QED
    BY <1>2, <2>1, <2>2 DEF findDuplicates
<1>4. IsAllowed(c)
  BY <1>1, <1>3 DEF check, IsAllowed
<1> QED
  BY <1>4

LEMMA TwoVersionsAccounted ==
  ASSUME tree \in Trees, check(tree),
         NEW p \in tree, NEW q \in tree, Duplicated(p, q)
  PROVE  \/ IsAllowed(p) \/ IsAllowed(q)
         \/ None \in {causeOf(p), causeOf(q)} /\ Aliased(p.name)
<1> DEFINE copies == findPackages(tree, p.name)
<1>1. p \in copies /\ q \in copies /\ p.version # q.version
  BY DEF findPackages, Duplicated
<1>2. CASE causeOf(p) # None /\ causeOf(q) # None
  <2>1. PICK c \in {p, q} : c.version # Baseline(copies)
    BY <1>1
  <2> QED
    BY <1>2, <2>1, OffBaselineAllowed
<1>3. CASE None \in {causeOf(p), causeOf(q)} /\ ~Aliased(p.name)
  <2>1. PICK c \in {p, q} : c.version # Baseline(copies)
    BY <1>1
  <2>2. causeOf(c) # None
    BY <1>1, <1>3, <2>1, TopIsBaseline
  <2> QED
    BY <2>1, <2>2, OffBaselineAllowed
<1> QED
  BY <1>2, <1>3

-----------------------------------------------------------------------------
(* The copies of the API                                                   *)

\* In a tree that passes checkApi() all copies agree in what the API compares.
LEMMA SameMinor ==
  ASSUME NEW packages \in Trees, checkApi(packages),
         NEW p \in findPackages(packages, Api), NEW q \in findPackages(packages, Api)
  PROVE  p.version[1] = q.version[1] /\ p.version[2] = q.version[2]
<1> DEFINE copies == findPackages(packages, Api)
           minors == {Minor(v) : v \in Versions(copies)}
<1>1. Minor(p.version) \in minors /\ Minor(q.version) \in minors
  BY DEF Versions
<1>2. IsFiniteSet(minors)
  BY FiniteVersions DEF findPackages
<1>3. Cardinality(minors) < 2
  BY DEF checkApi
<1>4. Minor(p.version) = Minor(q.version)
  BY <1>1, <1>2, <1>3, AtMostOne
<1> QED
  BY <1>4 DEF Minor

\* What is loaded is installed, and the provider is that of a loaded copy.
ApiInv ==
  /\ tree \in Trees
  /\ loaded \subseteq findPackages(tree, Api)
  /\ registered # None => \E p \in loaded : registered = p.version
  /\ CheckedTreesReport

LEMMA NoDuplicates ==
  ASSUME ApiInv, checkApi(tree) PROVE ~Duplicates
<1> DEFINE minors == {Minor(v) : v \in Versions(findPackages(tree, Api))}
           mine == {Minor(v) : v \in Versions(loaded)}
<1>1. mine \subseteq minors
  BY DEF ApiInv, Versions
<1>2. IsFiniteSet(minors)
  BY FiniteVersions DEF ApiInv, findPackages
<1>3. Cardinality(minors) < 2
  BY DEF checkApi
<1>4. IsFiniteSet(mine) /\ Cardinality(mine) <= Cardinality(minors)
  BY <1>1, <1>2, FS_Subset
<1>5. Cardinality(mine) \in Nat /\ Cardinality(minors) \in Nat
  BY <1>2, <1>4, FS_CardinalityType
<1> QED
  BY <1>3, <1>4, <1>5 DEF Duplicates

\* Every loaded copy reads the provider of another.
LEMMA AllRead ==
  ASSUME ApiInv, checkApi(tree), registered # None, NEW p \in loaded
  PROVE  Reads(p.version)
<1>1. PICK q \in loaded : registered = q.version
  BY DEF ApiInv
<1>2. p.version[1] = q.version[1] /\ p.version[2] = q.version[2]
  BY SameMinor DEF ApiInv
<1>3. p.version \in Nat \X Nat \X Nat
  BY TreesAssumption DEF ApiInv, findPackages
<1> QED
  BY <1>1, <1>2, <1>3 DEF Reads

LEMMA ApiStep == ApiInv /\ [Next]_vars => ApiInv'
<1> SUFFICES ASSUME ApiInv, [Next]_vars PROVE ApiInv'
  OBVIOUS
<1>1. ASSUME NEW p \in findPackages(tree, Api), Load(p) PROVE ApiInv'
  BY <1>1 DEF Load, ApiInv, CheckedTreesReport
<1>2. CASE Construct
  BY <1>2, NoDuplicates DEF Construct, ApiInv, CheckedTreesReport
<1>3. ASSUME NEW p \in findPackages(tree, Api), SpanDiscarded(p) PROVE ApiInv'
  BY <1>3, AllRead DEF SpanDiscarded, ApiInv, CheckedTreesReport
<1>4. CASE UNCHANGED apiVars
  BY <1>4 DEF apiVars, ApiInv, CheckedTreesReport
<1> QED
  BY <1>1, <1>2, <1>3, <1>4
     DEF Next, StartSpan, EndSpan, Resume, Leave, StartWork, setError,
         sendError, sendErrorDropped, Finally, vars

\* Whatever of a checked tree a process loads, in whatever order around the
\* construction of its clients, it discards no span and is not warned.
THEOREM CheckedTreesLoseNothing == Spec => []CheckedTreesReport
<1>1. Init => ApiInv
  BY DEF Init, ApiInv, CheckedTreesReport
<1>2. ApiInv => CheckedTreesReport
  BY DEF ApiInv
<1> QED
  BY <1>1, <1>2, ApiStep, PTL DEF Spec

\* In a tree that passes the check, of any two versions of an OpenTelemetry
\* package one is on the allow list with its cause, whatever else is installed;
\* but for packages of which aliases put two versions at the top of the tree.
THEOREM CheckAccountsForDuplicates == Spec => []DuplicatesAccounted
<1>1. Init => ApiInv
  BY DEF Init, ApiInv, CheckedTreesReport
<1>2. ApiInv => DuplicatesAccounted
  BY TwoVersionsAccounted DEF ApiInv, DuplicatesAccounted
<1> QED
  BY <1>1, <1>2, ApiStep, PTL DEF Spec

-----------------------------------------------------------------------------
(* The errors of a span: the recursive function of Filter                  *)

Increasing(q) == \A i, j \in DOMAIN q : i < j => q[i] < q[j]

\* A set of numbers that has zero, and the successor of each, has them all.
LEMMA Induction ==
  ASSUME NEW S \in SUBSET Nat, 0 \in S, \A n \in S : n + 1 \in S
  PROVE  S = Nat
<1>1. SUFFICES ASSUME Nat \ S # {} PROVE FALSE
  OBVIOUS
<1>2. PICK m \in Nat \ S : \A n \in Nat \ S : ~(<<n, m>> \in OpToRel(<, Nat))
  BY <1>1, NatLessThanWellFounded, WFMin
<1>3. \A n \in Nat \ S : ~(n < m)
  BY <1>2 DEF OpToRel
<1>4. m # 0 /\ m - 1 \in Nat
  OBVIOUS
<1>5. m - 1 \in S
  BY <1>3, <1>4
<1>6. (m - 1) + 1 \in S
  BY <1>5
<1> QED
  BY <1>6

\* F is what is kept of the first n of the errors.
IsFilter(F, errors, kept, n) ==
  F = [i \in 0..n |->
         IF i = 0 THEN <<>>
         ELSE IF errors[i] \in kept THEN Append(F[i - 1], errors[i])
         ELSE F[i - 1]]

LEMMA FiltersExist ==
  ASSUME NEW errors, NEW kept, NEW n \in Nat
  PROVE  \E F : IsFilter(F, errors, kept, n)
<1> DEFINE Next1(q, i) == IF errors[i] \in kept THEN Append(q, errors[i]) ELSE q
           S == {m \in Nat : \E F : IsFilter(F, errors, kept, m)}
<1>1. 0 \in S
  <2> DEFINE F == [m \in 0..0 |-> <<>>]
  <2>1. IsFilter(F, errors, kept, 0)
    BY DEF IsFilter
  <2> QED
    BY <2>1
<1>2. ASSUME NEW m \in S PROVE m + 1 \in S
  <2>1. PICK F : IsFilter(F, errors, kept, m)
    OBVIOUS
  <2> DEFINE G == [l \in 0..(m + 1) |->
                     IF l = m + 1 THEN Next1(F[m], m + 1) ELSE F[l]]
  <2>2. G = [l \in 0..(m + 1) |-> IF l = 0 THEN <<>> ELSE Next1(G[l - 1], l)]
    <3>1. ASSUME NEW l \in 0..(m + 1)
          PROVE  G[l] = IF l = 0 THEN <<>> ELSE Next1(G[l - 1], l)
      <4>1. CASE l = m + 1
        <5>1. G[l - 1] = F[m] /\ l # 0
          BY <4>1
        <5>2. G[l] = Next1(F[m], m + 1)
          BY <4>1
        <5> HIDE DEF G
        <5> QED
          BY <5>1, <5>2, <4>1
      <4>2. CASE l # m + 1
        <5>1. l \in 0..m
          BY <4>2
        <5>2. F[l] = IF l = 0 THEN <<>> ELSE Next1(F[l - 1], l)
          BY <5>1, <2>1 DEF IsFilter
        <5>3. G[l] = F[l] /\ (l # 0 => G[l - 1] = F[l - 1])
          BY <5>1
        <5> HIDE DEF G
        <5> QED
          BY <5>2, <5>3
      <4> QED
        BY <4>1, <4>2
    <3>2. G = [l \in 0..(m + 1) |-> G[l]]
      OBVIOUS
    <3> HIDE DEF G
    <3> QED
      BY <3>1, <3>2
  <2> HIDE DEF G
  <2>3. IsFilter(G, errors, kept, m + 1)
    BY <2>2 DEF IsFilter
  <2> QED
    BY <2>3
<1> HIDE DEF S
<1>3. S = Nat
  <2>1. S \in SUBSET Nat
    BY DEF S
  <2> QED
    BY <1>1, <1>2, <2>1, Induction
<1> QED
  BY <1>3 DEF S

\* One more at the end of what is in order.
LEMMA OneMore ==
  ASSUME NEW q \in Seq(Nat), Increasing(q), NEW x \in Nat, \A y \in ToSet(q) : y < x
  PROVE  /\ Append(q, x) \in Seq(Nat)
         /\ Increasing(Append(q, x))
         /\ ToSet(Append(q, x)) = ToSet(q) \cup {x}
<1> DEFINE longer == Append(q, x)
<1>1. /\ Len(q) \in Nat /\ DOMAIN q = 1..Len(q)
      /\ longer \in Seq(Nat)
      /\ DOMAIN longer = 1..(Len(q) + 1)
      /\ \A i \in 1..Len(q) : longer[i] = q[i]
      /\ longer[Len(q) + 1] = x
  OBVIOUS
<1> HIDE DEF longer
<1>2. \A i \in DOMAIN q : q[i] \in ToSet(q)
  BY DEF ToSet
<1>3. ASSUME NEW i \in DOMAIN longer, NEW j \in DOMAIN longer, i < j
      PROVE  longer[i] < longer[j]
  <2>1. i \in DOMAIN q /\ longer[i] = q[i]
    BY <1>1, <1>3
  <2>2. CASE j \in DOMAIN q
    BY <1>1, <1>3, <2>1, <2>2 DEF Increasing
  <2>3. CASE j = Len(q) + 1
    BY <1>1, <1>2, <2>1, <2>3
  <2> QED
    BY <1>1, <2>2, <2>3
<1>4. ToSet(longer) = ToSet(q) \cup {x}
  BY <1>1 DEF ToSet
<1> QED
  BY <1>1, <1>3, <1>4 DEF longer, Increasing

\* Filtering keeps the order, and of the errors those that are to be kept.
LEMMA Filtered ==
  ASSUME NEW errors \in Seq(Nat), Increasing(errors), NEW kept
  PROVE  /\ Filter(errors, kept) \in Seq(Nat)
         /\ Increasing(Filter(errors, kept))
         /\ ToSet(Filter(errors, kept)) = ToSet(errors) \cap kept
<1> DEFINE n == Len(errors)
           F == CHOOSE F : IsFilter(F, errors, kept, n)
           Part(i) == {errors[j] : j \in 1..i}
           Good(i) == /\ F[i] \in Seq(Nat) /\ Increasing(F[i])
                      /\ ToSet(F[i]) = Part(i) \cap kept
           S == {i \in Nat : i <= n => Good(i)}
<1>1. n \in Nat /\ DOMAIN errors = 1..n /\ \A i \in 1..n : errors[i] \in Nat
  OBVIOUS
<1>2. IsFilter(F, errors, kept, n)
  BY <1>1, FiltersExist
<1>3. Filter(errors, kept) = F[n]
  BY DEF IsFilter, Filter
<1> HIDE DEF F, n
<1>4. F[0] = <<>>
  BY <1>1, <1>2 DEF IsFilter
<1>5. 0 \in S
  <2>1. F[0] \in Seq(Nat) /\ Increasing(F[0])
    BY <1>4 DEF Increasing
  <2>2. ToSet(F[0]) = {} /\ Part(0) = {}
    BY <1>4 DEF ToSet
  <2> HIDE DEF Part
  <2> QED
    BY <2>1, <2>2
<1>6. ASSUME NEW i \in S PROVE i + 1 \in S
  <2> HIDE DEF Good
  <2>1. SUFFICES ASSUME i + 1 <= n PROVE Good(i + 1)
    BY <1>6
  <2>2. i \in Nat /\ i + 1 \in 1..n /\ i + 1 \in 0..n /\ (i + 1) - 1 = i
    BY <1>1, <1>6, <2>1
  <2>3. Good(i)
    BY <1>1, <1>6, <2>1, <2>2
  <2> USE DEF Good
  <2>4. F[i + 1] = IF errors[i + 1] \in kept THEN Append(F[i], errors[i + 1]) ELSE F[i]
    <3>1. F[i + 1] = IF i + 1 = 0 THEN <<>>
                     ELSE IF errors[i + 1] \in kept
                     THEN Append(F[(i + 1) - 1], errors[i + 1])
                     ELSE F[(i + 1) - 1]
      BY <2>2, <1>2, Zenon DEF IsFilter
    <3>2. i + 1 # 0
      BY <2>2
    <3> QED
      BY <2>2, <3>1, <3>2, Zenon
  <2>5. Part(i + 1) = Part(i) \cup {errors[i + 1]}
    BY <2>2
  <2>6. ASSUME NEW j \in 1..i PROVE errors[j] < errors[i + 1]
    <3>1. j \in DOMAIN errors /\ i + 1 \in DOMAIN errors /\ j < i + 1
      BY <1>1, <2>2
    <3> QED
      BY <3>1 DEF Increasing
  <2>7. errors[i + 1] \in Nat
    BY <1>1, <2>2
  <2>8. \A y \in ToSet(F[i]) : y < errors[i + 1]
    BY <2>3, <2>6
  <2> HIDE DEF Part
  <2>9. CASE errors[i + 1] \in kept
    BY <2>3, <2>4, <2>5, <2>7, <2>8, <2>9, OneMore
  <2>10. CASE errors[i + 1] \notin kept
    BY <2>3, <2>4, <2>5, <2>10
  <2> QED
    BY <2>9, <2>10
<1>7. n \in S
  <2> HIDE DEF S
  <2>1. S \in SUBSET Nat
    BY DEF S
  <2> QED
    BY <1>1, <1>5, <1>6, <2>1, Induction
<1>8. Part(n) = ToSet(errors)
  BY <1>1 DEF ToSet
<1> QED
  BY <1>1, <1>3, <1>7, <1>8

-----------------------------------------------------------------------------
(* Errors and spans                                                        *)

SpanRecords == [parent : Nat, kind : {"library", "sendError"}, open : BOOLEAN,
                errors : Seq(Nat)]

ErrorRecords == [sent : BOOLEAN, stacktrace : BOOLEAN, span : Nat]

Contexts == [span : Nat, kind : {"library", "sendError", "resumed"}]

TypeInv ==
  /\ spans \in Seq(SpanRecords)
  /\ thrown \in Seq(ErrorRecords)
  /\ stack \in Seq(Contexts)
  /\ agent \in Seq([span : Nat, errors : Seq(Nat)])

ErrorsOf(s) == {e \in DOMAIN thrown : thrown[e].span = s}

\* A span has the errors that were set on it or sent with it, in order.
ErrorsSet ==
  /\ \A s \in DOMAIN spans :
       Increasing(spans[s].errors) /\ ToSet(spans[s].errors) = ErrorsOf(s)
  /\ \A e \in DOMAIN thrown : thrown[e].span <= Len(spans)

\* Every context is of a span, and a span that an error is sent with is open
\* for as long as fn runs, and runs one fn.
ContextsInv ==
  /\ later \subseteq DOMAIN spans
  /\ \A i \in DOMAIN stack :
       /\ stack[i].span \in DOMAIN spans
       /\ stack[i].kind = "sendError" =>
            spans[stack[i].span].kind = "sendError" /\ spans[stack[i].span].open
  /\ \A i, j \in DOMAIN stack :
       stack[i].kind = "sendError" /\ stack[j].kind = "sendError"
         /\ stack[i].span = stack[j].span => i = j

\* What the agent was given has ended.
Reported ==
  /\ \A k \in DOMAIN agent : agent[k].span \in DOMAIN spans /\ ~spans[agent[k].span].open
  /\ ErrorsWhereTheyBelong

TraceInv == TypeInv /\ ErrorsSet /\ ContextsInv /\ Reported

LEMMA AppendIsLast ==
  ASSUME NEW S, NEW q \in Seq(S), NEW x \in S
  PROVE  /\ Append(q, x) \in Seq(S) /\ Len(q) \in Nat /\ DOMAIN q = 1..Len(q)
         /\ Len(Append(q, x)) = Len(q) + 1 /\ DOMAIN Append(q, x) = 1..(Len(q) + 1)
         /\ \A i \in DOMAIN q : Append(q, x)[i] = q[i]
         /\ Append(q, x)[Len(q) + 1] = x
OBVIOUS

LEMMA ExceptKeeps ==
  ASSUME NEW S, NEW q \in Seq(S), NEW i \in DOMAIN q, NEW x \in S
  PROVE  [q EXCEPT ![i] = x] \in Seq(S)
OBVIOUS

LEMMA SpanIsRecord ==
  ASSUME TypeInv, NEW s \in DOMAIN spans
  PROVE  spans[s] \in SpanRecords /\ spans[s].errors \in Seq(Nat)
<1>1. spans \in Seq(SpanRecords)
  BY DEF TypeInv
<1>2. spans[s] \in SpanRecords
  BY <1>1
<1> QED
  BY <1>2 DEF SpanRecords

LEMMA FrontKeeps ==
  ASSUME NEW S, NEW q \in Seq(S), q # <<>>
  PROVE  /\ Front(q) \in Seq(S) /\ Len(q) \in Nat \ {0} /\ DOMAIN q = 1..Len(q)
         /\ DOMAIN Front(q) = 1..(Len(q) - 1)
         /\ \A i \in DOMAIN Front(q) : i \in DOMAIN q /\ Front(q)[i] = q[i]
         /\ Last(q) = q[Len(q)] /\ Len(q) \in DOMAIN q
<1>1. Len(q) \in Nat \ {0} /\ DOMAIN q = 1..Len(q) /\ \A i \in 1..Len(q) : q[i] \in S
  OBVIOUS
<1>2. Front(q) = SubSeq(q, 1, Len(q) - 1)
  BY DEF Front
<1>3. SubSeq(q, 1, Len(q) - 1) = [i \in 1..(Len(q) - 1) |-> q[i]]
  BY <1>1
<1> QED
  BY <1>1, <1>2, <1>3 DEF Last

\* An error belongs to a span that has begun, or to none.
LEMMA ThrownSpans ==
  ASSUME TraceInv
  PROVE  \A e \in DOMAIN thrown : thrown[e].span \in Nat /\ thrown[e].span <= Len(spans)
<1>1. thrown \in Seq(ErrorRecords)
  BY DEF TraceInv, TypeInv
<1>2. \A e \in DOMAIN thrown : thrown[e] \in ErrorRecords
  BY <1>1
<1>3. \A e \in DOMAIN thrown : thrown[e].span \in Nat
  BY <1>2 DEF ErrorRecords
<1> QED
  BY <1>3 DEF TraceInv, ErrorsSet

\* An error more.
LEMMA Thrown ==
  ASSUME TypeInv, NEW sent \in BOOLEAN, NEW stacktrace \in BOOLEAN, NEW s \in Nat,
         Throw(sent, stacktrace, s)
  PROVE  /\ Len(thrown) \in Nat /\ DOMAIN thrown = 1..Len(thrown)
         /\ thrown' \in Seq(ErrorRecords) /\ DOMAIN thrown' = 1..(Len(thrown) + 1)
         /\ \A e \in DOMAIN thrown : e \in DOMAIN thrown' /\ thrown'[e] = thrown[e]
         /\ thrown'[Len(thrown) + 1].span = s
         /\ \A t : t = s => ErrorsOf(t)' = ErrorsOf(t) \cup {Len(thrown) + 1}
         /\ \A t : t # s => ErrorsOf(t)' = ErrorsOf(t)
         /\ \A t, e : e \in ErrorsOf(t) => e \in Nat /\ e < Len(thrown) + 1
<1> DEFINE error == [sent |-> sent, stacktrace |-> stacktrace, span |-> s]
<1>1. error \in ErrorRecords /\ error.span = s
  BY DEF ErrorRecords
<1>2. thrown' = Append(thrown, error)
  BY DEF Throw
<1> HIDE DEF error
<1>3. /\ Len(thrown) \in Nat /\ DOMAIN thrown = 1..Len(thrown)
      /\ thrown' \in Seq(ErrorRecords) /\ DOMAIN thrown' = 1..(Len(thrown) + 1)
      /\ \A e \in DOMAIN thrown : thrown'[e] = thrown[e]
      /\ thrown'[Len(thrown) + 1].span = s
  BY <1>1, <1>2, AppendIsLast DEF TypeInv
<1>4. \A e \in DOMAIN thrown' : e \in DOMAIN thrown \/ e = Len(thrown) + 1
  BY <1>3
<1>5. \A e \in DOMAIN thrown : e \in DOMAIN thrown' /\ e \in Nat /\ e < Len(thrown) + 1
  BY <1>3
<1>6. Len(thrown) + 1 \in DOMAIN thrown'
  BY <1>3
<1>7. /\ \A t : t = s => ErrorsOf(t)' = ErrorsOf(t) \cup {Len(thrown) + 1}
      /\ \A t : t # s => ErrorsOf(t)' = ErrorsOf(t)
  BY <1>3, <1>4, <1>5, <1>6, Zenon DEF ErrorsOf
<1>8. \A t, e : e \in ErrorsOf(t) => e \in Nat /\ e < Len(thrown) + 1
  BY <1>5 DEF ErrorsOf
<1> QED
  BY <1>3, <1>5, <1>7, <1>8

\* It belongs to no other span.
LEMMA ThrownOthers ==
  ASSUME TypeInv, NEW sent \in BOOLEAN, NEW stacktrace \in BOOLEAN, NEW s \in Nat,
         Throw(sent, stacktrace, s)
  PROVE  \A t : t # s => ErrorsOf(t)' = ErrorsOf(t)
BY Thrown

\* What was reported stays right: its span has ended, and no error is added to
\* one that has.
LEMMA ReportedKept ==
  ASSUME TraceInv, agent' = agent,
         \A s \in DOMAIN spans : s \in DOMAIN spans' /\ (~spans[s].open => ~spans'[s].open),
         \A e \in DOMAIN thrown : e \in DOMAIN thrown' /\ thrown'[e] = thrown[e],
         \A e \in DOMAIN thrown' \ DOMAIN thrown, s \in DOMAIN spans :
           thrown'[e].span = s => spans[s].open
  PROVE  Reported'
<1>1. ASSUME NEW k \in DOMAIN agent
      PROVE  {e \in DOMAIN thrown' : thrown'[e].span = agent[k].span /\ thrown'[e].stacktrace}
               = {e \in DOMAIN thrown : thrown[e].span = agent[k].span /\ thrown[e].stacktrace}
  BY DEF TraceInv, Reported
<1>2. \A k \in DOMAIN agent :
        ToSet(agent[k].errors) =
          {e \in DOMAIN thrown' : thrown'[e].span = agent[k].span /\ thrown'[e].stacktrace}
  BY <1>1 DEF TraceInv, Reported, ErrorsWhereTheyBelong
<1>3. ErrorsWhereTheyBelong'
  BY <1>2, Zenon DEF TraceInv, Reported, ErrorsWhereTheyBelong
<1> QED
  BY <1>3 DEF TraceInv, Reported

\* A span begins, with its code in it.
LEMMA Begun ==
  ASSUME TraceInv, NEW parent \in Nat, NEW kind \in {"library", "sendError"},
         NEW errors \in Seq(Nat), Begin(parent, kind, errors)
  PROVE  /\ Len(spans) \in Nat /\ DOMAIN spans = 1..Len(spans)
         /\ spans' \in Seq(SpanRecords) /\ stack' \in Seq(Contexts)
         /\ Len(spans') = Len(spans) + 1 /\ DOMAIN spans' = 1..(Len(spans) + 1)
         /\ \A s \in DOMAIN spans : s \in DOMAIN spans' /\ spans'[s] = spans[s]
         /\ spans'[Len(spans) + 1].errors = errors
         /\ (later' = later => ContextsInv')
<1> DEFINE span == [parent |-> parent, kind |-> kind, open |-> TRUE, errors |-> errors]
           context == [span |-> Len(spans) + 1, kind |-> kind]
           m == Len(spans) + 1
<1>1. /\ span \in SpanRecords /\ span.kind = kind /\ span.open /\ span.errors = errors
  BY DEF SpanRecords
<1>2. Len(spans) \in Nat
  BY DEF TraceInv, TypeInv
<1>3. context \in Contexts /\ context.span = m /\ context.kind = kind
  BY <1>2 DEF Contexts
<1>4. spans' = Append(spans, span) /\ stack' = Append(stack, context)
  BY DEF Begin
<1> HIDE DEF span, context
<1>5. /\ Len(spans) \in Nat /\ DOMAIN spans = 1..Len(spans)
      /\ spans' \in Seq(SpanRecords)
      /\ Len(spans') = Len(spans) + 1 /\ DOMAIN spans' = 1..(Len(spans) + 1)
      /\ \A s \in DOMAIN spans : spans'[s] = spans[s]
      /\ spans'[Len(spans) + 1] = span
  BY <1>1, <1>4, AppendIsLast DEF TraceInv, TypeInv
<1>6. /\ Len(stack) \in Nat /\ DOMAIN stack = 1..Len(stack)
      /\ stack' \in Seq(Contexts) /\ DOMAIN stack' = 1..(Len(stack) + 1)
      /\ \A i \in DOMAIN stack : stack'[i] = stack[i]
      /\ stack'[Len(stack) + 1] = context
  BY <1>3, <1>4, AppendIsLast DEF TraceInv, TypeInv
<1>7. /\ \A s \in DOMAIN spans : s \in DOMAIN spans' /\ s # m
      /\ m \in DOMAIN spans'
  BY <1>5
<1>8. \A i \in DOMAIN stack' : i \in DOMAIN stack \/ i = Len(stack) + 1
  BY <1>6
<1> HIDE DEF m
<1>9. ASSUME later' = later PROVE ContextsInv'
  <2>1. later' \subseteq DOMAIN spans'
    BY <1>7, <1>9 DEF TraceInv, ContextsInv
  <2>2. ASSUME NEW i \in DOMAIN stack'
        PROVE  /\ stack'[i].span \in DOMAIN spans'
               /\ stack'[i].kind = "sendError" =>
                    spans'[stack'[i].span].kind = "sendError" /\ spans'[stack'[i].span].open
    <3>1. CASE i \in DOMAIN stack
      BY <1>5, <1>6, <1>7, <3>1 DEF TraceInv, ContextsInv
    <3>2. CASE i = Len(stack) + 1
      BY <1>1, <1>3, <1>5, <1>6, <1>7, <3>2 DEF m
    <3> QED
      BY <1>8, <3>1, <3>2
  <2>3. ASSUME NEW i \in DOMAIN stack', NEW j \in DOMAIN stack',
               stack'[i].kind = "sendError", stack'[j].kind = "sendError",
               stack'[i].span = stack'[j].span
        PROVE  i = j
    <3>1. \A h \in DOMAIN stack : stack'[h].span # m
      BY <1>6, <1>7 DEF TraceInv, ContextsInv
    <3>2. CASE i \in DOMAIN stack /\ j \in DOMAIN stack
      BY <1>6, <2>3, <3>2 DEF TraceInv, ContextsInv
    <3> QED
      BY <1>3, <1>6, <1>8, <2>3, <3>1, <3>2
  <2> QED
    BY <2>1, <2>2, <2>3 DEF ContextsInv
<1> QED
  BY <1>1, <1>5, <1>6, <1>7, <1>9

-----------------------------------------------------------------------------
(* The steps                                                               *)

LEMMA ActiveSpan ==
  ASSUME TraceInv
  PROVE  Active = 0 \/ Active \in DOMAIN spans
<1>1. CASE stack = <<>>
  BY <1>1 DEF Active
<1>2. CASE stack # <<>>
  <2>1. Last(stack) = stack[Len(stack)] /\ Len(stack) \in DOMAIN stack
    BY <1>2, FrontKeeps DEF TraceInv, TypeInv
  <2> QED
    BY <1>2, <2>1 DEF Active, TraceInv, ContextsInv
<1> QED
  BY <1>1, <1>2

LEMMA StartSpanKeeps ==
  ASSUME TraceInv, NEW p, StartSpan(p) PROVE TraceInv'
<1>1. Active \in Nat
  BY ActiveSpan DEF TraceInv, TypeInv
<1>2. Begin(Active, "library", <<>>) /\ UNCHANGED <<later, thrown, agent>>
  BY DEF StartSpan
<1> DEFINE none == <<>>
<1>3. none \in Seq(Nat) /\ Increasing(none) /\ ToSet(none) = {}
  BY DEF Increasing, ToSet
<1>4. /\ Len(spans) \in Nat /\ DOMAIN spans = 1..Len(spans)
      /\ spans' \in Seq(SpanRecords) /\ stack' \in Seq(Contexts)
      /\ Len(spans') = Len(spans) + 1 /\ DOMAIN spans' = 1..(Len(spans) + 1)
      /\ \A s \in DOMAIN spans : s \in DOMAIN spans' /\ spans'[s] = spans[s]
      /\ spans'[Len(spans) + 1].errors = none
      /\ ContextsInv'
  BY <1>1, <1>2, <1>3, Begun
<1> HIDE DEF none
<1>5. TypeInv'
  BY <1>2, <1>4 DEF TraceInv, TypeInv
<1>6. ErrorsSet'
  <2>1. \A e \in DOMAIN thrown : thrown[e].span \in Nat /\ thrown[e].span <= Len(spans)
    BY ThrownSpans
  <2>2. \A s : ErrorsOf(s)' = ErrorsOf(s)
    BY <1>2 DEF ErrorsOf
  <2>3. ErrorsOf(Len(spans) + 1) = {}
    BY <1>4, <2>1 DEF ErrorsOf
  <2>4. ASSUME NEW s \in DOMAIN spans'
        PROVE  Increasing(spans'[s].errors) /\ ToSet(spans'[s].errors) = ErrorsOf(s)
    <3>1. CASE s \in DOMAIN spans
      BY <1>4, <3>1 DEF TraceInv, ErrorsSet
    <3>2. CASE s = Len(spans) + 1
      BY <1>3, <1>4, <2>3, <3>2
    <3> QED
      BY <1>4, <3>1, <3>2
  <2>5. \A e \in DOMAIN thrown' : thrown'[e].span <= Len(spans')
    BY <1>2, <1>4, <2>1
  <2> QED
    BY <2>2, <2>4, <2>5 DEF ErrorsSet
<1>7. Reported'
  BY <1>2, <1>4, ReportedKept
<1> QED
  BY <1>4, <1>5, <1>6, <1>7 DEF TraceInv

LEMMA SendErrorKeeps ==
  ASSUME TraceInv, NEW stacktrace \in BOOLEAN, sendError(stacktrace) PROVE TraceInv'
<1> DEFINE m == Len(spans) + 1
           e == Len(thrown) + 1
           one == <<e>>
<1>1. /\ Throw(TRUE, stacktrace, m) /\ Begin(0, "sendError", one)
      /\ UNCHANGED <<later, agent>>
  BY DEF sendError
<1>2. m \in Nat /\ e \in Nat
  BY DEF TraceInv, TypeInv
<1>3. one \in Seq(Nat) /\ Increasing(one) /\ ToSet(one) = {e}
  BY <1>2 DEF Increasing, ToSet
<1>4. /\ Len(thrown) \in Nat /\ DOMAIN thrown = 1..Len(thrown)
      /\ thrown' \in Seq(ErrorRecords) /\ DOMAIN thrown' = 1..e
      /\ \A x \in DOMAIN thrown : x \in DOMAIN thrown' /\ thrown'[x] = thrown[x]
      /\ thrown'[e].span = m
      /\ \A t : t = m => ErrorsOf(t)' = ErrorsOf(t) \cup {e}
      /\ \A t : t # m => ErrorsOf(t)' = ErrorsOf(t)
  <2>1. TypeInv /\ TRUE \in BOOLEAN /\ stacktrace \in BOOLEAN
    BY DEF TraceInv
  <2>2. Throw(TRUE, stacktrace, m) /\ m \in Nat
    BY <1>1, <1>2
  <2> HIDE DEF m
  <2>3. /\ Len(thrown) \in Nat /\ DOMAIN thrown = 1..Len(thrown)
        /\ thrown' \in Seq(ErrorRecords) /\ DOMAIN thrown' = 1..(Len(thrown) + 1)
    BY <2>1, <2>2, Thrown, Zenon
  <2>4. \A x \in DOMAIN thrown : x \in DOMAIN thrown' /\ thrown'[x] = thrown[x]
    BY <2>1, <2>2, Thrown, Zenon
  <2>5. thrown'[Len(thrown) + 1].span = m
    BY <2>1, <2>2, Thrown, Zenon
  <2>6. \A t : t = m => ErrorsOf(t)' = ErrorsOf(t) \cup {Len(thrown) + 1}
    BY <2>1, <2>2, Thrown, Zenon
  <2>7. \A t : t # m => ErrorsOf(t)' = ErrorsOf(t)
    BY <2>1, <2>2, ThrownOthers, Zenon
  <2> QED
    BY <2>3, <2>4, <2>5, <2>6, <2>7, Zenon
<1> HIDE DEF one
<1>5. /\ Len(spans) \in Nat /\ DOMAIN spans = 1..Len(spans)
      /\ spans' \in Seq(SpanRecords) /\ stack' \in Seq(Contexts)
      /\ Len(spans') = m /\ DOMAIN spans' = 1..m
      /\ \A s \in DOMAIN spans : s \in DOMAIN spans' /\ spans'[s] = spans[s]
      /\ spans'[m].errors = one
      /\ ContextsInv'
  BY <1>1, <1>3, Begun
<1>6. TypeInv'
  BY <1>1, <1>4, <1>5 DEF TraceInv, TypeInv
<1>7. m \notin DOMAIN spans /\ \A s \in DOMAIN spans' : s \in DOMAIN spans \/ s = m
  BY <1>5
<1>8. \A x \in DOMAIN thrown : thrown[x].span \in Nat /\ thrown[x].span <= Len(spans)
  BY ThrownSpans
<1>9. \A x \in DOMAIN thrown' : x \in DOMAIN thrown \/ x = e
  BY <1>4
<1>10. ErrorsSet'
  <2>1. ErrorsOf(m) = {}
    BY <1>5, <1>8 DEF ErrorsOf
  <2>2. \A x \in DOMAIN thrown' : thrown'[x].span <= Len(spans')
    BY <1>4, <1>5, <1>8, <1>9
  <2> HIDE DEF m, e
  <2>3. ASSUME NEW s \in DOMAIN spans'
        PROVE  Increasing(spans'[s].errors) /\ ToSet(spans'[s].errors) = ErrorsOf(s)'
    <3>1. CASE s \in DOMAIN spans
      BY <1>4, <1>5, <1>7, <3>1 DEF TraceInv, ErrorsSet
    <3>2. CASE s = m
      BY <1>3, <1>4, <1>5, <2>1, <3>2
    <3> QED
      BY <1>7, <3>1, <3>2
  <2> QED
    BY <2>2, <2>3 DEF ErrorsSet
<1> HIDE DEF m, e
<1>11. Reported'
  BY <1>1, <1>4, <1>5, <1>7, <1>9, ReportedKept
<1> QED
  BY <1>5, <1>6, <1>10, <1>11 DEF TraceInv

\* An error is set on a span that is open, and is the latest of it.
LEMMA SetOnOpen ==
  ASSUME TraceInv, NEW stacktrace \in BOOLEAN, NEW a \in DOMAIN spans, spans[a].open,
         Throw(FALSE, stacktrace, a),
         spans' = [spans EXCEPT ![a].errors = Append(@, Len(thrown) + 1)],
         UNCHANGED <<stack, later, agent>>
  PROVE  TraceInv'
<1> DEFINE e == Len(thrown) + 1
           longer == Append(spans[a].errors, e)
<1>1. TypeInv /\ FALSE \in BOOLEAN /\ spans \in Seq(SpanRecords) /\ a \in Nat
  BY DEF TraceInv, TypeInv
<1>2. /\ Len(thrown) \in Nat /\ DOMAIN thrown = 1..Len(thrown)
      /\ thrown' \in Seq(ErrorRecords) /\ DOMAIN thrown' = 1..(Len(thrown) + 1)
  BY <1>1, Thrown, Zenon
<1>3. \A x \in DOMAIN thrown : x \in DOMAIN thrown' /\ thrown'[x] = thrown[x]
  BY <1>1, Thrown, Zenon
<1>4. thrown'[e].span = a
  BY <1>1, Thrown, Zenon
<1>5. /\ ErrorsOf(a)' = ErrorsOf(a) \cup {e}
      /\ \A t : t # a => ErrorsOf(t)' = ErrorsOf(t)
  BY <1>1, Thrown, Zenon
<1>6. \A t, x : x \in ErrorsOf(t) => x \in Nat /\ x < e
  BY <1>1, Thrown, Zenon
<1>7. \A x \in DOMAIN thrown' : x \in DOMAIN thrown \/ x = e
  BY <1>2
<1>8. spans[a] \in SpanRecords /\ spans[a].errors \in Seq(Nat) /\ e \in Nat
  BY <1>1, <1>2, SpanIsRecord
<1>9. /\ longer \in Seq(Nat) /\ Increasing(longer)
      /\ ToSet(longer) = ToSet(spans[a].errors) \cup {e}
  <2>1. Increasing(spans[a].errors) /\ ToSet(spans[a].errors) = ErrorsOf(a)
    BY DEF TraceInv, ErrorsSet
  <2>2. \A y \in ToSet(spans[a].errors) : y < e
    BY <1>6, <2>1
  <2> QED
    BY <1>8, <2>1, <2>2, OneMore, Zenon
<1> HIDE DEF longer
<1>10. /\ DOMAIN spans' = DOMAIN spans /\ Len(spans') = Len(spans)
       /\ \A s \in DOMAIN spans : s # a => spans'[s] = spans[s]
       /\ spans'[a] = [spans[a] EXCEPT !.errors = longer]
       /\ spans'[a].errors = longer /\ spans'[a].kind = spans[a].kind
       /\ spans'[a].open
  <2>1. DOMAIN spans' = DOMAIN spans /\ Len(spans') = Len(spans)
    BY <1>1
  <2>2. \A s \in DOMAIN spans : s # a => spans'[s] = spans[s]
    BY <1>1
  <2>3. spans'[a] = [spans[a] EXCEPT !.errors = longer]
    BY <1>1 DEF longer
  <2> QED
    BY <1>8, <2>1, <2>2, <2>3 DEF SpanRecords
<1>11. spans' \in Seq(SpanRecords)
  <2>1. [spans[a] EXCEPT !.errors = longer] \in SpanRecords
    BY <1>8, <1>9 DEF SpanRecords
  <2>2. spans' = [spans EXCEPT ![a] = [spans[a] EXCEPT !.errors = longer]]
    BY DEF longer
  <2>3. [spans EXCEPT ![a] = [spans[a] EXCEPT !.errors = longer]] \in Seq(SpanRecords)
    BY <1>1, <2>1, ExceptKeeps, Zenon
  <2> QED
    BY <2>2, <2>3, Zenon
<1>12. TypeInv'
  BY <1>2, <1>11 DEF TraceInv, TypeInv
<1>13. ErrorsSet'
  <2>1. \A x \in DOMAIN thrown : thrown[x].span \in Nat /\ thrown[x].span <= Len(spans)
    BY ThrownSpans
  <2>2. a <= Len(spans)
    BY <1>1
  <2> HIDE DEF e
  <2>3. \A x \in DOMAIN thrown' : thrown'[x].span <= Len(spans')
    BY <1>3, <1>4, <1>7, <1>10, <2>1, <2>2
  <2>4. ASSUME NEW s \in DOMAIN spans'
        PROVE  Increasing(spans'[s].errors) /\ ToSet(spans'[s].errors) = ErrorsOf(s)'
    <3>1. CASE s = a
      BY <1>5, <1>9, <1>10, <3>1 DEF TraceInv, ErrorsSet
    <3>2. CASE s # a
      BY <1>5, <1>10, <3>2 DEF TraceInv, ErrorsSet
    <3> QED
      BY <3>1, <3>2
  <2> QED
    BY <2>3, <2>4 DEF ErrorsSet
<1>14. ContextsInv'
  BY <1>10 DEF TraceInv, ContextsInv
<1>15. Reported'
  <2> HIDE DEF e
  <2> QED
    BY <1>3, <1>4, <1>7, <1>10, ReportedKept
<1> QED
  BY <1>12, <1>13, <1>14, <1>15 DEF TraceInv

\* An error is set or sent and dropped.
LEMMA Dropped ==
  ASSUME TraceInv, NEW sent \in BOOLEAN, NEW stacktrace \in BOOLEAN,
         Throw(sent, stacktrace, 0), UNCHANGED <<spans, stack, later, agent>>
  PROVE  TraceInv'
<1> DEFINE e == Len(thrown) + 1
<1>1. TypeInv /\ 0 \in Nat
  BY DEF TraceInv
<1>2. /\ Len(thrown) \in Nat /\ DOMAIN thrown = 1..Len(thrown)
      /\ thrown' \in Seq(ErrorRecords) /\ DOMAIN thrown' = 1..(Len(thrown) + 1)
  BY <1>1, Thrown, Zenon
<1>3. \A x \in DOMAIN thrown : x \in DOMAIN thrown' /\ thrown'[x] = thrown[x]
  BY <1>1, Thrown, Zenon
<1>4. thrown'[e].span = 0
  BY <1>1, Thrown, Zenon
<1>5. \A t : t # 0 => ErrorsOf(t)' = ErrorsOf(t)
  BY <1>1, Thrown
<1>6. \A x \in DOMAIN thrown' : x \in DOMAIN thrown \/ x = e
  BY <1>2
<1>7. 0 \notin DOMAIN spans /\ Len(spans) \in Nat
  BY DEF TraceInv, TypeInv
<1> HIDE DEF e
<1>8. TypeInv'
  BY <1>2 DEF TraceInv, TypeInv
<1>9. ErrorsSet'
  <2>1. \A x \in DOMAIN thrown : thrown[x].span \in Nat /\ thrown[x].span <= Len(spans)
    BY ThrownSpans
  <2>2. \A x \in DOMAIN thrown' : thrown'[x].span <= Len(spans')
    BY <1>3, <1>4, <1>6, <1>7, <2>1
  <2>3. \A s \in DOMAIN spans : ErrorsOf(s)' = ErrorsOf(s)
    BY <1>5, <1>7
  <2> QED
    BY <2>2, <2>3 DEF TraceInv, ErrorsSet
<1>10. ContextsInv'
  BY DEF TraceInv, ContextsInv
<1>11. Reported'
  BY <1>3, <1>4, <1>6, <1>7, ReportedKept
<1> QED
  BY <1>8, <1>9, <1>10, <1>11 DEF TraceInv

LEMMA SetErrorKeeps ==
  ASSUME TraceInv, NEW stacktrace \in BOOLEAN, NEW given \in {0} \cup DOMAIN spans,
         setError(stacktrace, given)
  PROVE  TraceInv'
<1> DEFINE s == IF given # 0 THEN given ELSE Active
<1>0. s = 0 \/ s \in DOMAIN spans
  BY ActiveSpan
<1>1. CASE s # 0 /\ spans[s].open
  <2>1. s \in DOMAIN spans
    BY <1>0, <1>1
  <2>2. /\ Throw(FALSE, stacktrace, s)
        /\ spans' = [spans EXCEPT ![s].errors = Append(@, Len(thrown) + 1)]
        /\ UNCHANGED <<stack, later, agent>>
    BY <1>1 DEF setError
  <2> HIDE DEF s
  <2> QED
    BY <1>1, <2>1, <2>2, SetOnOpen, Zenon
<1>2. CASE ~(s # 0 /\ spans[s].open)
  <2>1. Throw(FALSE, stacktrace, 0) /\ UNCHANGED <<spans, stack, later, agent>>
    BY <1>2 DEF setError
  <2>2. FALSE \in BOOLEAN
    OBVIOUS
  <2> QED
    BY <2>1, <2>2, Dropped, Zenon
<1> QED
  BY <1>1, <1>2

\* A span ends: the agent is given it, with the errors that have a stack trace.
LEMMA Ended ==
  ASSUME TraceInv, NEW s \in DOMAIN spans, spans[s].open, End(s), thrown' = thrown,
         later' = later
  PROVE  /\ spans' \in Seq(SpanRecords)
         /\ agent' \in Seq([span : Nat, errors : Seq(Nat)])
         /\ DOMAIN spans' = DOMAIN spans
         /\ \A t \in DOMAIN spans : t # s => spans'[t] = spans[t]
         /\ ErrorsSet' /\ Reported'
<1> DEFINE traced == {e \in DOMAIN thrown : thrown[e].stacktrace}
           errors == Filter(spans[s].errors, traced)
           given == [span |-> s, errors |-> errors]
<1>1. /\ spans \in Seq(SpanRecords) /\ s \in Nat
      /\ agent \in Seq([span : Nat, errors : Seq(Nat)])
  BY DEF TraceInv, TypeInv
<1>2. spans' = [spans EXCEPT ![s].open = FALSE] /\ agent' = Append(agent, given)
  BY DEF End, onEnd
<1>3. spans[s] \in SpanRecords /\ spans[s].errors \in Seq(Nat)
  BY SpanIsRecord DEF TraceInv
<1>4. /\ errors \in Seq(Nat) /\ Increasing(errors)
      /\ ToSet(errors) = ErrorsOf(s) \cap traced
  <2>1. Increasing(spans[s].errors) /\ ToSet(spans[s].errors) = ErrorsOf(s)
    BY DEF TraceInv, ErrorsSet
  <2> HIDE DEF traced
  <2> QED
    BY <1>3, <2>1, Filtered, Zenon
<1> HIDE DEF errors
<1>5. given \in [span : Nat, errors : Seq(Nat)] /\ given.span = s /\ given.errors = errors
  BY <1>1, <1>4
<1> HIDE DEF given
<1>6. /\ agent' \in Seq([span : Nat, errors : Seq(Nat)])
      /\ Len(agent) \in Nat /\ DOMAIN agent = 1..Len(agent)
      /\ DOMAIN agent' = 1..(Len(agent) + 1)
      /\ \A k \in DOMAIN agent : agent'[k] = agent[k]
      /\ agent'[Len(agent) + 1] = given
  <2> DEFINE R == [span : Nat, errors : Seq(Nat)]
  <2> HIDE DEF R
  <2>1. agent \in Seq(R) /\ given \in R
    BY <1>1, <1>5 DEF R
  <2>2. /\ agent' \in Seq(R)
        /\ Len(agent) \in Nat /\ DOMAIN agent = 1..Len(agent)
        /\ DOMAIN agent' = 1..(Len(agent) + 1)
        /\ \A k \in DOMAIN agent : agent'[k] = agent[k]
        /\ agent'[Len(agent) + 1] = given
    BY <1>2, <2>1, AppendIsLast
  <2> QED
    BY <2>2, Zenon DEF R
<1>7. /\ DOMAIN spans' = DOMAIN spans /\ Len(spans') = Len(spans)
      /\ \A t \in DOMAIN spans : t # s => spans'[t] = spans[t]
      /\ spans'[s] = [spans[s] EXCEPT !.open = FALSE]
  BY <1>1, <1>2
<1>8. /\ spans'[s] \in SpanRecords /\ spans'[s].errors = spans[s].errors
      /\ spans'[s].kind = spans[s].kind /\ ~spans'[s].open
  BY <1>3, <1>7 DEF SpanRecords
<1>9. spans' \in Seq(SpanRecords)
  <2>1. spans' = [spans EXCEPT ![s] = spans'[s]]
    BY <1>1, <1>2
  <2>2. [spans EXCEPT ![s] = spans'[s]] \in Seq(SpanRecords)
    BY <1>1, <1>8, ExceptKeeps, Zenon
  <2> QED
    BY <2>1, <2>2, Zenon
<1>10. ErrorsSet'
  <2>1. \A t : ErrorsOf(t)' = ErrorsOf(t)
    BY DEF ErrorsOf
  <2>2. \A t \in DOMAIN spans : spans'[t].errors = spans[t].errors
    BY <1>7, <1>8
  <2> QED
    BY <1>7, <2>1, <2>2 DEF TraceInv, ErrorsSet
<1>11. /\ Len(agent) + 1 \notin DOMAIN agent
       /\ \A k \in DOMAIN agent' : k \in DOMAIN agent \/ k = Len(agent) + 1
  BY <1>6
<1>12. \A k \in DOMAIN agent : agent[k].span \in DOMAIN spans /\ agent[k].span # s
  BY DEF TraceInv, Reported
<1>13. \A k \in DOMAIN agent' :
         agent'[k].span \in DOMAIN spans' /\ ~spans'[agent'[k].span].open
  <2>1. ASSUME NEW k \in DOMAIN agent
        PROVE  agent'[k].span \in DOMAIN spans' /\ ~spans'[agent'[k].span].open
    BY <1>6, <1>7, <1>12 DEF TraceInv, Reported
  <2>2. given.span \in DOMAIN spans' /\ ~spans'[given.span].open
    BY <1>5, <1>7, <1>8
  <2> QED
    BY <1>6, <1>11, <2>1, <2>2
<1>14. \A j, k \in DOMAIN agent' : agent'[j].span = agent'[k].span => j = k
  BY <1>5, <1>6, <1>11, <1>12 DEF TraceInv, Reported, ErrorsWhereTheyBelong
<1>15. ASSUME NEW k \in DOMAIN agent'
       PROVE  /\ ToSet(agent'[k].errors) =
                   {e \in DOMAIN thrown : thrown[e].span = agent'[k].span /\ thrown[e].stacktrace}
              /\ Increasing(agent'[k].errors)
  <2>1. CASE k \in DOMAIN agent
    BY <1>6, <2>1 DEF TraceInv, Reported, ErrorsWhereTheyBelong, Increasing
  <2>2. CASE k = Len(agent) + 1
    <3>1. agent'[k].errors = errors /\ agent'[k].span = s
      BY <1>5, <1>6, <2>2
    <3>2. ErrorsOf(s) \cap traced
            = {e \in DOMAIN thrown : thrown[e].span = s /\ thrown[e].stacktrace}
      BY DEF ErrorsOf
    <3> QED
      BY <1>4, <3>1, <3>2
  <2> QED
    BY <1>11, <2>1, <2>2
<1>16. ErrorsWhereTheyBelong'
  BY <1>14, <1>15 DEF ErrorsWhereTheyBelong, Increasing
<1> QED
  BY <1>6, <1>7, <1>8, <1>9, <1>10, <1>13, <1>16 DEF Reported

LEMMA EndSpanKeeps ==
  ASSUME TraceInv, NEW s \in DOMAIN spans, EndSpan(s) PROVE TraceInv'
<1>1. /\ spans[s].kind = "library" /\ spans[s].open /\ End(s)
      /\ stack' = stack /\ later' = later /\ thrown' = thrown
  BY DEF EndSpan
<1>2. /\ spans' \in Seq(SpanRecords)
      /\ agent' \in Seq([span : Nat, errors : Seq(Nat)])
      /\ DOMAIN spans' = DOMAIN spans
      /\ \A t \in DOMAIN spans : t # s => spans'[t] = spans[t]
      /\ ErrorsSet' /\ Reported'
  BY <1>1, Ended, Zenon
<1>3. ContextsInv'
  BY <1>1, <1>2 DEF TraceInv, ContextsInv
<1>4. TypeInv'
  BY <1>1, <1>2 DEF TraceInv, TypeInv
<1> QED
  BY <1>2, <1>3, <1>4 DEF TraceInv

LEMMA FinallyKeeps ==
  ASSUME TraceInv, Finally PROVE TraceInv'
<1> DEFINE top == Len(stack)
           s == stack[top].span
<1>1. /\ stack' = Front(stack) /\ stack # <<>> /\ Last(stack).kind = "sendError"
      /\ End(Last(stack).span) /\ later' = later /\ thrown' = thrown
  BY DEF Finally
<1>2. stack \in Seq(Contexts)
  BY DEF TraceInv, TypeInv
<1>3. /\ Front(stack) \in Seq(Contexts) /\ top \in Nat \ {0} /\ DOMAIN stack = 1..top
      /\ DOMAIN Front(stack) = 1..(top - 1)
      /\ \A i \in DOMAIN Front(stack) : i \in DOMAIN stack /\ Front(stack)[i] = stack[i]
      /\ Last(stack) = stack[top] /\ top \in DOMAIN stack
  BY <1>1, <1>2, FrontKeeps, Zenon
<1> HIDE DEF top
<1>4. s \in DOMAIN spans /\ spans[s].open /\ End(s) /\ stack[top].kind = "sendError"
  BY <1>1, <1>3 DEF TraceInv, ContextsInv
<1> HIDE DEF s
<1>5. /\ spans' \in Seq(SpanRecords)
      /\ agent' \in Seq([span : Nat, errors : Seq(Nat)])
      /\ DOMAIN spans' = DOMAIN spans
      /\ \A t \in DOMAIN spans : t # s => spans'[t] = spans[t]
      /\ ErrorsSet' /\ Reported'
  BY <1>1, <1>4, Ended, Zenon
<1>6. \A i \in DOMAIN stack' : i \in DOMAIN stack /\ i # top /\ stack'[i] = stack[i]
  BY <1>1, <1>3
<1>7. \A i \in DOMAIN stack' : stack'[i].kind = "sendError" => stack'[i].span # s
  BY <1>3, <1>4, <1>6 DEF s, TraceInv, ContextsInv
<1>8. ContextsInv'
  BY <1>1, <1>5, <1>6, <1>7 DEF TraceInv, ContextsInv
<1>9. TypeInv'
  BY <1>1, <1>3, <1>5 DEF TraceInv, TypeInv
<1> QED
  BY <1>5, <1>8, <1>9 DEF TraceInv

\* Contexts are left and resumed.
LEMMA MovesKeep ==
  ASSUME TraceInv, UNCHANGED <<spans, thrown, agent>>,
         stack' \in Seq(Contexts), later' \subseteq DOMAIN spans,
         \/ \A i \in DOMAIN stack' : i \in DOMAIN stack /\ stack'[i] = stack[i]
         \/ \A i \in DOMAIN stack' :
              stack'[i].span \in DOMAIN spans /\ stack'[i].kind # "sendError"
  PROVE  TraceInv'
<1>1. TypeInv' /\ ErrorsSet' /\ Reported'
  BY DEF TraceInv, TypeInv, ErrorsSet, ErrorsOf, Reported, ErrorsWhereTheyBelong
<1>2. ContextsInv'
  BY DEF TraceInv, ContextsInv
<1> QED
  BY <1>1, <1>2 DEF TraceInv

LEMMA TraceStep == TraceInv /\ [Next]_vars => TraceInv'
<1> SUFFICES ASSUME TraceInv, [Next]_vars PROVE TraceInv'
  OBVIOUS
<1>1. stack \in Seq(Contexts) /\ later \subseteq DOMAIN spans /\ \A x \in DOMAIN spans : x \in Nat
  BY DEF TraceInv, TypeInv, ContextsInv
<1>2. ASSUME NEW p, StartSpan(p) PROVE TraceInv'
  BY <1>2, StartSpanKeeps
<1>3. ASSUME NEW s \in DOMAIN spans, EndSpan(s) PROVE TraceInv'
  BY <1>3, EndSpanKeeps
<1>4. ASSUME NEW s \in later, Resume(s) PROVE TraceInv'
  <2> DEFINE context == [span |-> s, kind |-> "resumed"]
  <2>1. context \in Contexts /\ context.span = s /\ context.kind = "resumed"
    BY <1>1 DEF Contexts
  <2>2. /\ stack' = <<context>> /\ later' = later \ {s}
        /\ UNCHANGED <<spans, thrown, agent>>
    BY <1>4 DEF Resume
  <2> HIDE DEF context
  <2>3. stack' \in Seq(Contexts) /\ \A i \in DOMAIN stack' : stack'[i] = context
    BY <2>1, <2>2
  <2>4. later' \subseteq DOMAIN spans /\ s \in DOMAIN spans
    BY <1>1, <2>2
  <2>5. \A i \in DOMAIN stack' :
          stack'[i].span \in DOMAIN spans /\ stack'[i].kind # "sendError"
    BY <2>1, <2>3, <2>4
  <2> QED
    BY <2>2, <2>3, <2>4, <2>5, MovesKeep, Zenon
<1>5. CASE Leave
  <2>1. /\ stack # <<>> /\ stack' = Front(stack)
        /\ UNCHANGED <<spans, later, thrown, agent>>
    BY <1>5 DEF Leave
  <2>2. /\ Front(stack) \in Seq(Contexts)
        /\ \A i \in DOMAIN Front(stack) : i \in DOMAIN stack /\ Front(stack)[i] = stack[i]
    BY <1>1, <2>1, FrontKeeps, Zenon
  <2> QED
    BY <1>1, <2>1, <2>2, MovesKeep
<1>6. CASE StartWork
  <2>1. /\ Active # 0 /\ later' = later \cup {Active}
        /\ UNCHANGED <<spans, stack, thrown, agent>>
    BY <1>6 DEF StartWork
  <2>2. later' \subseteq DOMAIN spans
    BY <1>1, <2>1, ActiveSpan
  <2> QED
    BY <1>1, <2>1, <2>2, MovesKeep
<1>7. ASSUME NEW stacktrace \in BOOLEAN, NEW given \in {0} \cup DOMAIN spans,
             setError(stacktrace, given)
      PROVE  TraceInv'
  BY <1>7, SetErrorKeeps
<1>8. ASSUME NEW stacktrace \in BOOLEAN, sendError(stacktrace) PROVE TraceInv'
  BY <1>8, SendErrorKeeps
<1>9. ASSUME NEW stacktrace \in BOOLEAN, sendErrorDropped(stacktrace) PROVE TraceInv'
  <2>1. Throw(TRUE, stacktrace, 0) /\ UNCHANGED <<spans, stack, later, agent>>
    BY <1>9 DEF sendErrorDropped
  <2>2. TRUE \in BOOLEAN
    OBVIOUS
  <2> QED
    BY <2>1, <2>2, Dropped, Zenon
<1>10. CASE Finally
  BY <1>10, FinallyKeeps
<1>11. CASE UNCHANGED spanVars
  <2>1. UNCHANGED <<spans, stack, later, thrown, agent>>
    BY <1>11 DEF spanVars
  <2> QED
    BY <1>1, <2>1, MovesKeep
<1> QED
  BY <1>2, <1>3, <1>4, <1>5, <1>6, <1>7, <1>8, <1>9, <1>10, <1>11
  DEF Next, Load, Construct, SpanDiscarded, vars

\* A span is reported once and after it has ended, with exactly the errors that
\* were set in it or sent with it and have a stack trace, in their order: for
\* any nesting of spans, of fn and of asynchronous work.
THEOREM ErrorsReportedOnce == Spec => []ErrorsWhereTheyBelong
<1>1. Init => TraceInv
  BY DEF Init, TraceInv, TypeInv, ErrorsSet, ContextsInv, Reported, ErrorsWhereTheyBelong
<1>2. TraceInv => ErrorsWhereTheyBelong
  BY DEF TraceInv, Reported
<1> QED
  BY <1>1, <1>2, TraceStep, PTL DEF Spec

-----------------------------------------------------------------------------
(* No error is lost                                                        *)

\* Until it is reported, an error that has a span and a stack trace is on a span
\* that is open; and if it was sent, the code that ends the span, the call of
\* sendError() around fn, has not returned.
NoErrorLost ==
  \A e \in DOMAIN thrown :
    thrown[e].stacktrace /\ thrown[e].span # 0 =>
      \/ \E k \in DOMAIN agent : e \in ToSet(agent[k].errors)
      \/ /\ spans[thrown[e].span].open
         /\ thrown[e].sent =>
              [span |-> thrown[e].span, kind |-> "sendError"] \in ToSet(stack)

\* A span that has ended was reported.
Delivered ==
  \A s \in DOMAIN spans : ~spans[s].open => \E k \in DOMAIN agent : agent[k].span = s

\* While the span of an error that was sent is open, its fn runs.
Awaited ==
  \A s \in DOMAIN spans :
    spans[s].open /\ spans[s].kind = "sendError" =>
      \E i \in DOMAIN stack : stack[i].kind = "sendError" /\ stack[i].span = s

\* An error that is sent gets a span of its own kind.
SentSpans ==
  \A e \in DOMAIN thrown :
    thrown[e].sent /\ thrown[e].span # 0 => spans[thrown[e].span].kind = "sendError"

Held == Delivered /\ Awaited /\ SentSpans

LEMMA HasSpan ==
  ASSUME TraceInv, NEW e \in DOMAIN thrown, thrown[e].span # 0
  PROVE  thrown[e].span \in DOMAIN spans
<1>1. thrown[e].span \in Nat /\ thrown[e].span <= Len(spans)
  BY ThrownSpans
<1>2. Len(spans) \in Nat /\ DOMAIN spans = 1..Len(spans)
  BY DEF TraceInv, TypeInv
<1> QED
  BY <1>1, <1>2

\* A span begins, with its code in it.
LEMMA BegunHeld ==
  ASSUME TraceInv, Held, NEW parent \in Nat, NEW kind \in {"library", "sendError"},
         NEW errors \in Seq(Nat), Begin(parent, kind, errors), agent' = agent
  PROVE  /\ Delivered' /\ Awaited'
         /\ \A s \in DOMAIN spans : s \in DOMAIN spans' /\ spans'[s] = spans[s]
         /\ spans'[Len(spans) + 1].kind = kind
<1> DEFINE span == [parent |-> parent, kind |-> kind, open |-> TRUE, errors |-> errors]
           m == Len(spans) + 1
           context == [span |-> m, kind |-> kind]
<1>1. span \in SpanRecords /\ span.kind = kind /\ span.open
  BY DEF SpanRecords
<1>2. Len(spans) \in Nat
  BY DEF TraceInv, TypeInv
<1>3. context \in Contexts /\ context.span = m /\ context.kind = kind
  BY <1>2 DEF Contexts
<1>4. spans' = Append(spans, span) /\ stack' = Append(stack, context)
  BY DEF Begin
<1> HIDE DEF span, context
<1>5. /\ DOMAIN spans' = DOMAIN spans \cup {m}
      /\ \A s \in DOMAIN spans : spans'[s] = spans[s]
      /\ spans'[m] = span
  <2>1. /\ Len(spans) \in Nat /\ DOMAIN spans = 1..Len(spans)
        /\ DOMAIN spans' = 1..(Len(spans) + 1)
        /\ \A s \in DOMAIN spans : spans'[s] = spans[s]
        /\ spans'[Len(spans) + 1] = span
    BY <1>1, <1>4, AppendIsLast DEF TraceInv, TypeInv
  <2> QED
    BY <2>1
<1>6. /\ DOMAIN stack \subseteq DOMAIN stack'
      /\ \A i \in DOMAIN stack : stack'[i] = stack[i]
      /\ \E i \in DOMAIN stack' : stack'[i] = context
  <2>1. /\ Len(stack) \in Nat /\ DOMAIN stack = 1..Len(stack)
        /\ DOMAIN stack' = 1..(Len(stack) + 1)
        /\ \A i \in DOMAIN stack : stack'[i] = stack[i]
        /\ stack'[Len(stack) + 1] = context
    BY <1>3, <1>4, AppendIsLast DEF TraceInv, TypeInv
  <2> QED
    BY <2>1
<1> HIDE DEF m
<1>7. Delivered'
  BY <1>1, <1>5 DEF Held, Delivered
<1>8. ASSUME NEW s \in DOMAIN spans', spans'[s].open, spans'[s].kind = "sendError"
      PROVE  \E i \in DOMAIN stack' : stack'[i].kind = "sendError" /\ stack'[i].span = s
  <2>1. CASE s \in DOMAIN spans
    BY <1>5, <1>6, <1>8, <2>1 DEF Held, Awaited
  <2>2. CASE s = m
    BY <1>1, <1>3, <1>5, <1>6, <1>8, <2>2
  <2> QED
    BY <1>5, <2>1, <2>2
<1>9. Awaited'
  BY <1>8 DEF Awaited
<1> QED
  BY <1>1, <1>5, <1>7, <1>9 DEF m

\* An error more: what is known of those before it stays.
LEMMA SentThrown ==
  ASSUME TraceInv, Held, NEW sent \in BOOLEAN, NEW stacktrace \in BOOLEAN, NEW s \in Nat,
         Throw(sent, stacktrace, s),
         \A t \in DOMAIN spans : spans'[t].kind = spans[t].kind,
         sent /\ s # 0 => spans'[s].kind = "sendError"
  PROVE  SentSpans'
<1> DEFINE error == [sent |-> sent, stacktrace |-> stacktrace, span |-> s]
<1>1. error \in ErrorRecords /\ error.span = s /\ error.sent = sent
  BY DEF ErrorRecords
<1>2. thrown' = Append(thrown, error)
  BY DEF Throw
<1> HIDE DEF error
<1>3. /\ \A e \in DOMAIN thrown' : e \in DOMAIN thrown \/ thrown'[e] = error
      /\ \A e \in DOMAIN thrown : thrown'[e] = thrown[e]
  <2>1. /\ Len(thrown) \in Nat /\ DOMAIN thrown = 1..Len(thrown)
        /\ DOMAIN thrown' = 1..(Len(thrown) + 1)
        /\ \A e \in DOMAIN thrown : thrown'[e] = thrown[e]
        /\ thrown'[Len(thrown) + 1] = error
    BY <1>1, <1>2, AppendIsLast DEF TraceInv, TypeInv
  <2> QED
    BY <2>1
<1>4. ASSUME NEW e \in DOMAIN thrown', thrown'[e].sent, thrown'[e].span # 0
      PROVE  spans'[thrown'[e].span].kind = "sendError"
  <2>1. CASE e \in DOMAIN thrown
    BY <1>3, <1>4, <2>1, HasSpan DEF Held, SentSpans
  <2>2. CASE thrown'[e] = error
    BY <1>1, <1>4, <2>2
  <2> QED
    BY <1>3, <2>1, <2>2
<1> QED
  BY <1>4 DEF SentSpans

LEMMA SentKept ==
  ASSUME TraceInv, Held, thrown' = thrown,
         \A t \in DOMAIN spans : spans'[t].kind = spans[t].kind
  PROVE  SentSpans'
BY HasSpan DEF Held, SentSpans

\* A span ends, and is reported.
LEMMA EndedHeld ==
  ASSUME TraceInv, Held, NEW s \in DOMAIN spans, End(s), thrown' = thrown
  PROVE  /\ Delivered' /\ SentSpans'
         /\ DOMAIN spans' = DOMAIN spans
         /\ \A t \in DOMAIN spans : t # s => spans'[t] = spans[t]
         /\ ~spans'[s].open
<1> DEFINE traced == {e \in DOMAIN thrown : thrown[e].stacktrace}
           errors == Filter(spans[s].errors, traced)
           given == [span |-> s, errors |-> errors]
<1>1. spans[s] \in SpanRecords /\ spans[s].errors \in Seq(Nat) /\ s \in Nat
  BY SpanIsRecord DEF TraceInv, TypeInv
<1>2. spans' = [spans EXCEPT ![s].open = FALSE] /\ agent' = Append(agent, given)
  BY DEF End, onEnd
<1>3. errors \in Seq(Nat)
  <2>1. Increasing(spans[s].errors)
    BY DEF TraceInv, ErrorsSet
  <2> HIDE DEF traced
  <2> QED
    BY <1>1, <2>1, Filtered, Zenon
<1> HIDE DEF errors
<1>4. given \in [span : Nat, errors : Seq(Nat)] /\ given.span = s
  BY <1>1, <1>3
<1> HIDE DEF given
<1>5. /\ DOMAIN agent \subseteq DOMAIN agent'
      /\ \A k \in DOMAIN agent : agent'[k] = agent[k]
      /\ \E k \in DOMAIN agent' : agent'[k] = given
  <2> DEFINE R == [span : Nat, errors : Seq(Nat)]
  <2> HIDE DEF R
  <2>1. agent \in Seq(R) /\ given \in R
    BY <1>4 DEF R, TraceInv, TypeInv
  <2>2. /\ Len(agent) \in Nat /\ DOMAIN agent = 1..Len(agent)
        /\ DOMAIN agent' = 1..(Len(agent) + 1)
        /\ \A k \in DOMAIN agent : agent'[k] = agent[k]
        /\ agent'[Len(agent) + 1] = given
    BY <1>2, <2>1, AppendIsLast
  <2> QED
    BY <2>2
<1>6. /\ DOMAIN spans' = DOMAIN spans
      /\ \A t \in DOMAIN spans : t # s => spans'[t] = spans[t]
      /\ spans'[s] = [spans[s] EXCEPT !.open = FALSE]
  BY <1>2
<1>7. ~spans'[s].open /\ spans'[s].kind = spans[s].kind
  BY <1>1, <1>6 DEF SpanRecords
<1>8. Delivered'
  BY <1>4, <1>5, <1>6 DEF Held, Delivered
<1>9. SentSpans'
  BY <1>6, <1>7, SentKept
<1> QED
  BY <1>6, <1>7, <1>8, <1>9

\* Of the spans that are open, none loses the code that ends it.
LEMMA AwaitedKept ==
  ASSUME Held, DOMAIN spans' = DOMAIN spans,
         \A t \in DOMAIN spans : spans'[t].open => spans[t].open /\ spans'[t].kind = spans[t].kind,
         \A i \in DOMAIN stack :
           \/ i \in DOMAIN stack' /\ stack'[i] = stack[i]
           \/ stack[i].kind # "sendError"
           \/ ~spans'[stack[i].span].open
  PROVE  Awaited'
BY DEF Held, Awaited

LEMMA HeldStep == TraceInv /\ Held /\ [Next]_vars => Held'
<1> SUFFICES ASSUME TraceInv, Held, [Next]_vars PROVE Held'
  OBVIOUS
<1>1. stack \in Seq(Contexts) /\ spans \in Seq(SpanRecords)
  BY DEF TraceInv, TypeInv
<1>2. ASSUME NEW p, StartSpan(p) PROVE Held'
  <2>1. Begin(Active, "library", <<>>) /\ thrown' = thrown /\ agent' = agent
    BY <1>2 DEF StartSpan
  <2>2. Active \in Nat /\ <<>> \in Seq(Nat)
    BY <1>1, ActiveSpan
  <2>3. /\ Delivered' /\ Awaited'
        /\ \A s \in DOMAIN spans : s \in DOMAIN spans' /\ spans'[s] = spans[s]
    BY <2>1, <2>2, BegunHeld
  <2>4. SentSpans'
    BY <2>1, <2>3, SentKept
  <2> QED
    BY <2>3, <2>4 DEF Held
<1>3. ASSUME NEW s \in DOMAIN spans, EndSpan(s) PROVE Held'
  <2>1. /\ spans[s].kind = "library" /\ End(s)
        /\ stack' = stack /\ thrown' = thrown
    BY <1>3 DEF EndSpan
  <2>2. /\ Delivered' /\ SentSpans'
        /\ DOMAIN spans' = DOMAIN spans
        /\ \A t \in DOMAIN spans : t # s => spans'[t] = spans[t]
        /\ ~spans'[s].open
    BY <2>1, EndedHeld, Zenon
  <2>3. Awaited'
    BY <2>1, <2>2, AwaitedKept
  <2> QED
    BY <2>2, <2>3 DEF Held
<1>4. ASSUME NEW s \in later, Resume(s) PROVE Held'
  <2>1. stack = <<>> /\ UNCHANGED <<spans, thrown, agent>>
    BY <1>4 DEF Resume
  <2>2. Awaited'
    BY <2>1, AwaitedKept
  <2> QED
    BY <2>1, <2>2 DEF Held, Delivered, SentSpans
<1>5. ASSUME stack # <<>>, stack' = Front(stack)
      PROVE  \A i \in DOMAIN stack :
               \/ i \in DOMAIN stack' /\ stack'[i] = stack[i]
               \/ stack[i] = Last(stack)
  <2>1. /\ Len(stack) \in Nat \ {0} /\ DOMAIN stack = 1..Len(stack)
        /\ DOMAIN Front(stack) = 1..(Len(stack) - 1)
        /\ \A i \in DOMAIN Front(stack) : i \in DOMAIN stack /\ Front(stack)[i] = stack[i]
        /\ Last(stack) = stack[Len(stack)]
    BY <1>1, <1>5, FrontKeeps, Zenon
  <2>2. \A i \in DOMAIN stack : i = Len(stack) \/ i \in DOMAIN Front(stack)
    BY <2>1
  <2> QED
    BY <1>5, <2>1, <2>2
<1>6. CASE Leave
  <2>1. /\ stack # <<>> /\ stack' = Front(stack) /\ Last(stack).kind # "sendError"
        /\ UNCHANGED <<spans, thrown, agent>>
    BY <1>6 DEF Leave
  <2>2. \A i \in DOMAIN stack :
          \/ i \in DOMAIN stack' /\ stack'[i] = stack[i]
          \/ stack[i].kind # "sendError"
    BY <1>5, <2>1
  <2>3. Awaited'
    BY <2>1, <2>2, AwaitedKept
  <2> QED
    BY <2>1, <2>3 DEF Held, Delivered, SentSpans
<1>7. ASSUME NEW stacktrace \in BOOLEAN, NEW given \in {0} \cup DOMAIN spans,
             setError(stacktrace, given)
      PROVE  Held'
  <2>1. stack' = stack /\ agent' = agent
    BY <1>7 DEF setError
  <2>2. /\ DOMAIN spans' = DOMAIN spans
        /\ \A t \in DOMAIN spans :
             spans'[t].open = spans[t].open /\ spans'[t].kind = spans[t].kind
    <3>1. \A t \in DOMAIN spans : spans[t] \in SpanRecords
      BY <1>1
    <3> QED
      BY <1>7, <3>1 DEF setError, SpanRecords
  <2>3. Awaited'
    BY <2>1, <2>2, AwaitedKept
  <2>4. Delivered'
    BY <2>1, <2>2 DEF Held, Delivered
  <2>5. PICK s \in Nat : Throw(FALSE, stacktrace, s)
    <3>1. Active \in Nat /\ given \in Nat
      BY <1>1, <1>7, ActiveSpan
    <3> QED
      BY <1>7, <3>1 DEF setError
  <2>6. SentSpans'
    BY <2>2, <2>5, SentThrown
  <2> QED
    BY <2>3, <2>4, <2>6 DEF Held
<1>8. ASSUME NEW stacktrace \in BOOLEAN, sendError(stacktrace) PROVE Held'
  <2> DEFINE one == <<Len(thrown) + 1>>
  <2>1. /\ Throw(TRUE, stacktrace, Len(spans) + 1) /\ Begin(0, "sendError", one)
        /\ agent' = agent
    BY <1>8 DEF sendError
  <2>2. Len(spans) + 1 \in Nat /\ one \in Seq(Nat)
    BY DEF TraceInv, TypeInv
  <2> HIDE DEF one
  <2>3. /\ Delivered' /\ Awaited'
        /\ \A s \in DOMAIN spans : s \in DOMAIN spans' /\ spans'[s] = spans[s]
        /\ spans'[Len(spans) + 1].kind = "sendError"
    BY <2>1, <2>2, BegunHeld
  <2>4. SentSpans'
    BY <2>1, <2>2, <2>3, SentThrown
  <2> QED
    BY <2>3, <2>4 DEF Held
<1>9. ASSUME NEW stacktrace \in BOOLEAN, sendErrorDropped(stacktrace) PROVE Held'
  <2>1. Throw(TRUE, stacktrace, 0) /\ UNCHANGED <<spans, stack, agent>>
    BY <1>9 DEF sendErrorDropped
  <2>2. SentSpans'
    BY <2>1, SentThrown
  <2> QED
    BY <2>1, <2>2 DEF Held, Delivered, Awaited
<1>10. CASE Finally
  <2> DEFINE s == Last(stack).span
  <2>1. /\ stack # <<>> /\ stack' = Front(stack) /\ Last(stack).kind = "sendError"
        /\ End(s) /\ thrown' = thrown
    BY <1>10 DEF Finally
  <2>2. s \in DOMAIN spans
    <3>1. Last(stack) = stack[Len(stack)] /\ Len(stack) \in DOMAIN stack
      BY <1>1, <2>1, FrontKeeps, Zenon
    <3> QED
      BY <3>1 DEF TraceInv, ContextsInv
  <2>3. \A i \in DOMAIN stack :
          \/ i \in DOMAIN stack' /\ stack'[i] = stack[i]
          \/ stack[i].span = s
    BY <1>5, <2>1
  <2> HIDE DEF s
  <2>4. /\ Delivered' /\ SentSpans'
        /\ DOMAIN spans' = DOMAIN spans
        /\ \A t \in DOMAIN spans : t # s => spans'[t] = spans[t]
        /\ ~spans'[s].open
    BY <2>1, <2>2, EndedHeld, Zenon
  <2>5. Awaited'
    BY <2>3, <2>4, AwaitedKept
  <2> QED
    BY <2>4, <2>5 DEF Held
<1>11. CASE UNCHANGED <<spans, stack, thrown, agent>>
  BY <1>11 DEF Held, Delivered, Awaited, SentSpans
<1> QED
  BY <1>2, <1>3, <1>4, <1>6, <1>7, <1>8, <1>9, <1>10, <1>11
  DEF Next, Load, Construct, SpanDiscarded, StartWork, vars, spanVars

\* What was thrown where there is a span was reported with it, or will be when
\* it ends: on a span that has not ended there is no error that was left out,
\* and there is none that was sent whose fn has returned.
LEMMA HeldIsEnough == TraceInv /\ Held => NoErrorLost
<1> SUFFICES ASSUME TraceInv, Held,
                    NEW e \in DOMAIN thrown, thrown[e].stacktrace, thrown[e].span # 0
             PROVE  \/ \E k \in DOMAIN agent : e \in ToSet(agent[k].errors)
                    \/ /\ spans[thrown[e].span].open
                       /\ thrown[e].sent =>
                            [span |-> thrown[e].span, kind |-> "sendError"] \in ToSet(stack)
  BY DEF NoErrorLost
<1> DEFINE s == thrown[e].span
<1>1. s \in DOMAIN spans
  BY HasSpan
<1>2. CASE ~spans[s].open
  <2>1. PICK k \in DOMAIN agent : agent[k].span = s
    BY <1>1, <1>2 DEF Held, Delivered
  <2>2. ToSet(agent[k].errors) =
          {x \in DOMAIN thrown : thrown[x].span = agent[k].span /\ thrown[x].stacktrace}
    BY DEF TraceInv, Reported, ErrorsWhereTheyBelong
  <2> QED
    BY <2>1, <2>2
<1>3. CASE spans[s].open
  <2>1. SUFFICES ASSUME thrown[e].sent
                 PROVE  [span |-> s, kind |-> "sendError"] \in ToSet(stack)
    BY <1>3
  <2>2. spans[s].kind = "sendError"
    BY <2>1 DEF Held, SentSpans
  <2>3. PICK i \in DOMAIN stack : stack[i].kind = "sendError" /\ stack[i].span = s
    BY <1>1, <1>3, <2>2 DEF Held, Awaited
  <2>4. stack[i] \in Contexts
    BY DEF TraceInv, TypeInv
  <2>5. stack[i] = [span |-> s, kind |-> "sendError"]
    <3> HIDE DEF s
    <3> QED
      BY <2>3, <2>4 DEF Contexts
  <2> QED
    BY <2>5 DEF ToSet
<1> QED
  BY <1>2, <1>3

\* No error that has a span and a stack trace is lost, for any nesting of spans,
\* of fn and of asynchronous work: it was reported, or it is on an open span,
\* which in the case of an error that was sent ends when fn does.
THEOREM ErrorsAreHeld == Spec => []NoErrorLost
<1>1. Init => TraceInv /\ Held
  BY DEF Init, TraceInv, TypeInv, ErrorsSet, ContextsInv, Reported, ErrorsWhereTheyBelong,
         Held, Delivered, Awaited, SentSpans
<1> QED
  BY <1>1, TraceStep, HeldStep, HeldIsEnough, PTL DEF Spec
=============================================================================
