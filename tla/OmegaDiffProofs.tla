--------------------------- MODULE OmegaDiffProofs ---------------------------
(***************************************************************************)
(* Proofs about OmegaDiff, for every set of revisions and every __omega.   *)
(*                                                                         *)
(* Summaries: a new call gets the summary of an old call that is then in   *)
(* locs_visited, and an old call outside locs_visited has a summary that   *)
(* no new call has: so the next call to be matched gets a fresh one.       *)
(*                                                                         *)
(* Comparison: the table compare_str_vecs fills holds a longest common     *)
(* subsequence of every two prefixes, so two bodies are the same exactly   *)
(* when their texts are equal.                                             *)
(*                                                                         *)
(* Result: the new calls that are preserved have an old call each, and     *)
(* what a revision unrolls to depends only on the calls its functions      *)
(* make.  So flags that are all set, for as many calls as there are old    *)
(* ones, mean that the two revisions are unrolled alike.                   *)
(***************************************************************************)
EXTENDS OmegaDiff, FiniteSetTheorems, SequenceTheorems, TLAPS

\* Induction up to n, by the pigeonhole principle.
LEMMA UpTo ==
  ASSUME NEW n \in Nat, NEW N \in SUBSET (0 .. n), 0 \in N,
         \A k \in N : k < n => k + 1 \in N
  PROVE  n \in N
<1> SUFFICES ASSUME n \notin N PROVE FALSE
  OBVIOUS
<1> DEFINE f == [k \in N |-> k + 1]
<1>1. IsFiniteSet(N) /\ Cardinality(N) \in Nat
  <2>1. N \in SUBSET Nat /\ \A k \in N : k <= n
    OBVIOUS
  <2>2. IsFiniteSet(N)
    BY <2>1, FS_BoundedSetOfNaturals
  <2> QED
    BY <2>2, FS_CardinalityType
<1>2. IsFiniteSet(N \ {0}) /\ Cardinality(N \ {0}) < Cardinality(N)
  BY <1>1, FS_RemoveElement
<1>3. f \in [N -> N \ {0}]
  OBVIOUS
<1>4. \E x, y \in N : x # y /\ f[x] = f[y]
  <2> HIDE DEF f
  <2> QED
    BY <1>1, <1>2, <1>3, FS_PigeonHole
<1> QED
  BY <1>4

-----------------------------------------------------------------------------
(***************************************************************************)
(* The longest common subsequence.                                         *)
(***************************************************************************)
\* The table compare_str_vecs fills, one cell from its neighbours.
Grid(a, b) == (0 .. Len(a)) \X (0 .. Len(b))
Cell(a, b, f, p) ==
  IF p[1] = 0 \/ p[2] = 0 THEN << >>
  ELSE IF a[p[1]] = b[p[2]] THEN Append(f[<<p[1] - 1, p[2] - 1>>], a[p[1]])
  ELSE LET up   == f[<<p[1] - 1, p[2]>>]
           left == f[<<p[1], p[2] - 1>>]
       IN  IF Len(up) > Len(left) THEN up ELSE left
IsTable(a, b, f) == f = [p \in Grid(a, b) |-> Cell(a, b, f, p)]

\* The recursion of Common has a solution: a cell depends on cells of smaller sum.
LEMMA TableExists ==
  ASSUME NEW a, NEW b, Len(a) \in Nat, Len(b) \in Nat
  PROVE  \E f : IsTable(a, b, f)
<1> DEFINE Filled(f, m) == \A p \in Grid(a, b) : p[1] + p[2] <= m => f[p] = Cell(a, b, f, p)
           L == Len(a) + Len(b)
           N == {m \in 0 .. L : \E f : Filled(f, m)}
<1>1. 0 \in N
  <2> DEFINE f == [p \in Grid(a, b) |-> << >>]
  <2>1. \A p \in Grid(a, b) : p[1] + p[2] <= 0 => p[1] = 0
    BY DEF Grid
  <2>2. Filled(f, 0)
    BY <2>1 DEF Cell
  <2> QED
    BY <2>2
<1>2. ASSUME NEW m \in N, m < L PROVE m + 1 \in N
  <2>1. PICK f : Filled(f, m)
    OBVIOUS
  <2> DEFINE g == [p \in Grid(a, b) |-> Cell(a, b, f, p)]
  <2>2. \A p \in Grid(a, b) : p[1] + p[2] <= m => g[p] = f[p]
    BY <2>1
  <2>3. ASSUME NEW p \in Grid(a, b), p[1] + p[2] <= m + 1
        PROVE  g[p] = Cell(a, b, g, p)
    <3>1. p[1] \in Nat /\ p[2] \in Nat /\ p[1] <= Len(a) /\ p[2] <= Len(b)
      BY DEF Grid
    <3>2. CASE p[1] = 0 \/ p[2] = 0
      BY <3>2 DEF Cell
    <3>3. CASE ~ (p[1] = 0 \/ p[2] = 0)
      <4> DEFINE d == <<p[1] - 1, p[2] - 1>>
                 u == <<p[1] - 1, p[2]>>
                 l == <<p[1], p[2] - 1>>
      <4>1. /\ d \in Grid(a, b) /\ u \in Grid(a, b) /\ l \in Grid(a, b)
            /\ d[1] + d[2] <= m /\ u[1] + u[2] <= m /\ l[1] + l[2] <= m
        BY <2>3, <3>1, <3>3 DEF Grid
      <4>2. g[d] = f[d] /\ g[u] = f[u] /\ g[l] = f[l]
        BY <2>2, <4>1
      <4>3. g[p] = Cell(a, b, f, p)
        OBVIOUS
      <4> HIDE DEF g
      <4> QED
        BY <4>2, <4>3 DEF Cell
    <3> QED
      BY <3>2, <3>3
  <2>4. Filled(g, m + 1)
    BY <2>3
  <2>5. m + 1 \in 0 .. L
    BY <1>2
  <2> HIDE DEF g, Filled
  <2> QED
    BY <2>4, <2>5
<1>3. L \in N
  <2>1. L \in Nat /\ N \in SUBSET (0 .. L)
    OBVIOUS
  <2> HIDE DEF L, N
  <2> QED
    BY <1>1, <1>2, <2>1, UpTo
<1>4. PICK f : Filled(f, L)
  BY <1>3
<1> DEFINE g == [p \in Grid(a, b) |-> f[p]]
<1>5. \A p \in Grid(a, b) : p[1] + p[2] <= L
  BY DEF Grid
<1>6. ASSUME NEW p \in Grid(a, b) PROVE f[p] = Cell(a, b, g, p)
  <2>1. f[p] = Cell(a, b, f, p)
    BY <1>4, <1>5
  <2>2. CASE p[1] = 0 \/ p[2] = 0
    BY <2>1, <2>2 DEF Cell
  <2>3. CASE ~ (p[1] = 0 \/ p[2] = 0)
    <3> DEFINE d == <<p[1] - 1, p[2] - 1>>
               u == <<p[1] - 1, p[2]>>
               l == <<p[1], p[2] - 1>>
    <3>1. d \in Grid(a, b) /\ u \in Grid(a, b) /\ l \in Grid(a, b)
      BY <2>3 DEF Grid
    <3>2. g[d] = f[d] /\ g[u] = f[u] /\ g[l] = f[l]
      BY <3>1
    <3> HIDE DEF g
    <3> QED
      BY <2>1, <3>2 DEF Cell
  <2> QED
    BY <2>2, <2>3
<1>7. IsTable(a, b, g)
  BY <1>6 DEF IsTable
<1> HIDE DEF g
<1> QED
  BY <1>7

\* Common is a cell of it.
LEMMA CommonInTable ==
  ASSUME NEW a, NEW b, Len(a) \in Nat, Len(b) \in Nat
  PROVE  \E f : IsTable(a, b, f) /\ Common(a, b) = f[<<Len(a), Len(b)>>]
<1>1. PICK g : g = [p \in Grid(a, b) |-> Cell(a, b, g, p)]
  BY TableExists DEF IsTable
<1>2. \E f : f = [p \in Grid(a, b) |-> Cell(a, b, f, p)] /\ Common(a, b) = f[<<Len(a), Len(b)>>]
  BY <1>1 DEF Common, Grid, Cell
<1> QED
  BY <1>2 DEF IsTable

\* e picks n positions among the first l, in their order.
Increasing(e, n, l) ==
  /\ e \in [1 .. n -> 1 .. l]
  /\ \A j, k \in 1 .. n : j < k => e[j] < e[k]

\* The first i elements of a and the first j of b have a common subsequence.
Picks(a, b, i, j, n, e, g) ==
  /\ Increasing(e, n, i) /\ Increasing(g, n, j)
  /\ \A k \in 1 .. n : a[e[k]] = b[g[k]]

\* c is one, and none is longer.
Longest(a, b, i, j, c) ==
  /\ \E n \in Nat : \E e, g : Picks(a, b, i, j, n, e, g) /\ c = [k \in 1 .. n |-> a[e[k]]]
  /\ \A n \in Nat : \A e, g : Picks(a, b, i, j, n, e, g) => n <= Len(c)

\* Widening a choice, cutting its last position and adding one.
LEMMA IncreasingFacts ==
  ASSUME NEW n \in Nat, NEW l \in Nat, NEW e, Increasing(e, n, l)
  PROVE  /\ \A h \in Nat : l <= h => Increasing(e, n, h)
         /\ l = 0 => n = 0
         /\ (n > 0 /\ e[n] < l) => Increasing(e, n, l - 1)
         /\ n > 0 => Increasing([k \in 1 .. n - 1 |-> e[k]], n - 1, l - 1)
         /\ Increasing([k \in 1 .. n + 1 |-> IF k = n + 1 THEN l + 1 ELSE e[k]], n + 1, l + 1)
<1>1. /\ e \in [1 .. n -> 1 .. l]
      /\ \A j, k \in 1 .. n : j < k => e[j] < e[k]
  BY DEF Increasing
<1>2. ASSUME NEW h \in Nat, l <= h PROVE Increasing(e, n, h)
  BY <1>1, <1>2 DEF Increasing
<1>3. l = 0 => n = 0
  BY <1>1
<1>4. ASSUME n > 0, e[n] < l PROVE Increasing(e, n, l - 1)
  <2>1. \A k \in 1 .. n : e[k] \in 1 .. l - 1
    <3> SUFFICES ASSUME NEW k \in 1 .. n PROVE e[k] \in 1 .. l - 1
      OBVIOUS
    <3>1. k = n \/ k < n
      OBVIOUS
    <3>2. e[n] \in 1 .. l /\ e[k] \in 1 .. l /\ (k < n => e[k] < e[n])
      BY <1>1, <1>4
    <3> QED
      BY <1>4, <3>1, <3>2
  <2> QED
    BY <1>1, <2>1 DEF Increasing
<1>5. ASSUME n > 0 PROVE Increasing([k \in 1 .. n - 1 |-> e[k]], n - 1, l - 1)
  <2>1. \A k \in 1 .. n - 1 : e[k] \in 1 .. l - 1
    <3> SUFFICES ASSUME NEW k \in 1 .. n - 1 PROVE e[k] \in 1 .. l - 1
      OBVIOUS
    <3>1. k \in 1 .. n /\ n \in 1 .. n /\ k < n
      BY <1>5
    <3>2. e[n] \in 1 .. l /\ e[k] \in 1 .. l /\ e[k] < e[n]
      BY <1>1, <3>1
    <3> QED
      BY <3>2
  <2> QED
    BY <1>1, <2>1 DEF Increasing
<1>6. Increasing([k \in 1 .. n + 1 |-> IF k = n + 1 THEN l + 1 ELSE e[k]], n + 1, l + 1)
  <2> DEFINE h == [k \in 1 .. n + 1 |-> IF k = n + 1 THEN l + 1 ELSE e[k]]
  <2>1. \A k \in 1 .. n : e[k] \in 1 .. l /\ h[k] = e[k]
    BY <1>1
  <2>2. h[n + 1] = l + 1
    OBVIOUS
  <2>3. h \in [1 .. n + 1 -> 1 .. l + 1]
    BY <1>1
  <2>4. ASSUME NEW j \in 1 .. n + 1, NEW k \in 1 .. n + 1, j < k PROVE h[j] < h[k]
    <3>1. j \in 1 .. n /\ (k \in 1 .. n \/ k = n + 1)
      BY <2>4
    <3> HIDE DEF h
    <3>2. CASE k \in 1 .. n
      BY <1>1, <2>1, <2>4, <3>1, <3>2
    <3>3. CASE k = n + 1
      BY <2>1, <2>2, <3>1, <3>3
    <3> QED
      BY <3>1, <3>2, <3>3
  <2> QED
    BY <2>3, <2>4 DEF Increasing
<1> QED
  BY <1>2, <1>3, <1>4, <1>5, <1>6

\* A choice of elements of a sequence is a sequence.
LEMMA ChosenFacts ==
  ASSUME NEW S, NEW s \in Seq(S), NEW n \in Nat, NEW l \in 0 .. Len(s), NEW e,
         Increasing(e, n, l)
  PROVE  /\ [k \in 1 .. n |-> s[e[k]]] \in Seq(S)
         /\ Len([k \in 1 .. n |-> s[e[k]]]) = n
<1> DEFINE c == [k \in 1 .. n |-> s[e[k]]]
<1>1. \A k \in 1 .. n : e[k] \in 1 .. Len(s)
  BY LenProperties DEF Increasing
<1>2. c \in [1 .. n -> S]
  BY <1>1, ElementOfSeq
<1>3. c \in Seq(S)
  BY <1>2, SeqDef
<1>4. DOMAIN c = 1 .. n /\ DOMAIN c = 1 .. Len(c) /\ Len(c) \in Nat
  BY <1>3, LenProperties
<1> HIDE DEF c
<1>5. Len(c) = n
  BY <1>4
<1> QED
  BY <1>3, <1>5 DEF c

\* Equal last elements: a longest subsequence of the rest, and this element.
LEMMA LongestMatch ==
  ASSUME NEW S, NEW a \in Seq(S), NEW b \in Seq(S),
         NEW i \in 1 .. Len(a), NEW j \in 1 .. Len(b), a[i] = b[j],
         NEW d, Longest(a, b, i - 1, j - 1, d)
  PROVE  Longest(a, b, i, j, Append(d, a[i]))
<1>0. Len(a) \in Nat /\ Len(b) \in Nat /\ i - 1 \in 0 .. Len(a) /\ j - 1 \in 0 .. Len(b)
      /\ a[i] \in S /\ i \in Nat /\ j \in Nat
  BY LenProperties, ElementOfSeq
<1>1a. PICK n \in Nat : \E e, g :
         /\ Picks(a, b, i - 1, j - 1, n, e, g)
         /\ d = [k \in 1 .. n |-> a[e[k]]]
  BY DEF Longest
<1>1. PICK e, g :
         /\ Picks(a, b, i - 1, j - 1, n, e, g)
         /\ d = [k \in 1 .. n |-> a[e[k]]]
  BY <1>1a
<1>2. d \in Seq(S) /\ Len(d) = n
  BY <1>0, <1>1, ChosenFacts DEF Picks
<1>3. /\ Append(d, a[i]) \in Seq(S) /\ Len(Append(d, a[i])) = n + 1
      /\ \A k \in 1 .. n : Append(d, a[i])[k] = d[k]
      /\ Append(d, a[i])[n + 1] = a[i]
  BY <1>0, <1>2, AppendProperties
<1> DEFINE e1 == [k \in 1 .. n + 1 |-> IF k = n + 1 THEN i - 1 + 1 ELSE e[k]]
           g1 == [k \in 1 .. n + 1 |-> IF k = n + 1 THEN j - 1 + 1 ELSE g[k]]
           c  == [k \in 1 .. n + 1 |-> a[e1[k]]]
<1>4. Increasing(e1, n + 1, i - 1 + 1) /\ Increasing(g1, n + 1, j - 1 + 1)
  <2>1. i - 1 \in Nat /\ j - 1 \in Nat
    OBVIOUS
  <2>2. Increasing(e, n, i - 1) /\ Increasing(g, n, j - 1)
    BY <1>1 DEF Picks
  <2> QED
    BY <2>1, <2>2, IncreasingFacts
<1>5. i - 1 + 1 = i /\ j - 1 + 1 = j
  OBVIOUS
<1>6. \A k \in 1 .. n + 1 : a[e1[k]] = b[g1[k]]
  <2> TAKE k \in 1 .. n + 1
  <2>1. CASE k = n + 1
    BY <1>5, <2>1
  <2>2. CASE k # n + 1
    <3>1. k \in 1 .. n
      BY <2>2
    <3> QED
      BY <1>1, <2>2, <3>1 DEF Picks
  <2> QED
    BY <2>1, <2>2
<1>7. Append(d, a[i]) = c
  <2>1. ASSUME NEW k \in 1 .. n + 1 PROVE Append(d, a[i])[k] = a[e1[k]]
    <3>1. CASE k = n + 1
      BY <1>3, <1>5, <3>1
    <3>2. CASE k # n + 1
      <4>1. k \in 1 .. n
        BY <3>2
      <4> QED
        BY <1>1, <1>3, <3>2, <4>1
    <3> QED
      BY <3>1, <3>2
  <2>2. Append(d, a[i]) \in [1 .. n + 1 -> S]
    BY <1>3, LenProperties
  <2> HIDE DEF e1
  <2> QED
    BY <2>1, <2>2
<1>8. Picks(a, b, i, j, n + 1, e1, g1)
  <2> HIDE DEF e1, g1
  <2> QED
    BY <1>4, <1>5, <1>6 DEF Picks
<1>9. ASSUME NEW m \in Nat, NEW f, NEW h, Picks(a, b, i, j, m, f, h)
      PROVE  m <= n + 1
  <2>1. CASE m = 0
    BY <2>1
  <2>2. CASE m > 0
    <3> DEFINE f1 == [k \in 1 .. m - 1 |-> f[k]]
               h1 == [k \in 1 .. m - 1 |-> h[k]]
    <3>1. Increasing(f1, m - 1, i - 1) /\ Increasing(h1, m - 1, j - 1)
      BY <1>0, <1>9, <2>2, IncreasingFacts DEF Picks
    <3>2. \A k \in 1 .. m - 1 : a[f1[k]] = b[h1[k]]
      BY <1>9, <2>2 DEF Picks
    <3>3. m - 1 \in Nat
      BY <2>2
    <3> HIDE DEF f1, h1
    <3>4. m - 1 <= Len(d)
      BY <3>1, <3>2, <3>3 DEF Longest, Picks
    <3> QED
      BY <1>2, <3>4
  <2> QED
    BY <2>1, <2>2
<1> HIDE DEF e1, g1
<1>10. n + 1 \in Nat
  OBVIOUS
<1> QED
  BY <1>3, <1>7, <1>8, <1>9, <1>10 DEF Longest

\* Different last elements: the longer of the two candidates.
LEMMA LongestMismatch ==
  ASSUME NEW S, NEW a \in Seq(S), NEW b \in Seq(S),
         NEW i \in 1 .. Len(a), NEW j \in 1 .. Len(b), a[i] # b[j],
         NEW u, Longest(a, b, i - 1, j, u), NEW l, Longest(a, b, i, j - 1, l)
  PROVE  Longest(a, b, i, j, IF Len(u) > Len(l) THEN u ELSE l)
<1> DEFINE c == IF Len(u) > Len(l) THEN u ELSE l
<1>0. /\ Len(a) \in Nat /\ Len(b) \in Nat /\ i \in Nat /\ j \in Nat
      /\ i - 1 \in 0 .. Len(a) /\ i \in 0 .. Len(a) /\ i - 1 \in Nat /\ j - 1 \in Nat
  BY LenProperties
<1>1a. PICK n \in Nat : \E e, g :
         /\ Picks(a, b, i - 1, j, n, e, g)
         /\ u = [k \in 1 .. n |-> a[e[k]]]
  BY DEF Longest
<1>1. PICK e, g :
         /\ Picks(a, b, i - 1, j, n, e, g)
         /\ u = [k \in 1 .. n |-> a[e[k]]]
  BY <1>1a
<1>2a. PICK m \in Nat : \E f, h :
         /\ Picks(a, b, i, j - 1, m, f, h)
         /\ l = [k \in 1 .. m |-> a[f[k]]]
  BY DEF Longest
<1>2. PICK f, h :
         /\ Picks(a, b, i, j - 1, m, f, h)
         /\ l = [k \in 1 .. m |-> a[f[k]]]
  BY <1>2a
<1>3. Len(u) = n /\ Len(l) = m
  <2>1. Increasing(e, n, i - 1) /\ Increasing(f, m, i)
    BY <1>1, <1>2 DEF Picks
  <2>2. Len(u) = n
    BY <1>0, <1>1, <2>1, ChosenFacts
  <2>3. Len(l) = m
    BY <1>0, <1>2, <2>1, ChosenFacts
  <2> QED
    BY <2>2, <2>3
<1>4. Picks(a, b, i, j, n, e, g) /\ Picks(a, b, i, j, m, f, h)
  <2>1. i - 1 <= i /\ j - 1 <= j
    BY <1>0
  <2>2. /\ Increasing(e, n, i - 1) /\ Increasing(g, n, j)
        /\ Increasing(f, m, i) /\ Increasing(h, m, j - 1)
    BY <1>1, <1>2 DEF Picks
  <2>3. Increasing(e, n, i) /\ Increasing(h, m, j)
    BY <1>0, <2>1, <2>2, IncreasingFacts
  <2> QED
    BY <1>1, <1>2, <2>2, <2>3 DEF Picks
<1>5. ASSUME NEW q \in Nat, NEW x, NEW y, Picks(a, b, i, j, q, x, y)
      PROVE  q <= Len(c)
  <2>0. Increasing(x, q, i) /\ Increasing(y, q, j) /\ \A k \in 1 .. q : a[x[k]] = b[y[k]]
    BY <1>5 DEF Picks
  <2>1. CASE q = 0
    BY <1>3, <2>1
  <2>2. CASE q > 0
    <3>1. q \in 1 .. q /\ x[q] \in 1 .. i /\ y[q] \in 1 .. j
      BY <2>0, <2>2 DEF Increasing
    <3>2. x[q] < i \/ y[q] < j
      <4>1. ~ (x[q] = i /\ y[q] = j)
        BY <2>0, <3>1
      <4> QED
        BY <1>0, <3>1, <4>1
    <3>3. CASE x[q] < i
      <4>1. Increasing(x, q, i - 1)
        BY <1>0, <2>0, <2>2, <3>3, IncreasingFacts
      <4>2. Picks(a, b, i - 1, j, q, x, y)
        BY <2>0, <4>1 DEF Picks
      <4>3. q <= Len(u)
        BY <4>2 DEF Longest
      <4> QED
        BY <1>3, <4>3
    <3>4. CASE y[q] < j
      <4>1. Increasing(y, q, j - 1)
        BY <1>0, <2>0, <2>2, <3>4, IncreasingFacts
      <4>2. Picks(a, b, i, j - 1, q, x, y)
        BY <2>0, <4>1 DEF Picks
      <4>3. q <= Len(l)
        BY <4>2 DEF Longest
      <4> QED
        BY <1>3, <4>3
    <3> QED
      BY <3>2, <3>3, <3>4
  <2> QED
    BY <2>1, <2>2
<1>6. \E q \in Nat : \E x, y : Picks(a, b, i, j, q, x, y) /\ c = [k \in 1 .. q |-> a[x[k]]]
  BY <1>1, <1>2, <1>4
<1> HIDE DEF c
<1>7. Longest(a, b, i, j, c)
  BY <1>5, <1>6 DEF Longest
<1> QED
  BY <1>7 DEF c

\* Without elements there is nothing in common.
LEMMA LongestEmpty ==
  ASSUME NEW a, NEW b, NEW i \in Nat, NEW j \in Nat, i = 0 \/ j = 0
  PROVE  Longest(a, b, i, j, << >>)
<1> DEFINE e == [k \in 1 .. 0 |-> k]
<1>1. Increasing(e, 0, i) /\ Increasing(e, 0, j)
  BY DEF Increasing
<1>2. Picks(a, b, i, j, 0, e, e)
  BY <1>1 DEF Picks
<1>3. << >> = [k \in 1 .. 0 |-> a[e[k]]]
  OBVIOUS
<1>4. ASSUME NEW n \in Nat, NEW f, NEW g, Picks(a, b, i, j, n, f, g)
      PROVE  n <= 0
  <2>1. Increasing(f, n, i) /\ Increasing(g, n, j)
    BY <1>4 DEF Picks
  <2>2. (i = 0 => n = 0) /\ (j = 0 => n = 0)
    BY <2>1, IncreasingFacts
  <2> QED
    BY <2>2
<1> HIDE DEF e
<1> QED
  BY <1>2, <1>3, <1>4 DEF Longest

\* Every cell holds a longest common subsequence of its two prefixes.
LEMMA TableIsLongest ==
  ASSUME NEW S, NEW a \in Seq(S), NEW b \in Seq(S), NEW f, IsTable(a, b, f)
  PROVE  \A p \in Grid(a, b) : Longest(a, b, p[1], p[2], f[p])
<1>0. Len(a) \in Nat /\ Len(b) \in Nat
  BY LenProperties
<1> DEFINE Good(m) == \A p \in Grid(a, b) : p[1] + p[2] <= m => Longest(a, b, p[1], p[2], f[p])
           L == Len(a) + Len(b)
           N == {m \in 0 .. L : Good(m)}
<1>1. ASSUME NEW p \in Grid(a, b),
             \A q \in Grid(a, b) : q[1] + q[2] < p[1] + p[2] => Longest(a, b, q[1], q[2], f[q])
      PROVE  Longest(a, b, p[1], p[2], f[p])
  <2>1. /\ p[1] \in Nat /\ p[2] \in Nat /\ p[1] <= Len(a) /\ p[2] <= Len(b)
        /\ f[p] = Cell(a, b, f, p)
    BY DEF Grid, IsTable
  <2>2. CASE p[1] = 0 \/ p[2] = 0
    BY <2>1, <2>2, LongestEmpty DEF Cell
  <2>3. CASE ~ (p[1] = 0 \/ p[2] = 0)
    <3> DEFINE d == <<p[1] - 1, p[2] - 1>>
               u == <<p[1] - 1, p[2]>>
               l == <<p[1], p[2] - 1>>
    <3>1. d \in Grid(a, b) /\ u \in Grid(a, b) /\ l \in Grid(a, b)
      BY <1>0, <2>1, <2>3 DEF Grid
    <3>2. /\ d[1] + d[2] < p[1] + p[2] /\ u[1] + u[2] < p[1] + p[2]
          /\ l[1] + l[2] < p[1] + p[2]
      BY <2>1
    <3>3. /\ Longest(a, b, p[1] - 1, p[2] - 1, f[d]) /\ Longest(a, b, p[1] - 1, p[2], f[u])
          /\ Longest(a, b, p[1], p[2] - 1, f[l])
      <4>1. Longest(a, b, d[1], d[2], f[d])
        BY <1>1, <3>1, <3>2
      <4>2. Longest(a, b, u[1], u[2], f[u])
        BY <1>1, <3>1, <3>2
      <4>3. Longest(a, b, l[1], l[2], f[l])
        BY <1>1, <3>1, <3>2
      <4> QED
        BY <4>1, <4>2, <4>3
    <3>4. p[1] \in 1 .. Len(a) /\ p[2] \in 1 .. Len(b)
      BY <1>0, <2>1, <2>3
    <3>5. CASE a[p[1]] = b[p[2]]
      <4>1. f[p] = Append(f[d], a[p[1]])
        BY <2>1, <2>3, <3>5 DEF Cell
      <4> HIDE DEF d, u, l
      <4> QED
        BY <3>3, <3>4, <3>5, <4>1, LongestMatch
    <3>6. CASE a[p[1]] # b[p[2]]
      <4>1. f[p] = IF Len(f[u]) > Len(f[l]) THEN f[u] ELSE f[l]
        BY <2>1, <2>3, <3>6 DEF Cell
      <4> HIDE DEF d, u, l
      <4> QED
        BY <3>3, <3>4, <3>6, <4>1, LongestMismatch
    <3> QED
      BY <3>5, <3>6
  <2> QED
    BY <2>2, <2>3
<1>2. \A p \in Grid(a, b) : p[1] \in Nat /\ p[2] \in Nat /\ p[1] + p[2] <= L
  BY <1>0 DEF Grid
<1>3. Good(0)
  BY <1>1, <1>2
<1>4. ASSUME NEW m \in 0 .. L, Good(m) PROVE Good(m + 1)
  <2> SUFFICES ASSUME NEW p \in Grid(a, b), p[1] + p[2] <= m + 1
               PROVE  Longest(a, b, p[1], p[2], f[p])
    OBVIOUS
  <2>1. \A q \in Grid(a, b) : q[1] + q[2] < p[1] + p[2] => q[1] + q[2] <= m
    BY <1>2
  <2>2. \A q \in Grid(a, b) : q[1] + q[2] < p[1] + p[2] => Longest(a, b, q[1], q[2], f[q])
    BY <1>4, <2>1
  <2> QED
    BY <1>1, <2>2
<1> HIDE DEF Good
<1>5. L \in N
  <2>1. L \in Nat /\ N \in SUBSET (0 .. L) /\ 0 \in N
    BY <1>0, <1>3
  <2>2. \A m \in N : m < L => m + 1 \in N
    BY <1>0, <1>4
  <2> HIDE DEF L, N
  <2> QED
    BY <2>1, <2>2, UpTo
<1> QED
  BY <1>2, <1>5 DEF Good

\* And so does the last one.
LEMMA CommonFacts ==
  ASSUME NEW S, NEW a \in Seq(S), NEW b \in Seq(S)
  PROVE  Longest(a, b, Len(a), Len(b), Common(a, b))
<1>1. Len(a) \in Nat /\ Len(b) \in Nat
  BY LenProperties
<1>2. PICK f : IsTable(a, b, f) /\ Common(a, b) = f[<<Len(a), Len(b)>>]
  BY <1>1, CommonInTable
<1>3. <<Len(a), Len(b)>> \in Grid(a, b)
  BY <1>1 DEF Grid
<1> QED
  BY <1>2, <1>3, TableIsLongest

-----------------------------------------------------------------------------
(***************************************************************************)
(* Increasing choices of positions, and the subsequences they pick.        *)
(***************************************************************************)
\* The elements of P in their order, as CommonIsLongest lists them.
UpToIn(P, p) == {q \in P : q <= p}
Nth(P, k) == CHOOSE p \in P : Cardinality(UpToIn(P, p)) = k

\* The rank of an element is the number of those up to it: ranks keep the order and
\* are all taken.
LEMMA RankFacts ==
  ASSUME NEW l \in Nat, NEW P \in SUBSET (1 .. l)
  PROVE  /\ IsFiniteSet(P) /\ Cardinality(P) \in Nat /\ Cardinality(P) <= l
         /\ \A p \in P : Cardinality(UpToIn(P, p)) \in 1 .. Cardinality(P)
         /\ \A p, q \in P : p < q => Cardinality(UpToIn(P, p)) < Cardinality(UpToIn(P, q))
         /\ \A k \in 1 .. Cardinality(P) : \E p \in P : Cardinality(UpToIn(P, p)) = k
<1> DEFINE R(p) == UpToIn(P, p)
           n == Cardinality(P)
           rank == [p \in P |-> Cardinality(R(p))]
<1>1. IsFiniteSet(P) /\ n \in Nat /\ n <= l
  <2>1. IsFiniteSet(1 .. l) /\ Cardinality(1 .. l) = l
    BY FS_Interval
  <2> QED
    BY <2>1, FS_Subset, FS_CardinalityType
<1>2. ASSUME NEW p \in P
      PROVE  IsFiniteSet(R(p)) /\ Cardinality(R(p)) \in 1 .. n
  <2>1. R(p) \in SUBSET P /\ p \in R(p)
    BY DEF UpToIn
  <2>2. IsFiniteSet(R(p)) /\ Cardinality(R(p)) <= n /\ Cardinality(R(p)) \in Nat
    BY <1>1, <2>1, FS_Subset, FS_CardinalityType
  <2>3. Cardinality(R(p)) # 0
    BY <2>1, <2>2, FS_EmptySet
  <2> QED
    BY <1>1, <2>2, <2>3
<1>3. ASSUME NEW p \in P, NEW q \in P, p < q
      PROVE  Cardinality(R(p)) < Cardinality(R(q))
  <2>1. R(p) \in SUBSET R(q) /\ q \in R(q) /\ q \notin R(p)
    <3>1. p \in Int /\ q \in Int /\ \A x \in P : x \in Int
      OBVIOUS
    <3>2. \A x \in P : x <= p => x <= q
      BY <1>3, <3>1
    <3>3. q <= q /\ ~ (q <= p)
      BY <1>3, <3>1
    <3> QED
      BY <3>2, <3>3 DEF UpToIn
  <2>2. Cardinality(R(p)) <= Cardinality(R(q)) /\ Cardinality(R(p)) # Cardinality(R(q))
    BY <1>2, <2>1, FS_Subset
  <2> QED
    BY <1>2, <2>2
<1>4. rank \in Injection(P, 1 .. n)
  <2>1. rank \in [P -> 1 .. n]
    BY <1>2
  <2>2. ASSUME NEW p \in P, NEW q \in P, rank[p] = rank[q] PROVE p = q
    <3>1. p \in Int /\ q \in Int /\ rank[p] \in Int /\ rank[q] \in Int
      BY <2>1
    <3>2. (p < q => rank[p] < rank[q]) /\ (q < p => rank[q] < rank[p])
      BY <1>3
    <3> HIDE DEF rank
    <3> QED
      BY <2>2, <3>1, <3>2
  <2> HIDE DEF rank
  <2> QED
    BY <2>1, <2>2 DEF Injection, IsInjective
<1>5. rank \in Surjection(P, 1 .. n)
  <2>1. IsFiniteSet(1 .. n) /\ Cardinality(1 .. n) = n
    BY <1>1, FS_Interval
  <2> HIDE DEF rank
  <2> QED
    BY <1>4, <2>1, FS_Injection
<1>6. ASSUME NEW k \in 1 .. n PROVE \E p \in P : Cardinality(R(p)) = k
  BY <1>5 DEF Surjection
<1> QED
  BY <1>1, <1>2, <1>3, <1>6

\* So the elements in their order are an increasing choice.
LEMMA NthFacts ==
  ASSUME NEW l \in Nat, NEW P \in SUBSET (1 .. l)
  PROVE  /\ Cardinality(P) \in Nat
         /\ \A k \in 1 .. Cardinality(P) :
              Nth(P, k) \in P /\ Cardinality(UpToIn(P, Nth(P, k))) = k
         /\ Increasing([k \in 1 .. Cardinality(P) |-> Nth(P, k)], Cardinality(P), l)
<1> DEFINE n == Cardinality(P)
           e == [k \in 1 .. n |-> Nth(P, k)]
<1>1. n \in Nat
  BY RankFacts
<1>2. ASSUME NEW k \in 1 .. n PROVE Nth(P, k) \in P /\ Cardinality(UpToIn(P, Nth(P, k))) = k
  BY RankFacts DEF Nth
<1>3. ASSUME NEW j \in 1 .. n, NEW k \in 1 .. n, j < k PROVE e[j] < e[k]
  <2>1. /\ e[j] \in P /\ e[k] \in P
        /\ Cardinality(UpToIn(P, e[j])) = j /\ Cardinality(UpToIn(P, e[k])) = k
    BY <1>2
  <2>2. e[j] \in Int /\ e[k] \in Int
    <3>1. \A x \in P : x \in Int
      OBVIOUS
    <3> HIDE DEF e
    <3> QED
      BY <2>1, <3>1
  <2>3. e[k] < e[j] => k < j
    BY <2>1, RankFacts
  <2> HIDE DEF e
  <2> QED
    BY <1>1, <1>3, <2>1, <2>2, <2>3
<1>4. e \in [1 .. n -> 1 .. l]
  BY <1>2
<1> HIDE DEF e
<1>5. Increasing(e, n, l)
  BY <1>3, <1>4 DEF Increasing
<1> QED
  BY <1>1, <1>2, <1>5 DEF e

\* And every increasing choice is the elements of a set in their order.
LEMMA PickedSet ==
  ASSUME NEW l \in Nat, NEW n \in Nat, NEW e, Increasing(e, n, l)
  PROVE  \E P \in SUBSET (1 .. l) :
            /\ P = {e[k] : k \in 1 .. n} /\ Cardinality(P) = n
            /\ \A k \in 1 .. n : Nth(P, k) = e[k]
<1> DEFINE P == {e[k] : k \in 1 .. n}
<1>1. e \in [1 .. n -> 1 .. l] /\ \A j, k \in 1 .. n : j < k => e[j] < e[k]
  BY DEF Increasing
<1>2. P \in SUBSET (1 .. l)
  BY <1>1
<1>3. \A j, k \in 1 .. n : e[j] = e[k] => j = k
  <2> TAKE j, k \in 1 .. n
  <2>1. e[j] \in Int /\ e[k] \in Int /\ j \in Int /\ k \in Int
    BY <1>1
  <2>2. (j < k => e[j] < e[k]) /\ (k < j => e[k] < e[j])
    BY <1>1
  <2> QED
    BY <2>1, <2>2
<1>4. ASSUME NEW m \in 0 .. n
      PROVE  Cardinality({e[k] : k \in 1 .. m}) = m
  <2> DEFINE g == [k \in 1 .. m |-> e[k]]
             Q == {e[k] : k \in 1 .. m}
  <2>1. m \in Nat /\ \A k \in 1 .. m : k \in 1 .. n
    OBVIOUS
  <2>2. g \in Injection(1 .. m, Q)
    BY <1>3, <2>1 DEF Injection, IsInjective
  <2>3. g \in Surjection(1 .. m, Q)
    BY DEF Surjection
  <2>4. IsFiniteSet(1 .. m) /\ Cardinality(1 .. m) = m
    BY <2>1, FS_Interval
  <2> HIDE DEF g, Q
  <2>5. ExistsBijection(1 .. m, Q)
    BY <2>2, <2>3 DEF ExistsBijection, Bijection
  <2>6. Cardinality(Q) = m
    BY <2>4, <2>5, FS_Bijection
  <2> QED
    BY <2>6 DEF Q
<1>5. Cardinality(P) = n
  BY <1>4
<1>6. ASSUME NEW k \in 1 .. n PROVE Cardinality(UpToIn(P, e[k])) = k
  <2>1. \A j \in 1 .. n : e[j] <= e[k] <=> j <= k
    <3> TAKE j \in 1 .. n
    <3>1. e[j] \in Int /\ e[k] \in Int /\ j \in Int /\ k \in Int
      BY <1>1
    <3>2. (j < k => e[j] < e[k]) /\ (k < j => e[k] < e[j]) /\ (j = k => e[j] = e[k])
      BY <1>1
    <3> QED
      BY <3>1, <3>2
  <2>2. UpToIn(P, e[k]) = {e[j] : j \in 1 .. k}
    <3>1. 1 .. k \subseteq 1 .. n /\ \A j \in 1 .. n : j <= k <=> j \in 1 .. k
      OBVIOUS
    <3>2. ASSUME NEW x \in UpToIn(P, e[k]) PROVE x \in {e[j] : j \in 1 .. k}
      BY <2>1, <3>1 DEF UpToIn
    <3>3. ASSUME NEW j \in 1 .. k PROVE e[j] \in UpToIn(P, e[k])
      BY <2>1, <3>1 DEF UpToIn
    <3> QED
      BY <3>2, <3>3
  <2>3. k \in 0 .. n
    OBVIOUS
  <2> QED
    BY <1>4, <2>2, <2>3
<1>7. ASSUME NEW k \in 1 .. n PROVE Nth(P, k) = e[k]
  <2>1. Nth(P, k) \in P /\ Cardinality(UpToIn(P, Nth(P, k))) = k
    BY <1>2, <1>5, NthFacts
  <2>2. PICK j \in 1 .. n : Nth(P, k) = e[j]
    BY <2>1
  <2>3. Cardinality(UpToIn(P, Nth(P, k))) = j
    BY <1>6, <2>2
  <2> QED
    BY <2>1, <2>2, <2>3
<1>8. P = {e[k] : k \in 1 .. n}
  OBVIOUS
<1> HIDE DEF P
<1> QED
  BY <1>2, <1>5, <1>7, <1>8

\* The subsequences of s are what increasing choices of its positions pick.
LEMMA SubsequenceFacts ==
  ASSUME NEW S, NEW s \in Seq(S), NEW c
  PROVE  c \in Subsequences(s) <=>
           \E n \in Nat : \E e : Increasing(e, n, Len(s)) /\ c = [k \in 1 .. n |-> s[e[k]]]
<1>1. Len(s) \in Nat /\ DOMAIN s = 1 .. Len(s)
  BY LenProperties
<1>2. ASSUME NEW P \in SUBSET DOMAIN s,
             c = [k \in 1 .. Cardinality(P) |-> s[Nth(P, k)]]
      PROVE  \E n \in Nat : \E e : Increasing(e, n, Len(s)) /\ c = [k \in 1 .. n |-> s[e[k]]]
  <2> DEFINE n == Cardinality(P)
             e == [k \in 1 .. n |-> Nth(P, k)]
  <2>1. n \in Nat /\ Increasing(e, n, Len(s))
    BY <1>1, NthFacts
  <2>2. c = [k \in 1 .. n |-> s[e[k]]]
    BY <1>2
  <2> HIDE DEF n, e
  <2> QED
    BY <2>1, <2>2
<1>3. ASSUME NEW n \in Nat, NEW e, Increasing(e, n, Len(s)), c = [k \in 1 .. n |-> s[e[k]]]
      PROVE  \E P \in SUBSET DOMAIN s : c = [k \in 1 .. Cardinality(P) |-> s[Nth(P, k)]]
  <2>1. PICK P \in SUBSET (1 .. Len(s)) :
           Cardinality(P) = n /\ \A k \in 1 .. n : Nth(P, k) = e[k]
    BY <1>1, <1>3, PickedSet
  <2>2. c = [k \in 1 .. Cardinality(P) |-> s[Nth(P, k)]]
    BY <1>3, <2>1
  <2> QED
    BY <1>1, <2>1, <2>2
<1>4. (\E P \in SUBSET DOMAIN s : c = [k \in 1 .. Cardinality(P) |-> s[Nth(P, k)]])
      <=> (\E n \in Nat : \E e : Increasing(e, n, Len(s)) /\ c = [k \in 1 .. n |-> s[e[k]]])
  BY <1>2, <1>3
<1>5. c \in Subsequences(s) <=>
        \E P \in SUBSET DOMAIN s : c = [k \in 1 .. Cardinality(P) |-> s[Nth(P, k)]]
  BY DEF Subsequences, Nth, UpToIn
<1> QED
  BY <1>4, <1>5

\* A choice of all positions is the identity.
LEMMA OnlyIncreasing ==
  ASSUME NEW n \in Nat, NEW e, Increasing(e, n, n)
  PROVE  \A k \in 1 .. n : e[k] = k
<1>1. /\ e \in [1 .. n -> 1 .. n]
      /\ \A j, k \in 1 .. n : j < k => e[j] < e[k]
  BY DEF Increasing
<1>3. ASSUME NEW k \in 1 .. n PROVE e[k] >= k
  <2> DEFINE C == {m \in 0 .. k : m = 0 \/ e[m] >= m}
  <2>1. ASSUME NEW m \in C, m < k PROVE m + 1 \in C
    <3>0. m \in Nat /\ m + 1 \in 1 .. n /\ e[m + 1] \in Nat /\ m + 1 \in 0 .. k
      BY <1>1, <2>1
    <3>1. CASE m = 0
      <4>1. e[m + 1] >= m + 1
        BY <1>1, <3>0, <3>1
      <4> QED
        BY <3>0, <4>1
    <3>2. CASE m # 0
      <4>1. m \in 1 .. n /\ e[m] >= m /\ e[m] \in Nat
        BY <1>1, <2>1, <3>0, <3>2
      <4>2. e[m] < e[m + 1]
        BY <1>1, <3>0, <4>1
      <4>3. e[m + 1] >= m + 1
        BY <3>0, <4>1, <4>2
      <4> QED
        BY <3>0, <4>3
    <3> QED
      BY <3>1, <3>2
  <2>2. C \in SUBSET (0 .. k) /\ 0 \in C /\ k \in Nat
    OBVIOUS
  <2>3. k \in C
    <3> HIDE DEF C
    <3> QED
      BY <2>1, <2>2, UpTo
  <2> QED
    BY <2>3
<1>4. ASSUME NEW k \in 1 .. n PROVE e[k] <= k
  <2> DEFINE d == n - k
             C == {m \in 0 .. d : e[n - m] <= n - m}
  <2>0. d \in Nat /\ n - d = k
    OBVIOUS
  <2>1. ASSUME NEW m \in C, m < d PROVE m + 1 \in C
    <3>1. /\ m \in Nat /\ n - m \in 1 .. n /\ n - (m + 1) \in 1 .. n
          /\ n - (m + 1) < n - m /\ m + 1 \in 0 .. d /\ e[n - m] <= n - m
      BY <2>0, <2>1
    <3>2. e[n - (m + 1)] < e[n - m] /\ e[n - m] \in Nat /\ e[n - (m + 1)] \in Nat
      BY <1>1, <3>1
    <3>3. e[n - (m + 1)] <= n - (m + 1)
      BY <3>1, <3>2
    <3> QED
      BY <3>1, <3>3
  <2>2. C \in SUBSET (0 .. d) /\ 0 \in C
    <3>1. e[n - 0] <= n - 0
      BY <1>1
    <3> QED
      BY <2>0, <3>1
  <2>3. d \in C
    <3> HIDE DEF C, d
    <3> QED
      BY <2>0, <2>1, <2>2, UpTo
  <2>4. e[n - d] <= n - d
    BY <2>3
  <2> HIDE DEF d
  <2> QED
    BY <2>0, <2>4
<1> QED
  <2> TAKE k \in 1 .. n
  <2>1. e[k] \in Nat /\ k \in Nat
    BY <1>1
  <2> QED
    BY <1>3, <1>4, <2>1

\* do_proper_diff finds two texts the same exactly if they are equal.
LEMMA SameFacts ==
  ASSUME NEW S, NEW a \in Seq(S), NEW b \in Seq(S)
  PROVE  Same(a, b) <=> a = b
<1>1. Len(a) \in Nat /\ Len(b) \in Nat /\ DOMAIN a = 1 .. Len(a) /\ DOMAIN b = 1 .. Len(b)
      /\ a = [k \in 1 .. Len(a) |-> a[k]] /\ b = [k \in 1 .. Len(b) |-> b[k]]
  BY LenProperties, SeqDef
<1>2a. PICK n \in Nat : \E e, g :
         /\ Picks(a, b, Len(a), Len(b), n, e, g)
         /\ Common(a, b) = [k \in 1 .. n |-> a[e[k]]]
  BY CommonFacts DEF Longest
<1>2. PICK e, g :
         /\ Picks(a, b, Len(a), Len(b), n, e, g)
         /\ Common(a, b) = [k \in 1 .. n |-> a[e[k]]]
  BY <1>2a
<1>3. Len(Common(a, b)) = n
  BY <1>1, <1>2, ChosenFacts DEF Picks
<1>4. ASSUME Same(a, b) PROVE a = b
  <2>1. n = Len(a) /\ n = Len(b)
    BY <1>3, <1>4 DEF Same
  <2>2. \A k \in 1 .. n : e[k] = k /\ g[k] = k
    BY <1>2, <2>1, OnlyIncreasing DEF Picks
  <2>3. \A k \in 1 .. n : a[k] = b[k]
    BY <1>2, <2>2 DEF Picks
  <2> QED
    BY <1>1, <2>1, <2>3
<1>5. ASSUME a = b PROVE Same(a, b)
  <2> DEFINE h == [k \in 1 .. Len(a) |-> k]
  <2>1. Increasing(h, Len(a), Len(a))
    BY <1>1 DEF Increasing
  <2>2. Picks(a, b, Len(a), Len(b), Len(a), h, h)
    BY <1>5, <2>1 DEF Picks
  <2> HIDE DEF h
  <2>3. Len(a) <= Len(Common(a, b))
    BY <1>1, <2>2, CommonFacts DEF Longest
  <2>4. n <= Len(a)
    <3>1. e \in [1 .. n -> 1 .. Len(a)] /\ \A j, k \in 1 .. n : j < k => e[j] < e[k]
      BY <1>2 DEF Picks, Increasing
    <3>2. PICK P \in SUBSET (1 .. Len(a)) : Cardinality(P) = n
      BY <1>1, <1>2, PickedSet DEF Picks
    <3> QED
      BY <1>1, <3>2, RankFacts
  <2>5. Len(Common(a, b)) = Len(a)
    BY <1>1, <1>3, <2>3, <2>4
  <2> QED
    BY <1>5, <2>5 DEF Same
<1> QED
  BY <1>4, <1>5

\* Common is a subsequence of both, and none is longer.
LEMMA LongestOfAll ==
  ASSUME NEW S, NEW a \in Seq(S), NEW b \in Seq(S)
  PROVE  LET common == Subsequences(a) \cap Subsequences(b)
         IN  Common(a, b) \in common /\ \A s \in common : Len(s) <= Len(Common(a, b))
<1> DEFINE Sub(c, s) == \E n \in Nat : \E e :
               /\ Increasing(e, n, Len(s))
               /\ c = [k \in 1 .. n |-> s[e[k]]]
<1>1. \A c : c \in Subsequences(a) <=> Sub(c, a)
  BY SubsequenceFacts
<1>2. \A c : c \in Subsequences(b) <=> Sub(c, b)
  BY SubsequenceFacts
<1>3. Len(a) \in Nat /\ Len(b) \in Nat
  BY LenProperties
<1>4. Longest(a, b, Len(a), Len(b), Common(a, b))
  BY CommonFacts
<1>5a. PICK n \in Nat : \E e, g :
         /\ Picks(a, b, Len(a), Len(b), n, e, g)
         /\ Common(a, b) = [k \in 1 .. n |-> a[e[k]]]
  BY <1>4 DEF Longest
<1>5. PICK e, g :
         /\ Picks(a, b, Len(a), Len(b), n, e, g)
         /\ Common(a, b) = [k \in 1 .. n |-> a[e[k]]]
  BY <1>5a
<1>6. [k \in 1 .. n |-> a[e[k]]] = [k \in 1 .. n |-> b[g[k]]]
  BY <1>5 DEF Picks
<1>7. Sub(Common(a, b), a) /\ Sub(Common(a, b), b)
  BY <1>5, <1>6 DEF Picks
<1>8. ASSUME NEW c, Sub(c, a), Sub(c, b) PROVE Len(c) <= Len(Common(a, b))
  <2>1a. PICK m \in Nat : \E u :
           Increasing(u, m, Len(a)) /\ c = [k \in 1 .. m |-> a[u[k]]]
    BY <1>8
  <2>1. PICK u :
           Increasing(u, m, Len(a)) /\ c = [k \in 1 .. m |-> a[u[k]]]
    BY <2>1a
  <2>2a. PICK m1 \in Nat : \E v :
           Increasing(v, m1, Len(b)) /\ c = [k \in 1 .. m1 |-> b[v[k]]]
    BY <1>8
  <2>2. PICK v :
           Increasing(v, m1, Len(b)) /\ c = [k \in 1 .. m1 |-> b[v[k]]]
    BY <2>2a
  <2>3. Len(c) = m /\ Len(c) = m1
    <3>1. Len([k \in 1 .. m |-> a[u[k]]]) = m
      BY <1>3, <2>1, ChosenFacts
    <3>2. Len([k \in 1 .. m1 |-> b[v[k]]]) = m1
      BY <1>3, <2>2, ChosenFacts
    <3> QED
      BY <2>1, <2>2, <3>1, <3>2
  <2>4. \A k \in 1 .. m : a[u[k]] = b[v[k]]
    <3> TAKE k \in 1 .. m
    <3>1. c[k] = a[u[k]]
      BY <2>1
    <3>2. c[k] = b[v[k]]
      BY <2>2, <2>3
    <3> QED
      BY <3>1, <3>2
  <2>5. Picks(a, b, Len(a), Len(b), m, u, v)
    BY <2>1, <2>2, <2>3, <2>4 DEF Picks
  <2> QED
    BY <1>4, <2>3, <2>5 DEF Longest
<1> HIDE DEF Sub
<1> QED
  BY <1>1, <1>2, <1>7, <1>8

-----------------------------------------------------------------------------
(***************************************************************************)
(* The calls of a revision: collect_functions.                             *)
(***************************************************************************)
\* The recursion of FlattenSeq has a solution.
LEMMA FlattenUnfold ==
  ASSUME NEW seqs, Len(seqs) \in Nat, Len(seqs) # 0
  PROVE  \E F : /\ FlattenSeq(seqs) = F[Len(seqs)]
                /\ \A i \in 1 .. Len(seqs) :
                     F[i] = IF i = 1 THEN seqs[i] ELSE F[i - 1] \o seqs[i]
<1> DEFINE L == Len(seqs)
           Next1(f, i) == IF i = 1 THEN seqs[i] ELSE f[i - 1] \o seqs[i]
           Upto(f, m) == \A i \in 1 .. L : i <= m => f[i] = Next1(f, i)
           N == {m \in 0 .. L : \E f : Upto(f, m)}
<1>0. L \in Nat
  OBVIOUS
<1>1. 0 \in N
  OBVIOUS
<1>2. ASSUME NEW m \in N, m < L PROVE m + 1 \in N
  <2>1. PICK f : Upto(f, m)
    OBVIOUS
  <2> DEFINE g == [i \in 1 .. L |-> Next1(f, i)]
  <2>2. ASSUME NEW i \in 1 .. L, i <= m + 1 PROVE g[i] = Next1(g, i)
    <3>1. CASE i = 1
      BY <3>1
    <3>2. CASE i # 1
      <4>1. i - 1 \in 1 .. L /\ i - 1 <= m
        BY <1>0, <2>2, <3>2
      <4>2. g[i - 1] = f[i - 1] /\ g[i] = f[i - 1] \o seqs[i]
        BY <2>1, <3>2, <4>1
      <4> HIDE DEF g
      <4> QED
        BY <3>2, <4>2
    <3> QED
      BY <3>1, <3>2
  <2>3. Upto(g, m + 1)
    BY <2>2
  <2>4. m + 1 \in 0 .. L
    BY <1>0, <1>2
  <2> HIDE DEF g, Upto
  <2> QED
    BY <2>3, <2>4
<1>3. L \in N
  <2>1. N \in SUBSET (0 .. L)
    OBVIOUS
  <2> HIDE DEF N, L
  <2> QED
    BY <1>0, <1>1, <1>2, <2>1, UpTo
<1>4. PICK f : \A i \in 1 .. L : f[i] = Next1(f, i)
  BY <1>0, <1>3
<1> DEFINE g == [i \in 1 .. L |-> f[i]]
<1>5. ASSUME NEW i \in 1 .. L PROVE g[i] = Next1(g, i)
  <2>1. CASE i = 1
    BY <1>4, <2>1
  <2>2. CASE i # 1
    <3>1. i - 1 \in 1 .. L
      BY <1>0, <2>2
    <3> QED
      BY <1>4, <2>2, <3>1
  <2> QED
    BY <2>1, <2>2
<1>6. g = [i \in 1 .. L |-> Next1(g, i)]
  <2>1. g = [i \in 1 .. L |-> g[i]]
    OBVIOUS
  <2> HIDE DEF g
  <2> QED
    BY <1>5, <2>1
<1> HIDE DEF g
<1>7. \E F : F = [i \in 1 .. L |-> Next1(F, i)] /\ FlattenSeq(seqs) = F[L]
  BY <1>6 DEF FlattenSeq
<1>8. PICK F : F = [i \in 1 .. L |-> Next1(F, i)] /\ FlattenSeq(seqs) = F[L]
  BY <1>7
<1>9. \A i \in 1 .. L : F[i] = Next1(F, i)
  BY <1>8
<1> QED
  BY <1>8, <1>9

\* What is in a concatenation, and what comes first.
LEMMA ConcatFacts ==
  ASSUME NEW S, NEW s \in Seq(S), NEW t \in Seq(S)
  PROVE  /\ s \o t \in Seq(S) /\ ToSet(s \o t) = ToSet(s) \cup ToSet(t)
         /\ Len(s) # 0 => Len(s \o t) # 0 /\ (s \o t)[1] = s[1]
<1>1. /\ s \o t \in Seq(S) /\ Len(s \o t) = Len(s) + Len(t)
      /\ \A i \in 1 .. Len(s) + Len(t) :
           (s \o t)[i] = IF i <= Len(s) THEN s[i] ELSE t[i - Len(s)]
  BY ConcatProperties
<1>2. Len(s) \in Nat /\ Len(t) \in Nat /\ DOMAIN s = 1 .. Len(s) /\ DOMAIN t = 1 .. Len(t)
      /\ DOMAIN (s \o t) = 1 .. Len(s) + Len(t)
  BY <1>1, LenProperties
<1>3. \A i \in 1 .. Len(s) : i \in 1 .. Len(s) + Len(t) /\ (s \o t)[i] = s[i]
  BY <1>1, <1>2
<1>4. \A i \in 1 .. Len(t) : i + Len(s) \in 1 .. Len(s) + Len(t)
                             /\ (s \o t)[i + Len(s)] = t[i]
  <2> TAKE i \in 1 .. Len(t)
  <2>1. i + Len(s) \in 1 .. Len(s) + Len(t) /\ ~ (i + Len(s) <= Len(s)) /\ i + Len(s) - Len(s) = i
    BY <1>2
  <2> QED
    BY <1>1, <2>1
<1>5. \A i \in 1 .. Len(s) + Len(t) : (s \o t)[i] \in ToSet(s) \cup ToSet(t)
  <2> TAKE i \in 1 .. Len(s) + Len(t)
  <2>1. CASE i <= Len(s)
    <3>1. i \in 1 .. Len(s)
      BY <1>2, <2>1
    <3>2. (s \o t)[i] = s[i]
      BY <1>3, <3>1
    <3> QED
      BY <1>2, <3>1, <3>2 DEF ToSet
  <2>2. CASE ~ (i <= Len(s))
    <3>1. i - Len(s) \in 1 .. Len(t)
      BY <1>2, <2>2
    <3> QED
      BY <1>1, <1>2, <2>2, <3>1 DEF ToSet
  <2> QED
    BY <2>1, <2>2
<1>6. ToSet(s \o t) \subseteq ToSet(s) \cup ToSet(t)
  BY <1>2, <1>5 DEF ToSet
<1>7. ToSet(s) \subseteq ToSet(s \o t) /\ ToSet(t) \subseteq ToSet(s \o t)
  BY <1>2, <1>3, <1>4 DEF ToSet
<1>8. Len(s) # 0 => Len(s \o t) # 0 /\ (s \o t)[1] = s[1]
  <2> SUFFICES ASSUME Len(s) # 0 PROVE Len(s \o t) # 0 /\ (s \o t)[1] = s[1]
    OBVIOUS
  <2>1. 1 \in 1 .. Len(s) /\ Len(s) + Len(t) # 0
    BY <1>2
  <2>2. (s \o t)[1] = s[1]
    BY <1>3, <2>1
  <2> QED
    BY <1>1, <2>1, <2>2
<1>9. ToSet(s \o t) = ToSet(s) \cup ToSet(t)
  BY <1>6, <1>7, Zenon
<1> QED
  BY <1>1, <1>8, <1>9, Zenon

\* What is in a flattened sequence, and what comes first.
LEMMA FlattenFacts ==
  ASSUME NEW S, NEW seqs \in Seq(Seq(S))
  PROVE  /\ FlattenSeq(seqs) \in Seq(S)
         /\ \A k \in DOMAIN seqs : ToSet(seqs[k]) \subseteq ToSet(FlattenSeq(seqs))
         /\ \A x \in ToSet(FlattenSeq(seqs)) : \E k \in DOMAIN seqs : x \in ToSet(seqs[k])
         /\ (Len(seqs) # 0 /\ Len(seqs[1]) # 0)
              => FlattenSeq(seqs) # << >> /\ FlattenSeq(seqs)[1] = seqs[1][1]
<1> DEFINE L == Len(seqs)
<1>0. L \in Nat /\ DOMAIN seqs = 1 .. L /\ \A k \in 1 .. L : seqs[k] \in Seq(S)
  BY LenProperties, ElementOfSeq
<1>1. CASE L = 0
  <2>1. FlattenSeq(seqs) = seqs /\ seqs = << >>
    BY <1>1, EmptySeq DEF FlattenSeq
  <2> QED
    BY <1>0, <1>1, <2>1, EmptySeq DEF ToSet
<1>2. CASE L # 0
  <2>1. PICK F : /\ FlattenSeq(seqs) = F[L]
                 /\ \A i \in 1 .. L : F[i] = IF i = 1 THEN seqs[i] ELSE F[i - 1] \o seqs[i]
    BY <1>0, <1>2, FlattenUnfold
  <2> DEFINE Holds(i) ==
               /\ F[i] \in Seq(S)
               /\ \A k \in 1 .. i : ToSet(seqs[k]) \subseteq ToSet(F[i])
               /\ \A x \in ToSet(F[i]) : \E k \in 1 .. i : x \in ToSet(seqs[k])
               /\ Len(seqs[1]) # 0 => Len(F[i]) # 0 /\ F[i][1] = seqs[1][1]
             N == {i \in 0 .. L : i = 0 \/ Holds(i)}
  <2>3. ASSUME NEW i \in 0 .. L, i < L, i = 0 \/ Holds(i) PROVE Holds(i + 1)
    <3>1. CASE i = 0
      <4>1. 1 \in 1 .. L /\ i + 1 = 1 /\ 1 .. 1 = {1}
        BY <1>0, <1>2, <3>1
      <4>2. F[1] = seqs[1] /\ seqs[1] \in Seq(S)
        BY <1>0, <2>1, <4>1
      <4>3. Holds(1)
        BY <4>1, <4>2
      <4> QED
        BY <4>1, <4>3
    <3>2. CASE i # 0
      <4>1. i + 1 \in 1 .. L /\ i \in 1 .. L /\ i + 1 - 1 = i /\ i + 1 # 1
        BY <1>0, <2>3, <3>2
      <4>2. F[i + 1] = F[i] \o seqs[i + 1]
        <5>1. \A j \in 1 .. L : j # 1 => F[j] = F[j - 1] \o seqs[j]
          BY <2>1
        <5>2. PICK j \in 1 .. L : j = i + 1
          BY <4>1
        <5>3. j - 1 = i /\ j # 1
          BY <4>1, <5>2
        <5>4. F[j] = F[j - 1] \o seqs[j]
          BY <5>1, <5>3
        <5> QED
          BY <5>2, <5>3, <5>4
      <4>3. Holds(i)
        BY <2>3, <3>2
      <4>4. seqs[i + 1] \in Seq(S)
        BY <1>0, <4>1
      <4>5. /\ F[i + 1] \in Seq(S) /\ ToSet(F[i + 1]) = ToSet(F[i]) \cup ToSet(seqs[i + 1])
            /\ Len(F[i]) # 0 => Len(F[i + 1]) # 0 /\ F[i + 1][1] = F[i][1]
        <5>1. F[i] \in Seq(S)
          BY <4>3, Zenon
        <5>2. \A s, t \in Seq(S) :
                /\ s \o t \in Seq(S) /\ ToSet(s \o t) = ToSet(s) \cup ToSet(t)
                /\ Len(s) # 0 => Len(s \o t) # 0 /\ (s \o t)[1] = s[1]
          BY ConcatFacts
        <5>3. LET u == F[i] \o seqs[i + 1] IN
                /\ u \in Seq(S) /\ ToSet(u) = ToSet(F[i]) \cup ToSet(seqs[i + 1])
                /\ Len(F[i]) # 0 => Len(u) # 0 /\ u[1] = F[i][1]
          BY <4>4, <5>1, <5>2
        <5> QED
          BY <4>2, <5>3
      <4>6. \A k \in 1 .. i + 1 : k \in 1 .. i \/ k = i + 1
        BY <4>1
      <4>7. \A k \in 1 .. i : k \in 1 .. i + 1
        BY <4>1
      <4>8. i + 1 \in 1 .. i + 1
        BY <4>1
      <4>9. \A k \in 1 .. i + 1 : ToSet(seqs[k]) \subseteq ToSet(F[i + 1])
        <5> TAKE k \in 1 .. i + 1
        <5>1. CASE k \in 1 .. i
          <6>1. ToSet(seqs[k]) \subseteq ToSet(F[i])
            BY <4>3, <5>1
          <6> QED
            BY <4>5, <6>1, Zenon
        <5>2. CASE k = i + 1
          BY <4>5, <5>2, Zenon
        <5> QED
          BY <4>6, <5>1, <5>2
      <4>10. \A x \in ToSet(F[i + 1]) : \E k \in 1 .. i + 1 : x \in ToSet(seqs[k])
        <5> TAKE x \in ToSet(F[i + 1])
        <5>1. CASE x \in ToSet(F[i])
          <6>1. PICK k \in 1 .. i : x \in ToSet(seqs[k])
            BY <4>3, <5>1, Zenon
          <6> QED
            BY <4>7, <6>1, Zenon
        <5>2. CASE x \in ToSet(seqs[i + 1])
          BY <4>8, <5>2, Zenon
        <5> QED
          BY <4>5, <5>1, <5>2, Zenon
      <4>11. Len(seqs[1]) # 0 => Len(F[i + 1]) # 0 /\ F[i + 1][1] = seqs[1][1]
        <5>1. Len(seqs[1]) # 0 => Len(F[i]) # 0 /\ F[i][1] = seqs[1][1]
          BY <4>3
        <5> QED
          BY <4>5, <5>1, Zenon
      <4> QED
        BY <4>5, <4>9, <4>10, <4>11, Zenon
    <3> QED
      BY <3>1, <3>2
  <2> HIDE DEF Holds
  <2>4. L \in N
    <3>1. N \in SUBSET (0 .. L) /\ 0 \in N
      BY <1>0
    <3>2. \A i \in N : i < L => i + 1 \in N
      BY <1>0, <2>3
    <3> HIDE DEF N, L
    <3> QED
      BY <1>0, <3>1, <3>2, UpTo
  <2>5. Holds(L)
    BY <1>2, <2>4
  <2>6. Len(<< >>) = 0
    OBVIOUS
  <2> QED
    BY <1>0, <2>1, <2>5, <2>6 DEF Holds
<1> QED
  BY <1>1, <1>2

\* What collect_functions lists of function f at height d, given what it lists of
\* every function at the height below.
Listed(r, d, rest, f) ==
  FlattenSeq([k \in DOMAIN Callees(r[f].body) |->
     LET g == Callees(r[f].body)[k]
     IN  <<[fn |-> g, depth |-> Depth - d]>> \o (IF d = 0 THEN << >> ELSE rest[g])])
Row(r, d, B) == [f \in DOMAIN r |-> Listed(r, d, B[d - 1], f)]
IsUnrolling(r, B) == B = [d \in 0 .. Depth |-> Row(r, d, B)]

\* The recursion of Unrolled has a solution: a row depends on the one below.
LEMMA UnrollingExists ==
  ASSUME NEW r
  PROVE  \E B : IsUnrolling(r, B) /\ Unrolled(r) = B[Depth][Entry]
<1> DEFINE Filled(B, m) == \A d \in 0 .. Depth : d <= m => B[d] = Row(r, d, B)
           N == {m \in 0 .. Depth : \E B : Filled(B, m)}
<1>0. Depth \in Nat
  BY DepthAssumption
<1>a. ASSUME NEW B, NEW C, NEW d \in Nat, d # 0 => B[d - 1] = C[d - 1]
      PROVE  Row(r, d, B) = Row(r, d, C)
  <2>1. CASE d = 0
    BY <2>1 DEF Row, Listed
  <2>2. CASE d # 0
    BY <1>a, <2>2 DEF Row
  <2> QED
    BY <2>1, <2>2
<1>1. 0 \in N
  <2> DEFINE B == [d \in 0 .. Depth |-> Row(r, 0, << >>)]
  <2>1. B[0] = Row(r, 0, << >>) /\ Row(r, 0, << >>) = Row(r, 0, B)
    BY <1>0, <1>a
  <2> HIDE DEF B
  <2>2. Filled(B, 0)
    BY <1>0, <2>1
  <2> HIDE DEF Filled
  <2> QED
    BY <1>0, <2>2
<1>2. ASSUME NEW m \in N, m < Depth PROVE m + 1 \in N
  <2>1. PICK B : Filled(B, m)
    OBVIOUS
  <2> DEFINE C == [d \in 0 .. Depth |-> Row(r, d, B)]
  <2>2. \A d \in 0 .. Depth : C[d] = Row(r, d, B)
    OBVIOUS
  <2> HIDE DEF C
  <2>3. \A d \in 0 .. Depth : d <= m => C[d] = B[d]
    BY <2>1, <2>2
  <2>4. ASSUME NEW d \in 0 .. Depth, d <= m + 1 PROVE C[d] = Row(r, d, C)
    <3>1. d # 0 => d - 1 \in 0 .. Depth /\ d - 1 <= m
      BY <1>0, <2>4
    <3>2. d # 0 => B[d - 1] = C[d - 1]
      BY <2>3, <3>1
    <3> QED
      BY <1>a, <2>2, <3>2
  <2>5. Filled(C, m + 1) /\ m + 1 \in 0 .. Depth
    BY <1>0, <1>2, <2>4
  <2> HIDE DEF Filled
  <2> QED
    BY <2>5
<1>3. Depth \in N
  <2>1. N \in SUBSET (0 .. Depth)
    OBVIOUS
  <2> HIDE DEF N
  <2> QED
    BY <1>0, <1>1, <1>2, <2>1, UpTo
<1>4. PICK B : Filled(B, Depth)
  BY <1>3
<1> DEFINE C == [d \in 0 .. Depth |-> B[d]]
<1>5. \A d \in 0 .. Depth : C[d] = B[d]
  OBVIOUS
<1>6. C = [d \in 0 .. Depth |-> C[d]]
  OBVIOUS
<1> HIDE DEF C
<1>7. ASSUME NEW d \in 0 .. Depth PROVE C[d] = Row(r, d, C)
  <2>1. d # 0 => d - 1 \in 0 .. Depth
    BY <1>0
  <2>2. B[d] = Row(r, d, B)
    BY <1>0, <1>4
  <2> QED
    BY <1>a, <1>5, <2>1, <2>2
<1>8. C = [d \in 0 .. Depth |-> Row(r, d, C)]
  BY <1>6, <1>7
<1>9. \E B1 : B1 = [d \in 0 .. Depth |-> Row(r, d, B1)] /\ Unrolled(r) = B1[Depth][Entry]
  BY <1>8 DEF Unrolled, Row, Listed
<1> QED
  BY <1>9 DEF IsUnrolling

\* The calls of a revision, and the functions of calls.
CallsOf(r) == [fn : DOMAIN r, depth : Nat]
Names(calls) == {c.fn : c \in ToSet(calls)}

\* A function calls functions of its own revision.
LEMMA CalleeFacts ==
  ASSUME NEW r \in Revisions, NEW f \in DOMAIN r
  PROVE  LET c == Callees(r[f].body)
         IN  /\ c \in Seq(DOMAIN r) /\ Len(c) \in Nat /\ DOMAIN c = 1 .. Len(c)
             /\ \A k \in DOMAIN c : c[k] \in DOMAIN r
<1>1. Callees(r[f].body) \in Seq(DOMAIN r)
  BY RevisionsAssumption
<1> QED
  BY <1>1, LenProperties, ElementOfSeq

\* A row lists the calls of the body and, under each, what the row below lists.
LEMMA ListedFacts ==
  ASSUME NEW r \in Revisions, NEW d \in 0 .. Depth, NEW f \in DOMAIN r, NEW rest,
         d # 0 => \A g \in DOMAIN r : rest[g] \in Seq(CallsOf(r))
  PROVE  LET c == Callees(r[f].body)
             l == Listed(r, d, rest, f)
         IN  /\ l \in Seq(CallsOf(r))
             /\ \A k \in DOMAIN c : /\ c[k] \in Names(l)
                                    /\ d # 0 => Names(rest[c[k]]) \subseteq Names(l)
             /\ c # << >> => l # << >> /\ l[1].fn = c[1]
<1> DEFINE c == Callees(r[f].body)
           node(k) == [fn |-> c[k], depth |-> Depth - d]
           tail(k) == IF d = 0 THEN << >> ELSE rest[c[k]]
           seqs == [k \in DOMAIN c |-> <<node(k)>> \o tail(k)]
           l == Listed(r, d, rest, f)
<1>1. /\ c \in Seq(DOMAIN r) /\ Len(c) \in Nat /\ DOMAIN c = 1 .. Len(c)
      /\ \A k \in DOMAIN c : c[k] \in DOMAIN r
  BY CalleeFacts
<1>2. l = FlattenSeq(seqs)
  BY DEF Listed
<1>3. ASSUME NEW k \in DOMAIN c
      PROVE  /\ <<node(k)>> \in Seq(CallsOf(r)) /\ tail(k) \in Seq(CallsOf(r))
             /\ node(k).fn = c[k] /\ Len(<<node(k)>>) = 1 /\ <<node(k)>>[1] = node(k)
             /\ node(k) \in ToSet(<<node(k)>>)
  <2>1. node(k) \in CallsOf(r)
    BY <1>1, DepthAssumption DEF CallsOf
  <2>2. tail(k) \in Seq(CallsOf(r))
    BY <1>1
  <2>3. node(k).fn = c[k]
    OBVIOUS
  <2> HIDE DEF node, tail
  <2>4. node(k) \in ToSet(<<node(k)>>)
    BY DEF ToSet
  <2> QED
    BY <2>1, <2>2, <2>3, <2>4
<1>4. ASSUME NEW k \in DOMAIN c
      PROVE  LET s == <<node(k)>> \o tail(k)
             IN  /\ s \in Seq(CallsOf(r))
                 /\ ToSet(s) = ToSet(<<node(k)>>) \cup ToSet(tail(k))
                 /\ Len(s) # 0 /\ s[1] = node(k)
  <2>1. \A s, t \in Seq(CallsOf(r)) :
          /\ s \o t \in Seq(CallsOf(r)) /\ ToSet(s \o t) = ToSet(s) \cup ToSet(t)
          /\ Len(s) # 0 => Len(s \o t) # 0 /\ (s \o t)[1] = s[1]
    BY ConcatFacts
  <2> HIDE DEF node, tail
  <2>2. <<node(k)>> \in Seq(CallsOf(r)) /\ tail(k) \in Seq(CallsOf(r))
    BY <1>3
  <2>3. Len(<<node(k)>>) # 0 /\ <<node(k)>>[1] = node(k)
    OBVIOUS
  <2> QED
    BY <2>1, <2>2, <2>3
<1>5. /\ seqs \in Seq(Seq(CallsOf(r))) /\ DOMAIN seqs = 1 .. Len(c) /\ Len(seqs) = Len(c)
      /\ \A k \in DOMAIN c : seqs[k] = <<node(k)>> \o tail(k)
  <2>1. \A k \in DOMAIN c : seqs[k] = <<node(k)>> \o tail(k)
    OBVIOUS
  <2>2. seqs \in [1 .. Len(c) -> Seq(CallsOf(r))]
    BY <1>1, <1>4
  <2> HIDE DEF seqs
  <2>3. seqs \in Seq(Seq(CallsOf(r)))
    BY <1>1, <2>2, SeqDef
  <2> QED
    BY <1>1, <2>1, <2>2, <2>3, LenProperties
<1> HIDE DEF seqs
<1>6. /\ l \in Seq(CallsOf(r))
      /\ \A k \in DOMAIN c : ToSet(seqs[k]) \subseteq ToSet(l)
      /\ (Len(seqs) # 0 /\ Len(seqs[1]) # 0) => l # << >> /\ l[1] = seqs[1][1]
  <2>1. /\ FlattenSeq(seqs) \in Seq(CallsOf(r))
        /\ \A k \in DOMAIN seqs : ToSet(seqs[k]) \subseteq ToSet(FlattenSeq(seqs))
        /\ (Len(seqs) # 0 /\ Len(seqs[1]) # 0)
             => FlattenSeq(seqs) # << >> /\ FlattenSeq(seqs)[1] = seqs[1][1]
    BY <1>5, FlattenFacts
  <2> HIDE DEF l, c
  <2> QED
    BY <1>1, <1>2, <1>5, <2>1
<1>7. ASSUME NEW k \in DOMAIN c
      PROVE  c[k] \in Names(l) /\ (d # 0 => Names(rest[c[k]]) \subseteq Names(l))
  <2>1. ToSet(<<node(k)>>) \subseteq ToSet(l) /\ ToSet(tail(k)) \subseteq ToSet(l)
    <3> HIDE DEF node, tail, l, c
    <3> QED
      BY <1>4, <1>5, <1>6
  <2>2. node(k) \in ToSet(l) /\ node(k).fn = c[k]
    BY <1>3, <2>1
  <2>3. d # 0 => ToSet(rest[c[k]]) \subseteq ToSet(l)
    BY <2>1
  <2> HIDE DEF node, tail, l, c
  <2> QED
    BY <2>2, <2>3 DEF Names
<1>8. c # << >> => l # << >> /\ l[1].fn = c[1]
  <2> SUFFICES ASSUME c # << >> PROVE l # << >> /\ l[1].fn = c[1]
    OBVIOUS
  <2>1. Len(c) # 0 /\ 1 \in DOMAIN c
    BY <1>1, EmptySeq
  <2>2. Len(seqs[1]) # 0 /\ seqs[1][1] = node(1)
    <3> HIDE DEF node, tail, l, c
    <3> QED
      BY <1>4, <1>5, <2>1
  <2>3. node(1).fn = c[1]
    OBVIOUS
  <2> HIDE DEF node, tail, l, c
  <2> QED
    BY <1>5, <1>6, <2>1, <2>2, <2>3
<1> QED
  BY <1>6, <1>7, <1>8

\* Every row lists calls of the revision.
LEMMA UnrollingFacts ==
  ASSUME NEW r \in Revisions, NEW B, IsUnrolling(r, B)
  PROVE  \A d \in 0 .. Depth : \A f \in DOMAIN r :
            B[d][f] = Listed(r, d, B[d - 1], f) /\ B[d][f] \in Seq(CallsOf(r))
<1>0. Depth \in Nat
  BY DepthAssumption
<1>1. \A d \in 0 .. Depth : \A f \in DOMAIN r : B[d][f] = Listed(r, d, B[d - 1], f)
  <2>1. \A d \in 0 .. Depth : B[d] = Row(r, d, B)
    BY DEF IsUnrolling
  <2> QED
    BY <2>1 DEF Row
<1> DEFINE Good(d) == \A f \in DOMAIN r : B[d][f] \in Seq(CallsOf(r))
<1>2. ASSUME NEW d \in 0 .. Depth, d # 0 => Good(d - 1) PROVE Good(d)
  <2> TAKE f \in DOMAIN r
  <2>1. d # 0 => \A g \in DOMAIN r : B[d - 1][g] \in Seq(CallsOf(r))
    BY <1>2
  <2>2. Listed(r, d, B[d - 1], f) \in Seq(CallsOf(r))
    BY <2>1, ListedFacts
  <2> QED
    BY <1>1, <2>2
<1>3. \A d \in 0 .. Depth : Good(d)
  <2> HIDE DEF Good
  <2> TAKE d \in 0 .. Depth
  <2> DEFINE N == {m \in 0 .. d : Good(m)}
  <2>1. 0 \in N
    BY <1>0, <1>2
  <2>2. ASSUME NEW m \in N, m < d PROVE m + 1 \in N
    <3>1. m + 1 \in 0 .. Depth /\ m + 1 \in 0 .. d /\ m + 1 - 1 = m
      BY <1>0, <2>2
    <3>2. Good(m + 1 - 1)
      BY <2>2, <3>1
    <3>3. Good(m + 1)
      BY <1>2, <3>1, <3>2
    <3> QED
      BY <3>1, <3>3
  <2>3. N \in SUBSET (0 .. d) /\ d \in Nat
    OBVIOUS
  <2>4. d \in N
    <3> HIDE DEF N
    <3> QED
      BY <2>1, <2>2, <2>3, UpTo
  <2> QED
    BY <2>4
<1> QED
  BY <1>1, <1>3

\* And so does the whole: the call of Initializer first.
LEMMA UnrolledFacts ==
  ASSUME NEW r \in Revisions
  PROVE  /\ Unrolled(r) \in Seq(CallsOf(r))
         /\ Unrolled(r) \in Seq(Node)
         /\ Unrolled(r) # << >> /\ Unrolled(r)[1].fn = Initializer
         /\ Names(Unrolled(r)) \subseteq DOMAIN r
<1>1. PICK B : IsUnrolling(r, B) /\ Unrolled(r) = B[Depth][Entry]
  BY UnrollingExists
<1>2. Entry \in DOMAIN r /\ Callees(r[Entry].body) # << >>
      /\ Callees(r[Entry].body)[1] = Initializer
  BY RevisionsAssumption
<1>3. Depth \in Nat /\ Depth \in 0 .. Depth /\ (Depth # 0 => Depth - 1 \in 0 .. Depth)
  BY DepthAssumption
<1>4. Unrolled(r) = Listed(r, Depth, B[Depth - 1], Entry)
      /\ Unrolled(r) \in Seq(CallsOf(r))
  BY <1>1, <1>2, <1>3, UnrollingFacts
<1>5. Depth # 0 => \A g \in DOMAIN r : B[Depth - 1][g] \in Seq(CallsOf(r))
  BY <1>1, <1>3, UnrollingFacts
<1>6. Listed(r, Depth, B[Depth - 1], Entry) # << >>
      /\ Listed(r, Depth, B[Depth - 1], Entry)[1].fn = Callees(r[Entry].body)[1]
  BY <1>2, <1>3, <1>5, ListedFacts
<1>7. \A c \in ToSet(Unrolled(r)) : c \in CallsOf(r)
  BY <1>4, LenProperties, ElementOfSeq DEF ToSet
<1>8. Names(Unrolled(r)) \subseteq DOMAIN r
  BY <1>7 DEF Names, CallsOf
<1>9. Unrolled(r) \in Seq(Node)
  <2>1. CallsOf(r) \subseteq Node
    BY DEF CallsOf, Node
  <2> QED
    BY <1>4, <2>1, SeqMonotonic
<1> QED
  BY <1>2, <1>4, <1>6, <1>8, <1>9

\* Two revisions whose functions make the same calls are unrolled alike: it is enough
\* that those that are called in the one make the same calls in the other.
LEMMA UnrolledAlike ==
  ASSUME NEW r \in Revisions, NEW s \in Revisions,
         \A f \in {Entry} \cup Names(Unrolled(r)) :
            f \in DOMAIN s /\ Callees(r[f].body) = Callees(s[f].body)
  PROVE  Unrolled(r) = Unrolled(s)
<1>0. Depth \in Nat /\ Entry \in DOMAIN r /\ Entry \in DOMAIN s
  BY DepthAssumption, RevisionsAssumption
<1>1. PICK B : IsUnrolling(r, B) /\ Unrolled(r) = B[Depth][Entry]
  BY UnrollingExists
<1>2. PICK C : IsUnrolling(s, C) /\ Unrolled(s) = C[Depth][Entry]
  BY UnrollingExists
<1> DEFINE Alike(f) == f \in DOMAIN s /\ Callees(r[f].body) = Callees(s[f].body)
           Good(d) == \A f \in DOMAIN r :
                        (Alike(f) /\ \A g \in Names(B[d][f]) : Alike(g)) => B[d][f] = C[d][f]
<1>3. ASSUME NEW d \in 0 .. Depth, d # 0 => Good(d - 1) PROVE Good(d)
  <2> SUFFICES ASSUME NEW f \in DOMAIN r, Alike(f), \A g \in Names(B[d][f]) : Alike(g)
               PROVE  B[d][f] = C[d][f]
    OBVIOUS
  <2> DEFINE c == Callees(r[f].body)
  <2>1. d # 0 => d - 1 \in 0 .. Depth
    BY <1>0
  <2>2. B[d][f] = Listed(r, d, B[d - 1], f) /\ C[d][f] = Listed(s, d, C[d - 1], f)
    BY <1>1, <1>2, UnrollingFacts
  <2>3. \A k \in DOMAIN c : /\ c[k] \in DOMAIN r /\ c[k] \in Names(B[d][f])
                            /\ d # 0 => Names(B[d - 1][c[k]]) \subseteq Names(B[d][f])
    <3>1. d # 0 => \A g \in DOMAIN r : B[d - 1][g] \in Seq(CallsOf(r))
      BY <1>1, <2>1, UnrollingFacts
    <3>2. \A k \in DOMAIN c :
            /\ c[k] \in Names(Listed(r, d, B[d - 1], f))
            /\ d # 0 => Names(B[d - 1][c[k]]) \subseteq Names(Listed(r, d, B[d - 1], f))
      BY <3>1, ListedFacts
    <3>3. \A k \in DOMAIN c : c[k] \in DOMAIN r
      BY CalleeFacts
    <3> QED
      BY <2>2, <3>2, <3>3
  <2>4. d # 0 => \A k \in DOMAIN c : B[d - 1][c[k]] = C[d - 1][c[k]]
    <3> SUFFICES ASSUME d # 0, NEW k \in DOMAIN c PROVE B[d - 1][c[k]] = C[d - 1][c[k]]
      OBVIOUS
    <3>1. Alike(c[k]) /\ \A g \in Names(B[d - 1][c[k]]) : Alike(g)
      BY <2>3
    <3> QED
      BY <1>3, <2>3, <3>1
  <2>5. Callees(s[f].body) = c
    OBVIOUS
  <2>6. Listed(r, d, B[d - 1], f) = Listed(s, d, C[d - 1], f)
    <3> DEFINE item(k, rest) == <<[fn |-> c[k], depth |-> Depth - d]>>
                                \o (IF d = 0 THEN << >> ELSE rest[c[k]])
    <3>1. \A k \in DOMAIN c : item(k, B[d - 1]) = item(k, C[d - 1])
      BY <2>4
    <3>2. /\ Listed(r, d, B[d - 1], f) = FlattenSeq([k \in DOMAIN c |-> item(k, B[d - 1])])
          /\ Listed(s, d, C[d - 1], f) = FlattenSeq([k \in DOMAIN c |-> item(k, C[d - 1])])
      BY <2>5 DEF Listed
    <3> HIDE DEF item, c
    <3>3. [k \in DOMAIN c |-> item(k, B[d - 1])] = [k \in DOMAIN c |-> item(k, C[d - 1])]
      BY <3>1
    <3> QED
      BY <3>2, <3>3
  <2> QED
    BY <2>2, <2>6
<1>4. Good(Depth)
  <2> HIDE DEF Good
  <2> DEFINE N == {m \in 0 .. Depth : Good(m)}
  <2>1. 0 \in N
    BY <1>0, <1>3
  <2>2. ASSUME NEW m \in N, m < Depth PROVE m + 1 \in N
    <3>1. m + 1 \in 0 .. Depth /\ m + 1 - 1 = m
      BY <1>0, <2>2
    <3>2. Good(m + 1 - 1)
      BY <2>2, <3>1
    <3>3. Good(m + 1)
      BY <1>3, <3>1, <3>2
    <3> QED
      BY <3>1, <3>3
  <2>3. N \in SUBSET (0 .. Depth)
    OBVIOUS
  <2>4. Depth \in N
    <3> HIDE DEF N
    <3> QED
      BY <1>0, <2>1, <2>2, <2>3, UpTo
  <2> QED
    BY <2>4
<1> QED
  BY <1>0, <1>1, <1>2, <1>4

\* The text of a body is a sequence.
LEMMA TextFacts ==
  ASSUME NEW r \in Revisions, NEW f \in DOMAIN r
  PROVE  \E S : Text(r[f].body) \in Seq(S)
<1> DEFINE b == r[f].body
           S == {<<x.call, x.text>> : x \in ToSet(b)}
<1>1. b \in Seq(ToSet(b))
  BY RevisionsAssumption
<1>2. Len(b) \in Nat /\ DOMAIN b = 1 .. Len(b) /\ \A p \in 1 .. Len(b) : b[p] \in ToSet(b)
  BY <1>1, LenProperties, ElementOfSeq
<1> HIDE DEF b
<1>3. Text(b) \in [1 .. Len(b) -> S]
  BY <1>2 DEF Text
<1>4. Text(b) \in Seq(S)
  BY <1>2, <1>3, SeqDef
<1> QED
  BY <1>4 DEF b

\* What do_diff compares of a body determines the calls it makes.
LEMMA SameTextSameCallees ==
  ASSUME NEW a, NEW b, Text(a) = Text(b)
  PROVE  Callees(a) = Callees(b)
<1>1. DOMAIN a = DOMAIN b
  BY DEF Text
<1>2. \A p \in DOMAIN a : a[p].call = b[p].call
  <2> TAKE p \in DOMAIN a
  <2>1. Text(a)[p] = <<a[p].call, a[p].text>> /\ Text(b)[p] = <<b[p].call, b[p].text>>
    BY <1>1 DEF Text
  <2> QED
    BY <2>1
<1>3. [p \in DOMAIN a |-> IF a[p].call = NoCall THEN << >> ELSE <<a[p].call>>]
       = [p \in DOMAIN b |-> IF b[p].call = NoCall THEN << >> ELSE <<b[p].call>>]
  BY <1>1, <1>2
<1> QED
  BY <1>3 DEF Callees

\* Those of two revisions are sequences over one set.
LEMMA TextsFacts ==
  ASSUME NEW r \in Revisions, NEW s \in Revisions, NEW f \in DOMAIN r, f \in DOMAIN s
  PROVE  \E S : Text(r[f].body) \in Seq(S) /\ Text(s[f].body) \in Seq(S)
<1>1. PICK S1 : Text(r[f].body) \in Seq(S1)
  BY TextFacts
<1>2. PICK S2 : Text(s[f].body) \in Seq(S2)
  BY TextFacts
<1>3. S1 \subseteq S1 \cup S2 /\ S2 \subseteq S1 \cup S2
  OBVIOUS
<1>4. Text(r[f].body) \in Seq(S1 \cup S2)
  BY <1>1, <1>3, SeqMonotonic
<1>5. Text(s[f].body) \in Seq(S1 \cup S2)
  BY <1>2, <1>3, SeqMonotonic
<1> QED
  BY <1>4, <1>5

-----------------------------------------------------------------------------
(***************************************************************************)
(* The summaries.                                                          *)
(***************************************************************************)
OldNames == UNION {DOMAIN r : r \in Revisions}

\* What do_diff was given: the old calls with their entries, no two of which have the
\* same summary.
Given ==
  /\ functions_old \in Seq(Node) /\ functions_new \in Seq(Node)
  /\ DOMAIN callhistory_old = DOMAIN functions_old
  /\ \A o \in DOMAIN functions_old : callhistory_old[o].fn = functions_old[o].fn
  /\ \A o, p \in DOMAIN functions_old :
        (callhistory_old[o].sum = callhistory_old[p].sum /\ callhistory_old[o].sum # 0)
           => o = p

\* What it did so far.
Done == {m \in Nat \ {0} : m < at}

Progress ==
  /\ Done \subseteq DOMAIN functions_new
  /\ \A m \in Done : callhistory_new[m].sum # 0 =>
        \E o \in locs_visited : /\ callhistory_old[o].sum = callhistory_new[m].sum
                                /\ callhistory_old[o].fn = functions_new[m].fn
  /\ \A m, n \in Done :
        (callhistory_new[m].sum # 0 /\ callhistory_new[n].sum = callhistory_new[m].sum)
           => n = m

DiffInv == DiffTypeOK /\ Given /\ Progress

-----------------------------------------------------------------------------
\* Summaries are numbered by position: no two calls of Omega share one.
LEMMA OmegaFacts ==
  ASSUME NEW calls \in Seq(Node), NEW S \in SUBSET (3 .. Len(calls)), NEW other
  PROVE  /\ DOMAIN Omega(calls, S, other) = DOMAIN calls
         /\ \A n \in DOMAIN calls :
               /\ Omega(calls, S, other)[n].fn = calls[n].fn
               /\ Omega(calls, S, other)[n].sum \in Nat
               /\ n \notin S => Omega(calls, S, other)[n].sum = 0
         /\ \A m, n \in S : Omega(calls, S, other)[m].sum = Omega(calls, S, other)[n].sum
                               => m = n
<1> DEFINE L(n) == {k \in S : k <= n}
<1>1. S \subseteq Nat /\ S \subseteq DOMAIN calls /\ DOMAIN calls = 1 .. Len(calls)
  BY LenProperties
<1>2. IsFiniteSet(S)
  <2>1. IsFiniteSet(3 .. Len(calls))
    BY FS_Interval
  <2> QED
    BY <2>1, FS_Subset
<1>3. \A n \in DOMAIN calls : IsFiniteSet(L(n)) /\ Cardinality(L(n)) \in Nat
  <2> TAKE n \in DOMAIN calls
  <2>1. L(n) \subseteq S
    OBVIOUS
  <2> QED
    BY <1>2, <2>1, FS_Subset, FS_CardinalityType
<1>4. ASSUME NEW m \in S, NEW n \in S, m < n
      PROVE  Cardinality(L(m)) # Cardinality(L(n))
  <2>1. L(m) \subseteq L(n) /\ n \in L(n) /\ n \notin L(m)
    <3>1. \A k \in S : k <= m => k <= n
      BY <1>1, <1>4
    <3>2. n <= n /\ ~ (n <= m)
      BY <1>1, <1>4
    <3> QED
      BY <3>1, <3>2
  <2>2. L(m) # L(n)
    BY <2>1
  <2> QED
    BY <1>1, <1>3, <2>1, <2>2, FS_Subset
<1>5. \A m, n \in S : m < n \/ n < m \/ m = n
  BY <1>1
<1>6. \A n \in DOMAIN calls : Omega(calls, S, other)[n].sum = IF n \in S THEN Cardinality(L(n)) ELSE 0
  BY DEF Omega
<1> HIDE DEF L
<1>7. ASSUME NEW m \in S, NEW n \in S,
             Omega(calls, S, other)[m].sum = Omega(calls, S, other)[n].sum
      PROVE  m = n
  BY <1>1, <1>4, <1>5, <1>6, <1>7
<1>8. DOMAIN Omega(calls, S, other) = DOMAIN calls
  BY DEF Omega
<1>9. \A n \in DOMAIN calls : Omega(calls, S, other)[n].fn = calls[n].fn
  BY DEF Omega
<1> QED
  BY <1>3, <1>6, <1>7, <1>8, <1>9

LEMMA NodeName ==
  ASSUME NEW calls \in Seq(Node), NEW n \in DOMAIN calls
  PROVE  calls[n].fn \in OldNames
<1>1. calls[n] \in Node
  BY ElementOfSeq, LenProperties
<1> QED
  BY <1>1 DEF Node, OldNames

LEMMA OmegaType ==
  ASSUME NEW calls \in Seq(Node), NEW S \in SUBSET (3 .. Len(calls)),
         NEW other \in {"HAVOC", "INLINE"}
  PROVE  Omega(calls, S, other) \in Entries(calls)
<1>1. \A n \in DOMAIN calls : calls[n].fn \in OldNames
  BY NodeName
<1>2. \A n \in DOMAIN calls : Omega(calls, S, other)[n].sum \in Nat
  BY OmegaFacts
<1>3. \A n \in DOMAIN calls :
        (IF n \in S THEN Cardinality({k \in S : k <= n}) ELSE 0) \in Nat
  BY <1>2 DEF Omega
<1> QED
  BY <1>1, <1>3 DEF Omega, Entries, OldNames

LEMMA DiffInitInvariant == DiffInit => DiffInv
<1> SUFFICES ASSUME DiffInit PROVE DiffInv
  OBVIOUS
<1>1. PICK S \in SUBSET (3 .. Len(Unrolled(old))), other \in {"HAVOC", "INLINE"} :
        StartDiff(Omega(Unrolled(old), S, other))
  BY DEF DiffInit
<1>2. functions_old \in Seq(Node) /\ functions_new \in Seq(Node)
  BY <1>1, UnrolledFacts DEF DiffInit, StartDiff
<1>3. functions_old = Unrolled(old) /\ callhistory_old = Omega(functions_old, S, other)
  BY <1>1 DEF StartDiff
<1>4. Given
  <2>1. S \in SUBSET (3 .. Len(functions_old))
    BY <1>3
  <2>2. DOMAIN Omega(functions_old, S, other) = DOMAIN functions_old
    BY DEF Omega
  <2>3. \A n \in DOMAIN functions_old :
          /\ Omega(functions_old, S, other)[n].fn = functions_old[n].fn
          /\ n \notin S => Omega(functions_old, S, other)[n].sum = 0
    BY DEF Omega
  <2>4. \A m, n \in S : Omega(functions_old, S, other)[m].sum
                          = Omega(functions_old, S, other)[n].sum => m = n
    BY <1>2, <2>1, OmegaFacts
  <2> QED
    BY <1>2, <1>3, <2>2, <2>3, <2>4 DEF Given
<1>5. DiffTypeOK
  <2>1. callhistory_old \in Entries(functions_old)
    BY <1>2, <1>3, OmegaType
  <2>2. Stub \in [fn : OldNames, prec : {"HAVOC", "SUMMARY", "INLINE"},
                  preserved : BOOLEAN, edge : BOOLEAN, sum : Nat]
    BY RevisionsAssumption DEF DiffInit, Stub, OldNames
  <2>3. callhistory_new \in Entries(functions_new)
    BY <1>1, <2>2 DEF StartDiff, Entries, OldNames
  <2> QED
    BY <1>1, <2>1, <2>3 DEF DiffInit, StartDiff, DiffTypeOK
<1>6. Progress
  <2>1. Done = {}
    BY <1>1 DEF Done, StartDiff
  <2> QED
    BY <2>1 DEF Progress
<1> QED
  BY <1>4, <1>5, <1>6 DEF DiffInv

-----------------------------------------------------------------------------
\* Writing the entry of the current call: the others lose at most their edge.
LEMMA WriteFacts ==
  ASSUME DiffTypeOK, Given, at \in DOMAIN functions_new,
         NEW e \in [fn : OldNames, prec : {"HAVOC", "SUMMARY", "INLINE"},
                    preserved : BOOLEAN, edge : BOOLEAN, sum : Nat],
         NEW added, Write(e, added)
  PROVE  /\ callhistory_new' \in Entries(functions_new)
         /\ at' \in Nat \ {0} /\ Done' = Done \cup {at}
         /\ callhistory_new'[at] = e
         /\ \A m \in DOMAIN functions_new \ {at} :
               /\ callhistory_new'[m].sum = callhistory_new[m].sum
               /\ callhistory_new'[m].prec = callhistory_new[m].prec
               /\ callhistory_new'[m].preserved = callhistory_new[m].preserved
<1>1. /\ at \in Nat \ {0} /\ at' = at + 1
      /\ DOMAIN callhistory_new = DOMAIN functions_new
  BY DEF Write, DiffTypeOK, Entries
<1>2. callhistory_new' = [n \in DOMAIN functions_new |->
         IF n = at THEN e
         ELSE [callhistory_new[n] EXCEPT !.edge = @ /\ n \notin added]]
  BY <1>1 DEF Write
<1>3. \A n \in DOMAIN functions_new :
         callhistory_new[n] \in [fn : OldNames, prec : {"HAVOC", "SUMMARY", "INLINE"},
                                 preserved : BOOLEAN, edge : BOOLEAN, sum : Nat]
  BY DEF DiffTypeOK, Entries, OldNames
<1>4. callhistory_new' \in Entries(functions_new)
  BY <1>2, <1>3 DEF Entries, OldNames
<1>5. Done' = Done \cup {at}
  BY <1>1 DEF Done
<1>6. \A m \in DOMAIN functions_new \ {at} :
         /\ callhistory_new'[m].sum = callhistory_new[m].sum
         /\ callhistory_new'[m].prec = callhistory_new[m].prec
         /\ callhistory_new'[m].preserved = callhistory_new[m].preserved
  BY <1>2, <1>3
<1> QED
  BY <1>1, <1>2, <1>4, <1>5, <1>6

\* A matched call gets the summary of an old call that was not matched before.
LEMMA MatchedStep ==
  ASSUME DiffInv, NEW o \in DOMAIN functions_old, Diffing, Matched(o),
         locs_visited' = locs_visited \cup {o},
         NEW e \in [fn : OldNames, prec : {"HAVOC", "SUMMARY", "INLINE"},
                    preserved : BOOLEAN, edge : BOOLEAN, sum : Nat],
         e.sum = callhistory_old[o].sum,
         NEW added, Write(e, added), UNCHANGED inputs
  PROVE  Given' /\ Progress'
<1>1. /\ callhistory_new' \in Entries(functions_new)
      /\ at' \in Nat \ {0} /\ Done' = Done \cup {at}
      /\ callhistory_new'[at] = e
      /\ \A m \in DOMAIN functions_new \ {at} :
            callhistory_new'[m].sum = callhistory_new[m].sum
  BY WriteFacts DEF DiffInv, Diffing
<1>2. Given'
  BY DEF DiffInv, Given, inputs
<1>3. at \in DOMAIN functions_new /\ at \notin Done /\ Done \subseteq DOMAIN functions_new
  BY DEF DiffInv, Progress, Done, Diffing, DiffTypeOK
<1>4. o \notin locs_visited /\ callhistory_old[o].fn = functions_new[at].fn
  BY DEF Matched, Unmatched, CurrentFn, DiffInv, Given
<1>5. \A m \in Done : callhistory_new'[m].sum # 0 =>
        \E p \in locs_visited : /\ callhistory_old[p].sum = callhistory_new'[m].sum
                                /\ callhistory_old[p].fn = functions_new[m].fn
  BY <1>1, <1>3 DEF DiffInv, Progress
<1>6. \A m \in Done : callhistory_new'[m].sum # 0 => callhistory_new'[m].sum # e.sum
  <2> SUFFICES ASSUME NEW m \in Done, callhistory_new'[m].sum # 0,
                      callhistory_new'[m].sum = e.sum
               PROVE  FALSE
    OBVIOUS
  <2>1. PICK p \in locs_visited : callhistory_old[p].sum = callhistory_new'[m].sum
    BY <1>5
  <2>2. p \in DOMAIN functions_old
    BY DEF DiffInv, DiffTypeOK
  <2>3. p = o
    BY <2>1, <2>2 DEF DiffInv, Given
  <2> QED
    BY <1>4, <2>3
<1>7. \A m \in Done' : callhistory_new'[m].sum # 0 =>
        \E p \in locs_visited' : /\ callhistory_old'[p].sum = callhistory_new'[m].sum
                                 /\ callhistory_old'[p].fn = functions_new'[m].fn
  BY <1>1, <1>4, <1>5 DEF inputs
<1>8. \A m, n \in Done' :
        (callhistory_new'[m].sum # 0 /\ callhistory_new'[n].sum = callhistory_new'[m].sum)
           => n = m
  BY <1>1, <1>3, <1>6 DEF DiffInv, Progress
<1> QED
  BY <1>1, <1>2, <1>3, <1>7, <1>8 DEF Progress, inputs

LEMMA NewCallStep ==
  ASSUME DiffInv, NewCall PROVE DiffInv'
<1> DEFINE e == [Stub EXCEPT !.fn = CurrentFn, !.edge = FALSE]
<1>1. at \in DOMAIN functions_new /\ UNCHANGED <<inputs, untouched, locs_visited, result>>
  BY DEF NewCall, Diffing
<1>2. CurrentFn \in OldNames
  BY <1>1, NodeName DEF CurrentFn, DiffInv, Given
<1>3. e \in [fn : OldNames, prec : {"HAVOC", "SUMMARY", "INLINE"},
             preserved : BOOLEAN, edge : BOOLEAN, sum : Nat] /\ e.sum = 0
  BY <1>2 DEF Stub
<1>4. /\ callhistory_new' \in Entries(functions_new)
      /\ at' \in Nat \ {0} /\ Done' = Done \cup {at}
      /\ callhistory_new'[at] = e
      /\ \A m \in DOMAIN functions_new \ {at} :
            callhistory_new'[m].sum = callhistory_new[m].sum
  BY <1>1, <1>3, WriteFacts DEF DiffInv, NewCall
<1>5. at \notin Done /\ Done \subseteq DOMAIN functions_new
  BY DEF DiffInv, Progress, Done, DiffTypeOK
<1>6. DiffTypeOK'
  BY <1>1, <1>4 DEF DiffInv, DiffTypeOK, inputs, Entries
<1>7. Given'
  BY <1>1 DEF DiffInv, Given, inputs
<1>8. \A m \in Done' : callhistory_new'[m].sum # 0 =>
        m \in Done /\ callhistory_new'[m].sum = callhistory_new[m].sum
  BY <1>3, <1>4, <1>5
<1>9. Progress'
  BY <1>1, <1>4, <1>5, <1>8 DEF DiffInv, Progress, inputs
<1> QED
  BY <1>6, <1>7, <1>9 DEF DiffInv

LEMMA InterfaceChangedStep ==
  ASSUME DiffInv, NEW o \in DOMAIN functions_old, InterfaceChanged(o) PROVE DiffInv'
<1> DEFINE e == [callhistory_old[o] EXCEPT !.prec = "INLINE", !.preserved = FALSE,
                                           !.edge = FALSE]
<1>1. /\ Diffing /\ Matched(o) /\ locs_visited' = locs_visited \cup {o} /\ Write(e, {})
      /\ UNCHANGED inputs /\ UNCHANGED <<untouched, result>>
  BY DEF InterfaceChanged
<1>2. e \in [fn : OldNames, prec : {"HAVOC", "SUMMARY", "INLINE"},
             preserved : BOOLEAN, edge : BOOLEAN, sum : Nat]
      /\ e.sum = callhistory_old[o].sum
  BY DEF DiffInv, DiffTypeOK, Entries, OldNames
<1> HIDE DEF e
<1>3. Given' /\ Progress'
  BY <1>1, <1>2, MatchedStep
<1>4. callhistory_new' \in Entries(functions_new) /\ at' \in Nat \ {0}
  BY <1>1, <1>2, WriteFacts DEF DiffInv, Diffing
<1>5. DiffTypeOK'
  BY <1>1, <1>4 DEF DiffInv, DiffTypeOK, inputs, Entries
<1> QED
  BY <1>3, <1>5 DEF DiffInv

LEMMA ComparedStep ==
  ASSUME DiffInv, NEW o \in DOMAIN functions_old, Compared(o) PROVE DiffInv'
<1> DEFINE e == [callhistory_old[o] EXCEPT !.edge = callhistory_new[at].edge,
                                           !.preserved = Preserved]
           added == IF Preserved THEN {} ELSE AddedCalls
<1>1. /\ Diffing /\ Matched(o) /\ locs_visited' = locs_visited \cup {o} /\ Write(e, added)
      /\ UNCHANGED inputs /\ UNCHANGED result
      /\ untouched' = [untouched EXCEPT ![at] = Preserved]
  BY DEF Compared
<1>2. Preserved \in BOOLEAN
  BY DEF Preserved, Same
<1>3. callhistory_new[at].edge \in BOOLEAN
  BY <1>1 DEF DiffInv, DiffTypeOK, Entries, Diffing
<1>4. e \in [fn : OldNames, prec : {"HAVOC", "SUMMARY", "INLINE"},
             preserved : BOOLEAN, edge : BOOLEAN, sum : Nat]
      /\ e.sum = callhistory_old[o].sum
  BY <1>2, <1>3 DEF DiffInv, DiffTypeOK, Entries, OldNames
<1> HIDE DEF e, added
<1>5. Given' /\ Progress'
  BY <1>1, <1>4, MatchedStep
<1>6. callhistory_new' \in Entries(functions_new) /\ at' \in Nat \ {0}
  BY <1>1, <1>4, WriteFacts DEF DiffInv, Diffing
<1>7. untouched' \in [DOMAIN functions_new -> BOOLEAN]
  BY <1>1, <1>2 DEF DiffInv, DiffTypeOK
<1>8. DiffTypeOK'
  BY <1>1, <1>6, <1>7 DEF DiffInv, DiffTypeOK, inputs, Entries
<1> QED
  BY <1>5, <1>8 DEF DiffInv

LEMMA DiffNextInvariant == DiffInv /\ [DiffNext]_diffVars => DiffInv'
<1> SUFFICES ASSUME DiffInv, [DiffNext]_diffVars PROVE DiffInv'
  OBVIOUS
<1>1. CASE NewCall
  BY <1>1, NewCallStep
<1>2. ASSUME NEW o \in DOMAIN functions_old, InterfaceChanged(o) PROVE DiffInv'
  BY <1>2, InterfaceChangedStep
<1>3. ASSUME NEW o \in DOMAIN functions_old, Compared(o) PROVE DiffInv'
  BY <1>3, ComparedStep
<1>4. CASE Report
  <2>1. result' \in {"none", "identical", "changed"}
    BY <1>4 DEF Report
  <2>2. UNCHANGED <<inputs, untouched, callhistory_new, locs_visited, at>>
    BY <1>4 DEF Report
  <2> QED
    BY <2>1, <2>2 DEF DiffInv, DiffTypeOK, Given, Progress, Done, inputs, Entries
<1>5. CASE UNCHANGED diffVars
  BY <1>5 DEF diffVars, DiffInv, DiffTypeOK, Given, Progress, Done, inputs, Entries
<1> QED
  BY <1>1, <1>2, <1>3, <1>4, <1>5 DEF DiffNext

THEOREM DiffInvariance == DiffSpec => []DiffInv
BY DiffInitInvariant, DiffNextInvariant, PTL DEF DiffSpec

\* Every entry that is read or written has its type: do_diff never leaves a flag or a
\* summary id undefined.
THEOREM DiffTypeCorrect == DiffSpec => []DiffTypeOK
<1>1. DiffInv => DiffTypeOK
  BY DEF DiffInv
<1> QED
  BY <1>1, DiffInvariance, PTL

\* Whatever the two revisions are, and however often they call a function, no two new
\* calls get the same summary, and each gets one of its own function.
THEOREM SummariesGoToOneCall == DiffSpec => []SummariesNotShared
<1>1. DiffInv => SummariesNotShared
  <2> SUFFICES ASSUME DiffInv, NEW m \in 1 .. at - 1, callhistory_new[m].sum # 0
               PROVE  /\ \A n \in 1 .. at - 1 :
                            callhistory_new[n].sum = callhistory_new[m].sum => n = m
                      /\ \E o \in DOMAIN callhistory_old :
                            /\ callhistory_old[o].sum = callhistory_new[m].sum
                            /\ callhistory_old[o].fn = functions_new[m].fn
    BY DEF SummariesNotShared
  <2>1. 1 .. at - 1 = Done
    BY DEF DiffInv, DiffTypeOK, Done
  <2>2. locs_visited \subseteq DOMAIN callhistory_old
    BY DEF DiffInv, DiffTypeOK, Given
  <2> QED
    BY <2>1, <2>2 DEF DiffInv, Progress
<1> QED
  BY <1>1, DiffInvariance, PTL

-----------------------------------------------------------------------------
(***************************************************************************)
(* The result.                                                             *)
(***************************************************************************)
\* The calls of the two revisions that are compared.
Compares == functions_old = Unrolled(old) /\ functions_new = Unrolled(new)

\* They are those that collect_functions found.
LEMMA ComparesInvariant == DiffSpec => []Compares
<1>1. DiffInit => Compares
  BY DEF DiffInit, StartDiff, Compares
<1>2. Compares /\ [DiffNext]_diffVars => Compares'
  BY DEF Compares, DiffNext, NewCall, InterfaceChanged, Compared, Report, diffVars, inputs
<1> QED
  BY <1>1, <1>2, PTL DEF DiffSpec

\* They are of functions of their revisions, the first of Initializer.
LEMMA ComparedNames ==
  ASSUME DiffInv, Compares
  PROVE  /\ Names(functions_old) \subseteq DOMAIN old
         /\ Names(functions_new) \subseteq DOMAIN new
         /\ \A n \in DOMAIN functions_old : functions_old[n].fn \in Names(functions_old)
         /\ \A n \in DOMAIN functions_new : functions_new[n].fn \in Names(functions_new)
         /\ 1 \in DOMAIN functions_old /\ functions_old[1].fn = Initializer
         /\ 1 \in DOMAIN functions_new /\ functions_new[1].fn = Initializer
<1>1. old \in Revisions /\ new \in Revisions
  BY DEF DiffInv, DiffTypeOK
<1>2. /\ functions_old # << >> /\ functions_old[1].fn = Initializer
      /\ functions_new # << >> /\ functions_new[1].fn = Initializer
      /\ Names(functions_old) \subseteq DOMAIN old
      /\ Names(functions_new) \subseteq DOMAIN new
  BY <1>1, UnrolledFacts DEF Compares
<1>3. 1 \in DOMAIN functions_old /\ 1 \in DOMAIN functions_new
  BY <1>2, LenProperties, EmptySeq DEF DiffInv, Given
<1> QED
  BY <1>2, <1>3 DEF Names, ToSet

\* Whatever the two bodies are, the subsequence compare_str_vecs computes is common to
\* both and none is longer: do_proper_diff looks for nothing that is not there.
THEOREM CommonSubsequenceIsLongest == DiffSpec => []CommonIsLongest
<1>1. DiffInv /\ Compares => CommonIsLongest
  <2> SUFFICES ASSUME DiffInv, Compares, Diffing, CurrentFn \in DOMAIN old
               PROVE  LET a == Text(old[CurrentFn].body)
                          b == Text(new[CurrentFn].body)
                          common == Subsequences(a) \cap Subsequences(b)
                      IN  /\ Common(a, b) \in common
                          /\ \A s \in common : Len(s) <= Len(Common(a, b))
    BY DEF CommonIsLongest
  <2>1. CurrentFn \in DOMAIN new
    BY ComparedNames DEF Diffing, CurrentFn
  <2>2. PICK S : Text(old[CurrentFn].body) \in Seq(S) /\ Text(new[CurrentFn].body) \in Seq(S)
    BY <2>1, TextsFacts DEF DiffInv, DiffTypeOK
  <2> QED
    BY <2>2, LongestOfAll
<1> QED
  BY <1>1, DiffInvariance, ComparesInvariant, PTL

-----------------------------------------------------------------------------
\* The new calls compared so far that count as preserved.
Kept == {n \in Done : n = 1 \/ untouched[n]}

\* Each kept call has an old call of its own.
MatchOf(m) == /\ m \in Injection(Kept, locs_visited)
              /\ \A n \in Kept : functions_old[m[n]].fn = functions_new[n].fn

\* It is of a function with the same interface and text.
KeptAlike == \A n \in Done : (n # 1 /\ untouched[n]) =>
            LET f == functions_new[n].fn
            IN  SameInterface(f) /\ Text(old[f].body) = Text(new[f].body)

\* Of revisions with the same text, every call is its own partner.
InStep == SameText => /\ locs_visited = Done
                      /\ \A n \in Done : n # 1 => untouched[n]

ComparisonInv ==
  /\ Compares
  /\ at = 1 => locs_visited = {}
  /\ \A n \in DOMAIN functions_new \ Done : ~ untouched[n]
  /\ \E m : MatchOf(m)
  /\ KeptAlike
  /\ InStep
  /\ ResultExact

\* When the last call was compared, all were.
LEMMA AllDone ==
  ASSUME DiffInv, at \notin DOMAIN functions_new
  PROVE  Done = DOMAIN functions_new
<1> DEFINE M == Len(functions_new)
<1>1. M \in Nat /\ DOMAIN functions_new = 1 .. M
  BY LenProperties DEF DiffInv, Given
<1>2. at \in Nat \ {0} /\ at \notin 1 .. M /\ Done \subseteq 1 .. M
  BY <1>1 DEF DiffInv, DiffTypeOK, Progress
<1>3. at > M
  BY <1>1, <1>2
<1>4. \A n \in 1 .. M : n < at /\ n \in Nat \ {0}
  BY <1>1, <1>2, <1>3
<1> QED
  BY <1>1, <1>2, <1>4 DEF Done

\* If every new call is kept, or as many as there are old calls, the texts are the same.
\* With as many new calls as old ones or more, every old call is the partner of a new
\* one, so every function that was called makes the same calls; with fewer, every
\* function that is called does.
LEMMA KeptIsSameText ==
  ASSUME DiffInv, ComparisonInv, StartAlike, at \notin DOMAIN functions_new,
         \A n \in DOMAIN functions_new : n <= Len(functions_old) => n \in Kept
  PROVE  SameText
<1> DEFINE L == Len(functions_old)
           M == Len(functions_new)
<1>0. /\ old \in Revisions /\ new \in Revisions
      /\ L \in Nat /\ M \in Nat /\ DOMAIN functions_old = 1 .. L /\ DOMAIN functions_new = 1 .. M
      /\ locs_visited \subseteq 1 .. L
  BY LenProperties DEF DiffInv, DiffTypeOK, Given
<1>1. Done = 1 .. M
  BY <1>0, AllDone
<1>2. \A n \in 1 .. M : n <= L => n \in Kept
  BY <1>0
<1>3. PICK m : MatchOf(m)
  BY DEF ComparisonInv
<1>4. ASSUME NEW n \in Kept
      PROVE  LET f == functions_new[n].fn
             IN  f \in DOMAIN old /\ f \in DOMAIN new
                 /\ Callees(old[f].body) = Callees(new[f].body)
  <2> DEFINE f == functions_new[n].fn
  <2>1. n \in DOMAIN functions_new /\ m[n] \in DOMAIN functions_old
        /\ functions_old[m[n]].fn = f
    BY <1>0, <1>1, <1>3 DEF MatchOf, Injection, Kept
  <2>2. f \in DOMAIN old /\ f \in DOMAIN new
    BY <2>1, ComparedNames DEF ComparisonInv
  <2>3. CASE n = 1
    <3>1. f = Initializer
      BY <2>3, ComparedNames DEF ComparisonInv
    <3> QED
      BY <1>0, <2>2, <3>1 DEF StartAlike
  <2>4. CASE n # 1
    <3>1. Text(old[f].body) = Text(new[f].body)
      BY <2>4 DEF ComparisonInv, KeptAlike, Kept
    <3> HIDE DEF f
    <3>2. Callees(old[f].body) = Callees(new[f].body)
      BY <3>1, SameTextSameCallees
    <3> QED
      BY <2>2, <3>2 DEF f
  <2> QED
    BY <2>3, <2>4
<1>5. Entry \in DOMAIN old /\ Entry \in DOMAIN new
      /\ Callees(old[Entry].body) = Callees(new[Entry].body)
  BY <1>0, RevisionsAssumption DEF StartAlike
<1>6. CASE L <= M
  <2> DEFINE h == [n \in 1 .. L |-> m[n]]
  <2>1. \A n \in 1 .. L : n \in Kept
    BY <1>0, <1>2, <1>6
  <2>2. h \in Injection(1 .. L, 1 .. L)
    <3>1. m \in [Kept -> locs_visited] /\ \A a, b \in Kept : m[a] = m[b] => a = b
      BY <1>3 DEF MatchOf, Injection, IsInjective
    <3>2. h \in [1 .. L -> 1 .. L]
      BY <1>0, <2>1, <3>1
    <3>3. \A a, b \in 1 .. L : h[a] = h[b] => a = b
      BY <2>1, <3>1
    <3> HIDE DEF h
    <3> QED
      BY <3>2, <3>3 DEF Injection, IsInjective
  <2>3. h \in Surjection(1 .. L, 1 .. L)
    <3>1. IsFiniteSet(1 .. L)
      BY <1>0, FS_Interval
    <3> HIDE DEF h, L
    <3> QED
      BY <2>2, <3>1, FS_Injection
  <2>4. \A p \in 1 .. L : \E n \in Kept : functions_old[p].fn = functions_new[n].fn
    <3> TAKE p \in 1 .. L
    <3>1. PICK n \in 1 .. L : h[n] = p
      BY <2>3 DEF Surjection
    <3>2. n \in Kept /\ m[n] = p
      BY <2>1, <3>1
    <3> QED
      BY <1>3, <3>2 DEF MatchOf
  <2>5. \A f \in Names(functions_old) :
          f \in DOMAIN new /\ Callees(old[f].body) = Callees(new[f].body)
    <3> TAKE f \in Names(functions_old)
    <3>1. PICK p \in 1 .. L : f = functions_old[p].fn
      BY <1>0 DEF Names, ToSet
    <3> QED
      BY <1>4, <2>4, <3>1
  <2>6. functions_old = functions_new
    BY <1>0, <1>5, <2>5, UnrolledAlike DEF ComparisonInv, Compares
  <2>7. \A n \in 2 .. M : n \in Kept /\ n \in Done /\ n # 1 /\ untouched[n]
    <3> TAKE n \in 2 .. M
    <3>1. n \in 1 .. M /\ n # 1 /\ n <= L
      BY <1>0, <2>6
    <3> QED
      BY <1>2, <3>1 DEF Kept
  <2> QED
    BY <2>6, <2>7 DEF ComparisonInv, KeptAlike, SameText
<1>7. CASE M < L
  <2>1. \A f \in Names(functions_new) :
          f \in DOMAIN old /\ Callees(new[f].body) = Callees(old[f].body)
    <3> TAKE f \in Names(functions_new)
    <3>1. PICK n \in 1 .. M : f = functions_new[n].fn
      BY <1>0 DEF Names, ToSet
    <3>2. n \in Kept
      BY <1>0, <1>2, <1>7
    <3> QED
      BY <1>4, <3>1, <3>2
  <2>2. functions_new = functions_old
    BY <1>0, <1>5, <2>1, UnrolledAlike DEF ComparisonInv, Compares
  <2> QED
    BY <1>0, <1>7, <2>2
<1> QED
  BY <1>0, <1>6, <1>7

\* The flags that are read say whether the texts are the same.
LEMMA ReportIsExact ==
  ASSUME DiffInv, ComparisonInv, StartAlike, Report
  PROVE  result' = "identical" <=> SameText
<1> DEFINE L == Len(functions_old)
           M == Len(functions_new)
<1>0. /\ old \in Revisions /\ new \in Revisions
      /\ L \in Nat /\ M \in Nat /\ DOMAIN functions_old = 1 .. L /\ DOMAIN functions_new = 1 .. M
      /\ locs_visited \subseteq 1 .. L
  BY LenProperties DEF DiffInv, DiffTypeOK, Given
<1>1. Done = 1 .. M
  BY <1>0, AllDone DEF Report
<1>2. PICK junk \in BOOLEAN :
        result' = IF \A n \in Tested : IF n \in DOMAIN functions_new THEN untouched[n]
                                       ELSE junk
                  THEN "identical" ELSE "changed"
  BY DEF Report
<1>3. ASSUME SameText PROVE result' = "identical"
  <2>1. L = M
    BY <1>3 DEF SameText
  <2>2. \A n \in Tested : n \in Done /\ n # 1
    BY <1>0, <1>1, <2>1 DEF Tested
  <2>3. \A n \in Tested : n \in DOMAIN functions_new /\ untouched[n]
    BY <1>0, <1>1, <1>3, <2>2 DEF ComparisonInv, InStep
  <2> QED
    BY <1>2, <2>3
<1>4. ASSUME result' = "identical" PROVE SameText
  <2>1. \A n \in Tested : n \in DOMAIN functions_new => untouched[n]
    BY <1>2, <1>4
  <2>2. \A n \in DOMAIN functions_new : n <= L => n \in Kept
    <3> SUFFICES ASSUME NEW n \in 1 .. M, n <= L PROVE n \in Kept
      BY <1>0
    <3>1. n # 1 => n \in Tested
      BY <1>0 DEF Tested
    <3> QED
      BY <1>0, <1>1, <2>1, <3>1 DEF Kept
  <2>3. at \notin DOMAIN functions_new
    BY DEF Report
  <2> QED
    BY <2>2, <2>3, KeptIsSameText
<1> QED
  BY <1>3, <1>4

\* Nothing is compared yet.
LEMMA InitialComparison == DiffInit => ComparisonInv
<1> SUFFICES ASSUME DiffInit PROVE ComparisonInv
  OBVIOUS
<1>1. PICK S \in SUBSET (3 .. Len(Unrolled(old))), other \in {"HAVOC", "INLINE"} :
        StartDiff(Omega(Unrolled(old), S, other))
  BY DEF DiffInit
<1>2. Done = {} /\ locs_visited = {} /\ result = "none"
  BY <1>1 DEF Done, StartDiff
<1>3. Kept = {}
  BY <1>2 DEF Kept
<1> DEFINE m == [n \in {} |-> n]
<1>4. m \in [{} -> {}]
  OBVIOUS
<1> HIDE DEF m
<1>5. MatchOf(m)
  BY <1>2, <1>3, <1>4 DEF MatchOf, Injection, IsInjective
<1>6. \A n \in DOMAIN functions_new \ Done : ~ untouched[n]
  BY <1>1 DEF StartDiff
<1>7. Compares
  BY <1>1 DEF StartDiff, Compares
<1> QED
  BY <1>2, <1>5, <1>6, <1>7 DEF ComparisonInv, KeptAlike, InStep, ResultExact

\* Comparing a call changes nothing but this call's flag.
LEMMA WriteStep ==
  ASSUME DiffInv, Diffing, NEW e, NEW added, Write(e, added)
  PROVE  /\ at \in DOMAIN functions_new /\ at \in Nat \ {0} /\ at' = at + 1
         /\ at \notin Done /\ Done' = Done \cup {at} /\ at' # 1
<1>1. at \in Nat \ {0} /\ at' = at + 1 /\ at \in DOMAIN functions_new
  BY DEF DiffInv, DiffTypeOK, Diffing, Write
<1> QED
  BY <1>1 DEF Done

\* The current call is matched with o, and kept if its flag is set.
LEMMA MatchGrows ==
  ASSUME DiffInv, ComparisonInv, Diffing, NEW e, NEW added, Write(e, added), UNCHANGED inputs,
         NEW o \in DOMAIN functions_old, Matched(o), locs_visited' = locs_visited \cup {o},
         \A n \in DOMAIN functions_new \ {at} : untouched'[n] = untouched[n]
  PROVE  \E m : MatchOf(m)'
<1>1. /\ at \notin Done /\ Done' = Done \cup {at} /\ at \in DOMAIN functions_new
      /\ Done \subseteq DOMAIN functions_new
  BY WriteStep DEF DiffInv, Progress
<1>2. PICK m : MatchOf(m)
  BY DEF ComparisonInv
<1>3. o \notin locs_visited /\ functions_old[o].fn = functions_new[at].fn
  BY DEF Matched, Unmatched, CurrentFn
<1>4. \A n \in Kept' : n # at => n \in Kept
  BY <1>1 DEF Kept
<1>5. /\ m \in [Kept -> locs_visited] /\ \A a, b \in Kept : m[a] = m[b] => a = b
      /\ \A n \in Kept : functions_old[m[n]].fn = functions_new[n].fn
  BY <1>2 DEF MatchOf, Injection, IsInjective
<1> DEFINE h == [n \in Kept' |-> IF n = at THEN o ELSE m[n]]
<1>6. \A n \in Kept' : h[n] = IF n = at THEN o ELSE m[n]
  OBVIOUS
<1>7. h \in [Kept' -> locs_visited']
  BY <1>4, <1>5
<1> HIDE DEF h
<1>8. \A a, b \in Kept' : h[a] = h[b] => a = b
  BY <1>3, <1>4, <1>5, <1>6
<1>9. \A n \in Kept' : functions_old'[h[n]].fn = functions_new'[n].fn
  BY <1>3, <1>4, <1>5, <1>6 DEF inputs
<1>10. h \in Injection(Kept', locs_visited')
  BY <1>7, <1>8 DEF Injection, IsInjective
<1>11. \E m1 : /\ m1 \in Injection(Kept', locs_visited')
               /\ \A n \in Kept' : functions_old'[m1[n]].fn = functions_new'[n].fn
  BY <1>9, <1>10
<1> QED
  BY <1>11 DEF MatchOf

\* Of revisions with the same text, each call is matched with itself.
LEMMA MatchedWithItself ==
  ASSUME DiffInv, ComparisonInv, Diffing, SameText
  PROVE  /\ Unmatched # {} /\ \A o : Matched(o) => o = at
         /\ at # 1 => /\ SameInterface(CurrentFn)
                      /\ Text(old[CurrentFn].body) = Text(new[CurrentFn].body)
<1>1. /\ functions_old = functions_new /\ locs_visited = Done
      /\ at \in DOMAIN functions_new /\ at \in Nat \ {0}
      /\ DOMAIN functions_new = 1 .. Len(functions_new) /\ Len(functions_new) \in Nat
  BY LenProperties DEF ComparisonInv, InStep, SameText, Diffing, DiffInv, DiffTypeOK, Given
<1>2. at \in Unmatched
  BY <1>1 DEF Unmatched, CurrentFn, Done
<1>3. \A o \in Unmatched : at <= o /\ o \in Nat
  <2> TAKE o \in Unmatched
  <2>1. o \in 1 .. Len(functions_new) /\ o \notin Done
    BY <1>1 DEF Unmatched
  <2> QED
    BY <1>1, <2>1 DEF Done
<1>4. \A o : Matched(o) => o = at
  <2> SUFFICES ASSUME NEW o, Matched(o) PROVE o = at
    OBVIOUS
  <2>1. o \in Unmatched /\ o <= at
    BY <1>2 DEF Matched
  <2> QED
    BY <1>1, <1>3, <2>1
<1>5. at # 1 => at \in 2 .. Len(functions_new)
  BY <1>1
<1> QED
  BY <1>2, <1>4, <1>5 DEF SameText, CurrentFn

\* A call without a partner exists only where the texts differ, and is not kept.
LEMMA NewCallCompares ==
  ASSUME DiffInv, ComparisonInv, NewCall
  PROVE  ComparisonInv'
<1>1. Diffing /\ Unmatched = {} /\ UNCHANGED <<inputs, untouched, locs_visited, result>>
  BY DEF NewCall
<1>2. /\ at \in DOMAIN functions_new /\ at \in Nat \ {0}
      /\ at \notin Done /\ Done' = Done \cup {at} /\ at' # 1
  BY <1>1, WriteStep DEF NewCall
<1>3. at # 1
  <2> SUFFICES ASSUME at = 1 PROVE FALSE
    OBVIOUS
  <2>1. 1 \in Unmatched
    BY ComparedNames DEF ComparisonInv, Unmatched, CurrentFn
  <2> QED
    BY <1>1, <2>1
<1>4. ~ untouched[at]
  BY <1>2 DEF ComparisonInv
<1>5. Kept' = Kept
  BY <1>1, <1>2, <1>3, <1>4 DEF Kept
<1>6. \E m : MatchOf(m)'
  <2>1. PICK m : MatchOf(m)
    BY DEF ComparisonInv
  <2>2. MatchOf(m)'
    BY <1>1, <1>5, <2>1 DEF MatchOf, inputs
  <2> QED
    BY <2>2
<1>7. ~ SameText
  BY <1>1, MatchedWithItself
<1>8. ~ SameText'
  BY <1>1, <1>7 DEF SameText, SameInterface, inputs
<1>9. KeptAlike'
  BY <1>1, <1>2, <1>4 DEF ComparisonInv, KeptAlike, SameInterface, inputs
<1>10. Compares' /\ result' = "none"
  BY <1>1 DEF ComparisonInv, Compares, inputs, Diffing
<1>11. \A n \in DOMAIN functions_new' \ Done' : ~ untouched'[n]
  BY <1>1, <1>2 DEF ComparisonInv, inputs
<1> QED
  BY <1>2, <1>6, <1>8, <1>9, <1>10, <1>11 DEF ComparisonInv, InStep, ResultExact

\* Nor is a call whose interface changed.
LEMMA InterfaceChangedCompares ==
  ASSUME DiffInv, ComparisonInv, NEW o \in DOMAIN functions_old, InterfaceChanged(o)
  PROVE  ComparisonInv'
<1> DEFINE e == [callhistory_old[o] EXCEPT !.prec = "INLINE", !.preserved = FALSE,
                                           !.edge = FALSE]
<1>1. /\ Diffing /\ Matched(o) /\ ~ SameInterface(CurrentFn)
      /\ locs_visited' = locs_visited \cup {o} /\ Write(e, {})
      /\ UNCHANGED <<inputs, untouched, result>>
  BY DEF InterfaceChanged
<1> HIDE DEF e
<1>2. /\ at \in DOMAIN functions_new /\ at \in Nat \ {0}
      /\ at \notin Done /\ Done' = Done \cup {at} /\ at' # 1
  BY <1>1, WriteStep
<1>3. \E m : MatchOf(m)'
  BY <1>1, MatchGrows DEF inputs
<1>4. ~ untouched[at]
  BY <1>2 DEF ComparisonInv
<1>5. KeptAlike'
  BY <1>1, <1>2, <1>4 DEF ComparisonInv, KeptAlike, SameInterface, inputs
<1>6. InStep'
  <2> SUFFICES ASSUME SameText' PROVE locs_visited' = Done' /\ \A n \in Done' : n # 1 => untouched'[n]
    BY DEF InStep
  <2>1. SameText
    BY <1>1 DEF SameText, SameInterface, inputs
  <2>2. at = 1 /\ o = at
    BY <1>1, <2>1, MatchedWithItself
  <2> QED
    BY <1>1, <1>2, <2>1, <2>2 DEF ComparisonInv, InStep
<1>7. Compares' /\ result' = "none"
  BY <1>1 DEF ComparisonInv, Compares, inputs, Diffing
<1>8. \A n \in DOMAIN functions_new' \ Done' : ~ untouched'[n]
  BY <1>1, <1>2 DEF ComparisonInv, inputs
<1> QED
  BY <1>2, <1>3, <1>5, <1>6, <1>7, <1>8 DEF ComparisonInv, ResultExact

\* A call that is compared is kept exactly if its text is the same.
LEMMA ComparedCompares ==
  ASSUME DiffInv, ComparisonInv, NEW o \in DOMAIN functions_old, Compared(o)
  PROVE  ComparisonInv'
<1> DEFINE e == [callhistory_old[o] EXCEPT !.edge = callhistory_new[at].edge,
                                           !.preserved = Preserved]
           added == IF Preserved THEN {} ELSE AddedCalls
<1>1. /\ Diffing /\ Matched(o) /\ SameInterface(CurrentFn)
      /\ locs_visited' = locs_visited \cup {o} /\ Write(e, added)
      /\ UNCHANGED <<inputs, result>>
      /\ untouched' = [untouched EXCEPT ![at] = Preserved]
  BY DEF Compared
<1> HIDE DEF e, added
<1>2. /\ at \in DOMAIN functions_new /\ at \in Nat \ {0}
      /\ at \notin Done /\ Done' = Done \cup {at} /\ at' # 1
  BY <1>1, WriteStep
<1>3. /\ untouched'[at] = Preserved
      /\ \A n \in DOMAIN functions_new \ {at} : untouched'[n] = untouched[n]
  BY <1>1, <1>2 DEF DiffInv, DiffTypeOK
<1>4. \E m : MatchOf(m)'
  BY <1>1, <1>3, MatchGrows DEF inputs
<1>5. at # 1 => (Preserved <=> Text(old[CurrentFn].body) = Text(new[CurrentFn].body))
  <2>1. CurrentFn \in DOMAIN new /\ CurrentFn \in DOMAIN old
    <3>1. functions_old[o].fn = CurrentFn
      BY <1>1 DEF Matched, Unmatched
    <3> QED
      BY <1>2, <3>1, ComparedNames DEF ComparisonInv, CurrentFn
  <2>2. PICK S : Text(old[CurrentFn].body) \in Seq(S) /\ Text(new[CurrentFn].body) \in Seq(S)
    BY <2>1, TextsFacts DEF DiffInv, DiffTypeOK
  <2> QED
    BY <2>2, SameFacts DEF Preserved
<1>6. KeptAlike'
  <2> SUFFICES ASSUME NEW n \in Done', n # 1, untouched'[n]
               PROVE  /\ SameInterface(functions_new[n].fn)
                      /\ Text(old[functions_new[n].fn].body)
                           = Text(new[functions_new[n].fn].body)
    BY <1>1 DEF KeptAlike, SameInterface, inputs
  <2>1. CASE n = at
    <3>1. at # 1 /\ untouched'[at] /\ functions_new[n].fn = CurrentFn
      BY <2>1 DEF CurrentFn
    <3> QED
      BY <1>1, <1>3, <1>5, <3>1
  <2>2. CASE n \in Done
    <3>1. untouched[n]
      BY <1>2, <1>3, <2>2 DEF DiffInv, Progress
    <3> QED
      BY <2>2, <3>1 DEF ComparisonInv, KeptAlike
  <2> QED
    BY <1>2, <2>1, <2>2
<1>7. InStep'
  <2> SUFFICES ASSUME SameText' PROVE locs_visited' = Done' /\ \A n \in Done' : n # 1 => untouched'[n]
    BY DEF InStep
  <2>1. SameText
    BY <1>1 DEF SameText, SameInterface, inputs
  <2>2. o = at /\ (at # 1 => untouched'[at])
    BY <1>1, <1>3, <1>5, <2>1, MatchedWithItself
  <2>3. locs_visited = Done /\ \A n \in Done : n # 1 => untouched[n]
    BY <2>1 DEF ComparisonInv, InStep
  <2>4. \A n \in Done : n \in DOMAIN functions_new \ {at}
    BY <1>2 DEF DiffInv, Progress
  <2> QED
    BY <1>1, <1>2, <1>3, <2>2, <2>3, <2>4
<1>8. Compares' /\ result' = "none"
  BY <1>1 DEF ComparisonInv, Compares, inputs, Diffing
<1>9. \A n \in DOMAIN functions_new' \ Done' : ~ untouched'[n]
  BY <1>1, <1>2, <1>3 DEF ComparisonInv, inputs
<1> QED
  BY <1>2, <1>4, <1>6, <1>7, <1>8, <1>9 DEF ComparisonInv, ResultExact

\* No step breaks the comparison.
LEMMA NextComparison ==
  ASSUME StartAlike, DiffInv, ComparisonInv, [DiffNext]_diffVars
  PROVE  ComparisonInv'
<1>1. CASE NewCall
  BY <1>1, NewCallCompares
<1>2. ASSUME NEW o \in DOMAIN functions_old, InterfaceChanged(o) PROVE ComparisonInv'
  BY <1>2, InterfaceChangedCompares
<1>3. ASSUME NEW o \in DOMAIN functions_old, Compared(o) PROVE ComparisonInv'
  BY <1>3, ComparedCompares
<1>4. ASSUME UNCHANGED <<inputs, untouched, locs_visited, at>>
      PROVE  /\ Compares' /\ (at' = 1 => locs_visited' = {})
             /\ \A n \in DOMAIN functions_new' \ Done' : ~ untouched'[n]
             /\ \E m : MatchOf(m)'
             /\ KeptAlike' /\ InStep' /\ (SameText' <=> SameText)
  <2>1. Done' = Done /\ Kept' = Kept /\ (SameText' <=> SameText)
    BY <1>4 DEF Done, Kept, SameText, SameInterface, inputs
  <2>2. PICK m : MatchOf(m)
    BY DEF ComparisonInv
  <2>3. MatchOf(m)'
    BY <1>4, <2>1, <2>2 DEF MatchOf, inputs
  <2>4. Compares' /\ KeptAlike' /\ InStep'
    BY <1>4, <2>1 DEF ComparisonInv, Compares, KeptAlike, InStep, SameInterface, inputs
  <2> QED
    BY <1>4, <2>1, <2>3, <2>4 DEF ComparisonInv, inputs
<1>5. CASE Report
  <2>1. UNCHANGED <<inputs, untouched, locs_visited, at>>
    BY <1>5 DEF Report
  <2>2. ResultExact'
    BY <1>4, <1>5, <2>1, ReportIsExact DEF ResultExact
  <2> QED
    BY <1>4, <2>1, <2>2 DEF ComparisonInv
<1>6. CASE UNCHANGED diffVars
  <2>1. UNCHANGED <<inputs, untouched, locs_visited, at>> /\ result' = result
    BY <1>6 DEF diffVars
  <2>2. ResultExact'
    BY <1>4, <2>1 DEF ComparisonInv, ResultExact
  <2> QED
    BY <1>4, <2>1, <2>2 DEF ComparisonInv
<1> QED
  BY <1>1, <1>2, <1>3, <1>5, <1>6 DEF DiffNext

\* do_diff answers exactly whether the two revisions have the same text, whatever is read
\* past the end of the flags, if the entry point and __CPROVER_initialize, which it does
\* not compare, make the same calls in all revisions.
THEOREM ResultIsExact == StartAlike => (DiffSpec => []ResultExact)
<1> SUFFICES ASSUME StartAlike PROVE DiffSpec => []ResultExact
  OBVIOUS
<1>1. DiffInv /\ ComparisonInv /\ [DiffNext]_diffVars => ComparisonInv'
  BY NextComparison
<1>2. ComparisonInv => ResultExact
  BY DEF ComparisonInv
<1> QED
  BY <1>1, <1>2, InitialComparison, DiffInvariance, PTL DEF DiffSpec
=============================================================================
