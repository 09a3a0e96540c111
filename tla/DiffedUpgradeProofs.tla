------------------------- MODULE DiffedUpgradeProofs -------------------------
(***************************************************************************)
(* Proofs about DiffedUpgrade, for all revisions, every __omega and every  *)
(* proof of the old revision.                                              *)
(*                                                                         *)
(* The proof of the old revision is about its calls, the traversal about   *)
(* those of the new one; diff relates the two by positions in pre-order.   *)
(* So the first part is about the unrolling: the calls below a call are    *)
(* those that its body makes, in their order (CallsBelow).  A call whose   *)
(* function has the same text then does what its partner did, provided     *)
(* that the calls below do no more than the partners of theirs (SameDeeds).*)
(*                                                                         *)
(* A revision that is taken for identical is its own partner, call by      *)
(* call.  In any other, a call below a preserved one may be matched with a *)
(* call elsewhere; OnceCalled rules that out, and then the old proof, read *)
(* for the new calls, is what the traversal may start from.                *)
(***************************************************************************)
EXTENDS DiffedUpgrade, OmegaDiffProofs, SummaryValidationProofs

-----------------------------------------------------------------------------
(***************************************************************************)
(* The unrolled calls are well nested.                                     *)
(***************************************************************************)
\* The calls of P, in their order, are calls of the functions fns.
InOrder(s, P, fns) ==
  \E e : /\ Increasing(e, Len(fns), Len(s))
         /\ P = {e[k] : k \in 1 .. Len(fns)}
         /\ \A k \in 1 .. Len(fns) : s[e[k]].fn = fns[k]

\* What is known of the concatenation of two sequences, position by position.
LEMMA JoinFacts ==
  ASSUME NEW S, NEW T, NEW s \in Seq(S), NEW t \in Seq(T)
  PROVE  /\ Len(s) \in Nat /\ Len(t) \in Nat /\ Len(s \o t) = Len(s) + Len(t)
         /\ DOMAIN s = 1 .. Len(s) /\ DOMAIN t = 1 .. Len(t)
         /\ \A i \in 1 .. Len(s) : i \in 1 .. Len(s \o t) /\ (s \o t)[i] = s[i]
         /\ \A i \in 1 .. Len(t) :
              Len(s) + i \in 1 .. Len(s \o t) /\ (s \o t)[Len(s) + i] = t[i]
         /\ \A i \in 1 .. Len(s \o t) :
              i \in 1 .. Len(s) \/ \E j \in 1 .. Len(t) : i = Len(s) + j
<1>1. s \in Seq(S \cup T) /\ t \in Seq(S \cup T)
  BY SeqMonotonic
<1>2. /\ Len(s \o t) = Len(s) + Len(t)
      /\ \A i \in 1 .. Len(s) + Len(t) :
           (s \o t)[i] = IF i <= Len(s) THEN s[i] ELSE t[i - Len(s)]
  BY <1>1, ConcatProperties
<1>3. Len(s) \in Nat /\ Len(t) \in Nat /\ DOMAIN s = 1 .. Len(s) /\ DOMAIN t = 1 .. Len(t)
  BY LenProperties
<1>4. \A i \in 1 .. Len(s) : i \in 1 .. Len(s) + Len(t) /\ (s \o t)[i] = s[i]
  BY <1>2, <1>3
<1>5. \A i \in 1 .. Len(t) : Len(s) + i \in 1 .. Len(s) + Len(t) /\ (s \o t)[Len(s) + i] = t[i]
  <2> TAKE i \in 1 .. Len(t)
  <2>1. Len(s) + i \in 1 .. Len(s) + Len(t) /\ ~ (Len(s) + i <= Len(s))
        /\ Len(s) + i - Len(s) = i
    BY <1>3
  <2> QED
    BY <1>2, <2>1
<1>6. ASSUME NEW i \in 1 .. Len(s) + Len(t)
      PROVE  i \in 1 .. Len(s) \/ \E j \in 1 .. Len(t) : i = Len(s) + j
  <2>1. ~ (i \in 1 .. Len(s)) => i - Len(s) \in 1 .. Len(t) /\ i = Len(s) + (i - Len(s))
    BY <1>3
  <2>2. i - Len(s) \in 1 .. Len(t) /\ i = Len(s) + (i - Len(s))
           => \E j \in 1 .. Len(t) : i = Len(s) + j
    OBVIOUS
  <2> QED
    BY <2>1, <2>2
<1> QED
  BY <1>2, <1>3, <1>4, <1>5, <1>6

LEMMA InOrderAppend ==
  ASSUME NEW S, NEW T, NEW s \in Seq(S), NEW t \in Seq(S), NEW F \in Seq(T), NEW G \in Seq(T),
         NEW P, NEW Q, InOrder(s, P, F), InOrder(t, Q, G)
  PROVE  InOrder(s \o t, P \cup {Len(s) + q : q \in Q}, F \o G)
<1> DEFINE l == Len(s)
           n == Len(F)
           m == Len(G)
<1>1. PICK e : Increasing(e, n, l) /\ P = {e[k] : k \in 1 .. n}
               /\ \A k \in 1 .. n : s[e[k]].fn = F[k]
  BY DEF InOrder
<1>2. PICK g : Increasing(g, m, Len(t)) /\ Q = {g[k] : k \in 1 .. m}
               /\ \A k \in 1 .. m : t[g[k]].fn = G[k]
  BY DEF InOrder
<1>3. /\ l \in Nat /\ Len(t) \in Nat /\ Len(s \o t) = l + Len(t)
      /\ \A i \in 1 .. l : (s \o t)[i] = s[i]
      /\ \A i \in 1 .. Len(t) : (s \o t)[l + i] = t[i]
  BY JoinFacts
<1>4. /\ n \in Nat /\ m \in Nat /\ Len(F \o G) = n + m
      /\ \A i \in 1 .. n : (F \o G)[i] = F[i]
      /\ \A i \in 1 .. m : (F \o G)[n + i] = G[i]
  BY JoinFacts
<1>5. /\ \A k \in 1 .. n : e[k] \in 1 .. l
      /\ \A j, k \in 1 .. n : j < k => e[j] < e[k]
      /\ \A k \in 1 .. m : g[k] \in 1 .. Len(t)
      /\ \A j, k \in 1 .. m : j < k => g[j] < g[k]
  BY <1>1, <1>2 DEF Increasing
<1> DEFINE h == [k \in 1 .. n + m |-> IF k <= n THEN e[k] ELSE l + g[k - n]]
<1>6. /\ \A k \in 1 .. n : k \in 1 .. n + m /\ h[k] = e[k]
      /\ \A k \in 1 .. m : n + k \in 1 .. n + m /\ h[n + k] = l + g[k]
  <2>1. \A k \in 1 .. n : k \in 1 .. n + m /\ k <= n
    BY <1>4
  <2>2. \A k \in 1 .. m : n + k \in 1 .. n + m /\ ~ (n + k <= n) /\ n + k - n = k
    BY <1>4
  <2> QED
    BY <2>1, <2>2
<1>7. \A i \in 1 .. n + m : i \in 1 .. n \/ \E k \in 1 .. m : i = n + k
  <2> TAKE i \in 1 .. n + m
  <2>1. ~ (i \in 1 .. n) => i - n \in 1 .. m /\ i = n + (i - n)
    BY <1>4
  <2>2. i - n \in 1 .. m /\ i = n + (i - n) => \E k \in 1 .. m : i = n + k
    OBVIOUS
  <2> QED
    BY <2>1, <2>2
<1>8. h \in [1 .. n + m -> 1 .. l + Len(t)]
  <2>1. ASSUME NEW i \in 1 .. n + m PROVE h[i] \in 1 .. l + Len(t)
    <3>1. CASE i \in 1 .. n
      <4>1. h[i] = e[i] /\ e[i] \in 1 .. l
        BY <1>5, <1>6, <3>1
      <4> QED
        BY <1>3, <4>1
    <3>2. CASE \E k \in 1 .. m : i = n + k
      <4>1. PICK k \in 1 .. m : i = n + k
        BY <3>2
      <4>2. h[i] = l + g[k] /\ g[k] \in 1 .. Len(t)
        BY <1>5, <1>6, <4>1
      <4> QED
        BY <1>3, <4>2
    <3> QED
      BY <1>7, <3>1, <3>2
  <2> QED
    BY <2>1
<1>9. ASSUME NEW i \in 1 .. n + m, NEW j \in 1 .. n + m, i < j PROVE h[i] < h[j]
  <2>1. CASE j \in 1 .. n
    <3>1. i \in 1 .. n
      BY <1>4, <1>9, <2>1
    <3> HIDE DEF h
    <3> QED
      BY <1>5, <1>6, <1>9, <2>1, <3>1
  <2>2. CASE \E k \in 1 .. m : j = n + k
    <3>1. PICK k \in 1 .. m : j = n + k
      BY <2>2
    <3>2. h[j] = l + g[k] /\ g[k] \in 1 .. Len(t)
      BY <1>5, <1>6, <3>1
    <3>3. CASE i \in 1 .. n
      <4>1. h[i] = e[i] /\ e[i] \in 1 .. l
        BY <1>5, <1>6, <3>3
      <4> HIDE DEF h
      <4> QED
        BY <1>3, <3>2, <4>1
    <3>4. CASE \E q \in 1 .. m : i = n + q
      <4>1. PICK q \in 1 .. m : i = n + q
        BY <3>4
      <4>2. q < k
        BY <1>4, <1>9, <3>1, <4>1
      <4>3. h[i] = l + g[q] /\ g[q] \in 1 .. Len(t) /\ g[q] < g[k]
        BY <1>5, <1>6, <4>1, <4>2
      <4> HIDE DEF h
      <4> QED
        BY <1>3, <3>2, <4>3
    <3> QED
      BY <1>7, <3>3, <3>4
  <2> QED
    BY <1>7, <2>1, <2>2
<1>10. P \cup {l + q : q \in Q} = {h[k] : k \in 1 .. n + m}
  <2>1. ASSUME NEW x \in P PROVE x \in {h[k] : k \in 1 .. n + m}
    BY <1>1, <1>6
  <2>2. ASSUME NEW q \in Q PROVE l + q \in {h[k] : k \in 1 .. n + m}
    <3>1. PICK k \in 1 .. m : q = g[k]
      BY <1>2
    <3> HIDE DEF h
    <3> QED
      BY <1>6, <3>1
  <2>3. ASSUME NEW i \in 1 .. n + m PROVE h[i] \in P \cup {l + q : q \in Q}
    <3>1. CASE i \in 1 .. n
      BY <1>1, <1>6, <3>1
    <3>2. CASE \E k \in 1 .. m : i = n + k
      <4>1. PICK k \in 1 .. m : i = n + k
        BY <3>2
      <4>2. h[i] = l + g[k] /\ g[k] \in Q
        BY <1>2, <1>6, <4>1
      <4> HIDE DEF h
      <4> QED
        BY <4>2
    <3> QED
      BY <1>7, <3>1, <3>2
  <2> HIDE DEF h
  <2> QED
    BY <2>1, <2>2, <2>3
<1>11. ASSUME NEW i \in 1 .. n + m PROVE (s \o t)[h[i]].fn = (F \o G)[i]
  <2>1. CASE i \in 1 .. n
    <3>1. h[i] = e[i] /\ e[i] \in 1 .. l
      BY <1>5, <1>6, <2>1
    <3> HIDE DEF h
    <3> QED
      BY <1>1, <1>3, <1>4, <2>1, <3>1
  <2>2. CASE \E k \in 1 .. m : i = n + k
    <3>1. PICK k \in 1 .. m : i = n + k
      BY <2>2
    <3>2. h[i] = l + g[k] /\ g[k] \in 1 .. Len(t)
      BY <1>5, <1>6, <3>1
    <3> HIDE DEF h
    <3> QED
      BY <1>2, <1>3, <1>4, <3>1, <3>2
  <2> QED
    BY <1>7, <2>1, <2>2
<1> HIDE DEF h
<1>12. Increasing(h, n + m, l + Len(t))
  BY <1>8, <1>9 DEF Increasing
<1>13. Len(F \o G) = n + m /\ Len(s \o t) = l + Len(t)
  BY <1>3, <1>4
<1> HIDE DEF l, n, m
<1> QED
  BY <1>10, <1>11, <1>12, <1>13 DEF InOrder, l

\* What was in order stays so when calls are put before or after it.
LEMMA InOrderJoined ==
  ASSUME NEW S, NEW T, NEW s \in Seq(S), NEW t \in Seq(S), NEW F \in Seq(T), NEW P
  PROVE  /\ InOrder(s, P, F) => InOrder(s \o t, P, F)
         /\ InOrder(t, P, F) => InOrder(s \o t, {Len(s) + q : q \in P}, F)
<1>1. ASSUME NEW u \in Seq(S) PROVE InOrder(u, {}, << >>)
  <2> DEFINE e == [k \in 1 .. 0 |-> 0]
  <2>1. Len(u) \in Nat /\ Len(<< >>) = 0 /\ 1 .. 0 = {}
    BY LenProperties
  <2>2. Increasing(e, 0, Len(u))
    BY <2>1 DEF Increasing
  <2>3. {} = {e[k] : k \in 1 .. 0}
    BY <2>1
  <2> HIDE DEF e
  <2> QED
    BY <2>1, <2>2, <2>3 DEF InOrder
<1>2. << >> \in Seq(T) /\ F \o << >> = F /\ << >> \o F = F
  <2>1. << >> \in Seq(T)
    BY EmptySeq
  <2> QED
    BY <2>1, ConcatEmptySeq
<1>3. InOrder(s, P, F) => InOrder(s \o t, P, F)
  <2> SUFFICES ASSUME InOrder(s, P, F) PROVE InOrder(s \o t, P, F)
    OBVIOUS
  <2>1. InOrder(t, {}, << >>)
    BY <1>1
  <2>2. InOrder(s \o t, P \cup {Len(s) + q : q \in {}}, F \o << >>)
    BY <1>2, <2>1, InOrderAppend
  <2>3. P \cup {Len(s) + q : q \in {}} = P
    OBVIOUS
  <2> QED
    BY <1>2, <2>2, <2>3
<1>4. InOrder(t, P, F) => InOrder(s \o t, {Len(s) + q : q \in P}, F)
  <2> SUFFICES ASSUME InOrder(t, P, F)
               PROVE  InOrder(s \o t, {Len(s) + q : q \in P}, F)
    OBVIOUS
  <2>1. InOrder(s, {}, << >>)
    BY <1>1
  <2>2. InOrder(s \o t, {} \cup {Len(s) + q : q \in P}, << >> \o F)
    BY <1>2, <2>1, InOrderAppend
  <2>3. {} \cup {Len(s) + q : q \in P} = {Len(s) + q : q \in P}
    OBVIOUS
  <2> QED
    BY <1>2, <2>2, <2>3
<1> QED
  BY <1>3, <1>4

\* The depth of a call is a number.
LEMMA DepthFacts ==
  ASSUME NEW r, NEW s \in Seq(CallsOf(r))
  PROVE  \A i \in 1 .. Len(s) : s[i] \in CallsOf(r) /\ s[i].depth \in Nat
<1>1. \A i \in 1 .. Len(s) : s[i] \in CallsOf(r)
  BY ElementOfSeq
<1> QED
  BY <1>1 DEF CallsOf

\* The calls below one are the same when calls are put before it, or after it as long
\* as the first of them is not deeper.
LEMMA BelowRight ==
  ASSUME NEW r, NEW s \in Seq(CallsOf(r)), NEW t \in Seq(CallsOf(r)), NEW m \in 1 .. Len(t)
  PROVE  Below(s \o t, Len(s) + m) = {Len(s) + j : j \in Below(t, m)}
<1> DEFINE l == Len(s)
           u == s \o t
<1>1. /\ l \in Nat /\ Len(t) \in Nat /\ Len(u) = l + Len(t)
      /\ \A i \in 1 .. Len(t) : u[l + i] = t[i]
  BY JoinFacts
<1>2. \A i \in 1 .. Len(t) : t[i].depth \in Nat
  BY DepthFacts
<1> HIDE DEF l, u
<1>3. u[l + m] = t[m]
  BY <1>1
<1>4. ASSUME NEW j \in Below(t, m) PROVE l + j \in Below(u, l + m)
  <2>1. j \in m + 1 .. Len(t) /\ j \in 1 .. Len(t) /\ t[j].depth = t[m].depth + 1
        /\ \A k \in m + 1 .. j : t[k].depth > t[m].depth
    BY <1>1 DEF Below
  <2>2. l + j \in l + m + 1 .. Len(u) /\ u[l + j].depth = u[l + m].depth + 1
    BY <1>1, <1>3, <2>1
  <2>3. ASSUME NEW k \in l + m + 1 .. l + j PROVE u[k].depth > u[l + m].depth
    <3>1. k - l \in m + 1 .. j /\ k - l \in 1 .. Len(t) /\ k = l + (k - l)
      BY <1>1, <2>1
    <3>2. u[l + (k - l)] = t[k - l] /\ t[k - l].depth > t[m].depth
      BY <1>1, <2>1, <3>1
    <3> QED
      BY <1>3, <3>1, <3>2
  <2> QED
    BY <2>2, <2>3 DEF Below
<1>5. ASSUME NEW x \in Below(u, l + m) PROVE x \in {l + j : j \in Below(t, m)}
  <2>1. x \in l + m + 1 .. Len(u) /\ u[x].depth = u[l + m].depth + 1
        /\ \A k \in l + m + 1 .. x : u[k].depth > u[l + m].depth
    BY DEF Below
  <2>2. x - l \in m + 1 .. Len(t) /\ x - l \in 1 .. Len(t) /\ x = l + (x - l)
    BY <1>1, <2>1
  <2>3. u[l + (x - l)] = t[x - l]
    BY <1>1, <2>2
  <2>4. t[x - l].depth = t[m].depth + 1
    BY <1>3, <2>1, <2>2, <2>3
  <2>5. ASSUME NEW k \in m + 1 .. x - l PROVE t[k].depth > t[m].depth
    <3>1. l + k \in l + m + 1 .. x /\ k \in 1 .. Len(t)
      BY <1>1, <2>1, <2>2
    <3> QED
      BY <1>1, <1>3, <2>1, <3>1
  <2>6. x - l \in Below(t, m)
    BY <2>2, <2>4, <2>5 DEF Below
  <2> QED
    BY <2>2, <2>6
<1> QED
  BY <1>4, <1>5 DEF l, u

LEMMA BelowLeft ==
  ASSUME NEW r, NEW s \in Seq(CallsOf(r)), NEW t \in Seq(CallsOf(r)), NEW m \in 1 .. Len(s),
         Len(t) # 0 => t[1].depth <= s[m].depth
  PROVE  Below(s \o t, m) = Below(s, m)
<1> DEFINE l == Len(s)
           u == s \o t
<1>1. /\ l \in Nat /\ Len(t) \in Nat /\ Len(u) = l + Len(t)
      /\ \A i \in 1 .. l : u[i] = s[i]
      /\ \A i \in 1 .. Len(t) : u[l + i] = t[i]
  BY JoinFacts
<1>2. /\ \A i \in 1 .. l : s[i].depth \in Nat
      /\ \A i \in 1 .. Len(t) : t[i].depth \in Nat
  BY DepthFacts
<1>3. m \in 1 .. l
  OBVIOUS
<1>4. Len(t) # 0 => t[1].depth <= s[m].depth
  OBVIOUS
<1> HIDE DEF l, u
<1>5. u[m] = s[m]
  BY <1>1, <1>3
<1>6. ASSUME NEW x \in Below(s, m) PROVE x \in Below(u, m)
  <2>1. x \in m + 1 .. l /\ s[x].depth = s[m].depth + 1
        /\ \A k \in m + 1 .. x : s[k].depth > s[m].depth
    BY DEF Below, l
  <2>2. x \in m + 1 .. Len(u) /\ u[x] = s[x]
    BY <1>1, <1>3, <2>1
  <2>3. \A k \in m + 1 .. x : u[k] = s[k]
    BY <1>1, <1>3, <2>1
  <2> QED
    BY <1>5, <2>1, <2>2, <2>3 DEF Below
<1>7. ASSUME NEW x \in Below(u, m) PROVE x \in Below(s, m)
  <2>1. x \in m + 1 .. Len(u) /\ u[x].depth = u[m].depth + 1
        /\ \A k \in m + 1 .. x : u[k].depth > u[m].depth
    BY DEF Below
  <2>2. x \in m + 1 .. l
    <3> SUFFICES ASSUME ~ (x <= l) PROVE FALSE
      BY <1>1, <1>3, <2>1
    <3>1. l + 1 \in m + 1 .. x /\ 1 \in 1 .. Len(t)
      BY <1>1, <1>3, <2>1
    <3>2. u[l + 1] = t[1] /\ t[1].depth \in Nat /\ s[m].depth \in Nat
          /\ t[1].depth <= s[m].depth
      BY <1>1, <1>2, <1>3, <1>4, <3>1
    <3>3. u[l + 1].depth > u[m].depth
      BY <2>1, <3>1
    <3> QED
      BY <1>5, <3>2, <3>3
  <2>3. \A k \in m + 1 .. x : u[k] = s[k]
    BY <1>1, <1>3, <2>2
  <2>4. u[x] = s[x]
    BY <1>1, <1>3, <2>2
  <2> QED
    BY <1>5, <2>1, <2>2, <2>3, <2>4 DEF Below, l
<1> QED
  BY <1>6, <1>7 DEF u

\* The calls of s are those of the functions fns, at depth l, each followed by the
\* calls its body makes.
Tops(s, l) == {m \in 1 .. Len(s) : s[m].depth = l}
Filled(r, s, m) ==
  s[m].depth < Depth => InOrder(s, Below(s, m), Callees(r[s[m].fn].body))
Nested(r, s, l, fns) ==
  /\ s \in Seq(CallsOf(r)) /\ fns \in Seq(DOMAIN r)
  /\ Len(s) # 0 => s[1].depth = l
  /\ \A m \in 1 .. Len(s) : l <= s[m].depth /\ s[m].depth <= Depth /\ Filled(r, s, m)
  /\ \A m \in 1 .. Len(s) - 1 : s[m + 1].depth <= s[m].depth + 1
  /\ InOrder(s, Tops(s, l), fns)

LEMMA NestedAppend ==
  ASSUME NEW r \in Revisions, NEW l \in Nat, NEW s, NEW t, NEW F, NEW G,
         Nested(r, s, l, F), Nested(r, t, l, G)
  PROVE  Nested(r, s \o t, l, F \o G)
<1> DEFINE u == s \o t
<1>1. /\ s \in Seq(CallsOf(r)) /\ t \in Seq(CallsOf(r))
      /\ F \in Seq(DOMAIN r) /\ G \in Seq(DOMAIN r)
  BY DEF Nested
<1>2. u \in Seq(CallsOf(r)) /\ F \o G \in Seq(DOMAIN r)
  BY <1>1, ConcatProperties
<1>3. /\ Len(s) \in Nat /\ Len(t) \in Nat /\ Len(u) = Len(s) + Len(t)
      /\ \A i \in 1 .. Len(s) : i \in 1 .. Len(u) /\ u[i] = s[i]
      /\ \A i \in 1 .. Len(t) : Len(s) + i \in 1 .. Len(u) /\ u[Len(s) + i] = t[i]
      /\ \A i \in 1 .. Len(u) :
           i \in 1 .. Len(s) \/ \E j \in 1 .. Len(t) : i = Len(s) + j
  BY <1>1, JoinFacts
<1>4. /\ \A i \in 1 .. Len(s) : s[i] \in CallsOf(r) /\ s[i].depth \in Nat
      /\ \A i \in 1 .. Len(t) : t[i] \in CallsOf(r) /\ t[i].depth \in Nat
  BY <1>1, DepthFacts
<1> HIDE DEF u
<1>5. Len(u) # 0 => u[1].depth = l
  <2>1. CASE Len(s) # 0
    <3>1. 1 \in 1 .. Len(s)
      BY <1>3, <2>1
    <3> QED
      BY <1>3, <2>1, <3>1 DEF Nested
  <2>2. CASE Len(s) = 0 /\ Len(t) # 0
    <3>1. 1 \in 1 .. Len(t) /\ Len(s) + 1 = 1
      BY <1>3, <2>2
    <3>2. u[1] = t[1]
      BY <1>3, <3>1
    <3> QED
      BY <2>2, <3>2 DEF Nested
  <2> QED
    BY <1>3, <2>1, <2>2
<1>6. ASSUME NEW m \in 1 .. Len(s)
      PROVE  l <= u[m].depth /\ u[m].depth <= Depth /\ Filled(r, u, m)
  <2>1. u[m] = s[m] /\ s[m].depth \in Nat /\ s[m].fn \in DOMAIN r
    BY <1>3, <1>4 DEF CallsOf
  <2>2. l <= s[m].depth /\ s[m].depth <= Depth /\ Filled(r, s, m)
    BY DEF Nested
  <2>3. ASSUME Len(t) # 0 PROVE t[1].depth <= s[m].depth
    <3>1. t[1].depth = l
      BY <2>3 DEF Nested
    <3> QED
      BY <2>2, <3>1
  <2>4. Below(u, m) = Below(s, m)
    BY <1>1, <2>3, BelowLeft DEF u
  <2>5. Callees(r[s[m].fn].body) \in Seq(DOMAIN r)
    BY <2>1, CalleeFacts
  <2>6. s[m].depth < Depth => InOrder(u, Below(s, m), Callees(r[s[m].fn].body))
    BY <1>1, <2>2, <2>5, InOrderJoined DEF Filled, u
  <2> QED
    BY <2>1, <2>2, <2>4, <2>6 DEF Filled
<1>7. ASSUME NEW j \in 1 .. Len(t)
      PROVE  LET m == Len(s) + j
             IN  l <= u[m].depth /\ u[m].depth <= Depth /\ Filled(r, u, m)
  <2>1. u[Len(s) + j] = t[j] /\ t[j].fn \in DOMAIN r
    BY <1>3, <1>4 DEF CallsOf
  <2>2. l <= t[j].depth /\ t[j].depth <= Depth /\ Filled(r, t, j)
    BY DEF Nested
  <2>3. Below(u, Len(s) + j) = {Len(s) + k : k \in Below(t, j)}
    BY <1>1, BelowRight DEF u
  <2>4. Callees(r[t[j].fn].body) \in Seq(DOMAIN r)
    BY <2>1, CalleeFacts
  <2>5. t[j].depth < Depth =>
          InOrder(u, {Len(s) + k : k \in Below(t, j)}, Callees(r[t[j].fn].body))
    BY <1>1, <2>2, <2>4, InOrderJoined DEF Filled, u
  <2> QED
    BY <2>1, <2>2, <2>3, <2>5 DEF Filled
<1>8. \A m \in 1 .. Len(u) : l <= u[m].depth /\ u[m].depth <= Depth /\ Filled(r, u, m)
  BY <1>3, <1>6, <1>7
<1>9. Tops(u, l) = Tops(s, l) \cup {Len(s) + q : q \in Tops(t, l)}
  BY <1>3 DEF Tops
<1>10. InOrder(u, Tops(u, l), F \o G)
  <2>1. InOrder(s, Tops(s, l), F) /\ InOrder(t, Tops(t, l), G)
    BY DEF Nested
  <2>2. InOrder(u, Tops(s, l) \cup {Len(s) + q : q \in Tops(t, l)}, F \o G)
    BY <1>1, <2>1, InOrderAppend DEF u
  <2> QED
    BY <1>9, <2>2
<1>11. ASSUME NEW m \in 1 .. Len(u) - 1 PROVE u[m + 1].depth <= u[m].depth + 1
  <2>1. CASE m \in 1 .. Len(s) - 1
    <3>1. m \in 1 .. Len(s) /\ m + 1 \in 1 .. Len(s)
      BY <1>3, <2>1
    <3>2. u[m] = s[m] /\ u[m + 1] = s[m + 1]
      BY <1>3, <3>1
    <3> QED
      BY <2>1, <3>2 DEF Nested
  <2>2. CASE m = Len(s)
    <3>1. m \in 1 .. Len(s) /\ 1 \in 1 .. Len(t) /\ Len(t) # 0 /\ m + 1 = Len(s) + 1
      BY <1>3, <2>2
    <3>2. u[m] = s[m] /\ u[m + 1] = t[1]
      BY <1>3, <3>1
    <3>3. t[1].depth = l /\ l <= s[m].depth /\ s[m].depth \in Nat
      BY <1>4, <3>1 DEF Nested
    <3> QED
      BY <3>2, <3>3
  <2>3. CASE \E j \in 1 .. Len(t) : m = Len(s) + j
    <3>1. PICK j \in 1 .. Len(t) : m = Len(s) + j
      BY <2>3
    <3>2. j \in 1 .. Len(t) - 1 /\ j + 1 \in 1 .. Len(t) /\ m + 1 = Len(s) + (j + 1)
      BY <1>3, <3>1
    <3>3. u[m] = t[j] /\ u[m + 1] = t[j + 1]
      BY <1>3, <3>1, <3>2
    <3> QED
      BY <3>2, <3>3 DEF Nested
  <2>4. m \in 1 .. Len(u)
    BY <1>3
  <2>5. m \in 1 .. Len(s) => m \in 1 .. Len(s) - 1 \/ m = Len(s)
    BY <1>3
  <2> QED
    BY <1>3, <2>1, <2>2, <2>3, <2>4, <2>5
<1> QED
  BY <1>2, <1>5, <1>8, <1>10, <1>11 DEF Nested, u

\* A call, at depth l, followed by those its body makes.
LEMMA NestedUnder ==
  ASSUME NEW r \in Revisions, NEW l \in Nat, NEW g \in DOMAIN r, NEW t,
         \/ l < Depth /\ Nested(r, t, l + 1, Callees(r[g].body))
         \/ l = Depth /\ t = << >>
  PROVE  Nested(r, <<[fn |-> g, depth |-> l]>> \o t, l, <<g>>)
<1> DEFINE v == [fn |-> g, depth |-> l]
           s == <<v>>
           u == s \o t
<1>0. Depth \in Nat
  BY DepthAssumption
<1>1. /\ s \in Seq(CallsOf(r)) /\ t \in Seq(CallsOf(r)) /\ <<g>> \in Seq(DOMAIN r)
      /\ Len(s) = 1 /\ s[1] = v /\ v.fn = g /\ v.depth = l
  <2>1. v \in CallsOf(r)
    BY DEF CallsOf
  <2>2. t \in Seq(CallsOf(r))
    BY EmptySeq DEF Nested
  <2> QED
    BY <2>1, <2>2
<1> HIDE DEF v, s
<1>2. u \in Seq(CallsOf(r))
  BY <1>1, ConcatProperties
<1>3. /\ Len(t) \in Nat /\ Len(u) = 1 + Len(t) /\ u[1] = v
      /\ \A i \in 1 .. Len(t) : 1 + i \in 1 .. Len(u) /\ u[1 + i] = t[i]
      /\ \A i \in 1 .. Len(u) : i = 1 \/ \E j \in 1 .. Len(t) : i = 1 + j
  <2>1. /\ Len(t) \in Nat /\ Len(u) = Len(s) + Len(t)
        /\ \A i \in 1 .. Len(s) : u[i] = s[i]
        /\ \A i \in 1 .. Len(t) : Len(s) + i \in 1 .. Len(u) /\ u[Len(s) + i] = t[i]
        /\ \A i \in 1 .. Len(u) :
             i \in 1 .. Len(s) \/ \E j \in 1 .. Len(t) : i = Len(s) + j
    <3>1. s \in Seq(CallsOf(r)) /\ t \in Seq(CallsOf(r))
      BY <1>1
    <3> QED
      BY <3>1, JoinFacts
  <2> HIDE DEF u
  <2>2. 1 \in 1 .. Len(s) /\ \A i \in 1 .. Len(s) : i = 1
    BY <1>1
  <2> QED
    BY <1>1, <2>1, <2>2
<1>4. \A i \in 1 .. Len(t) : t[i] \in CallsOf(r) /\ t[i].depth \in Nat
  BY <1>1, DepthFacts
<1> HIDE DEF u
<1>5. \A j \in 1 .. Len(t) : l < Depth /\ l + 1 <= t[j].depth /\ t[j].depth <= Depth
                             /\ Filled(r, t, j)
  <2>1. t = << >> => 1 .. Len(t) = {}
    OBVIOUS
  <2> QED
    BY <2>1 DEF Nested
<1>6. \A j \in 1 .. Len(t) : u[1 + j] = t[j] /\ t[j].depth > l /\ t[j].depth # l
  BY <1>3, <1>4, <1>5
<1>7. Tops(u, l) = {1}
  <2>1. 1 \in Tops(u, l)
    BY <1>1, <1>3 DEF Tops
  <2>2. ASSUME NEW i \in Tops(u, l) PROVE i = 1
    <3>1. i \in 1 .. Len(u) /\ u[i].depth = l
      BY DEF Tops
    <3> QED
      BY <1>3, <1>6, <3>1
  <2> QED
    BY <2>1, <2>2
<1>8. InOrder(u, Tops(u, l), <<g>>)
  <2> DEFINE e == [k \in 1 .. 1 |-> 1]
  <2>1. Len(<<g>>) = 1 /\ <<g>>[1] = g /\ 1 .. 1 = {1} /\ 1 \in 1 .. Len(u)
    BY <1>3
  <2>2. e \in [1 .. 1 -> 1 .. Len(u)] /\ \A j, k \in 1 .. 1 : j < k => e[j] < e[k]
    BY <2>1
  <2>3. {1} = {e[k] : k \in 1 .. 1} /\ e[1] = 1
    BY <2>1
  <2> HIDE DEF e
  <2>4. Increasing(e, 1, Len(u))
    BY <2>2 DEF Increasing
  <2>5. \A k \in 1 .. 1 : u[e[k]].fn = <<g>>[k]
    BY <1>1, <1>3, <2>1, <2>3
  <2> QED
    BY <1>7, <2>1, <2>3, <2>4, <2>5 DEF InOrder
<1>9. Filled(r, u, 1)
  <2> SUFFICES ASSUME l < Depth PROVE InOrder(u, Below(u, 1), Callees(r[g].body))
    BY <1>1, <1>3 DEF Filled
  <2>1. Nested(r, t, l + 1, Callees(r[g].body))
    BY <1>0
  <2>2. Below(u, 1) = {1 + q : q \in Tops(t, l + 1)}
    <3>1. ASSUME NEW q \in Tops(t, l + 1) PROVE 1 + q \in Below(u, 1)
      <4>1. q \in 1 .. Len(t) /\ t[q].depth = l + 1
        BY DEF Tops
      <4>2. 1 + q \in 1 + 1 .. Len(u) /\ u[1 + q].depth = u[1].depth + 1
        BY <1>1, <1>3, <4>1
      <4>3. ASSUME NEW k \in 1 + 1 .. 1 + q PROVE u[k].depth > u[1].depth
        <5>1. k - 1 \in 1 .. Len(t) /\ k = 1 + (k - 1)
          BY <1>3, <4>1
        <5>2. u[1 + (k - 1)] = t[k - 1] /\ t[k - 1].depth > l
          BY <1>6, <5>1
        <5> QED
          BY <1>1, <1>3, <5>1, <5>2
      <4> QED
        BY <4>2, <4>3 DEF Below
    <3>2. ASSUME NEW x \in Below(u, 1) PROVE x \in {1 + q : q \in Tops(t, l + 1)}
      <4>1. x \in 1 + 1 .. Len(u) /\ u[x].depth = l + 1
        BY <1>1, <1>3 DEF Below
      <4>2. x - 1 \in 1 .. Len(t) /\ x = 1 + (x - 1)
        BY <1>3, <4>1
      <4>3. u[1 + (x - 1)] = t[x - 1]
        BY <1>3, <4>2
      <4>4. x - 1 \in Tops(t, l + 1)
        BY <4>1, <4>2, <4>3 DEF Tops
      <4> QED
        BY <4>2, <4>4
    <3> QED
      BY <3>1, <3>2
  <2>3. InOrder(t, Tops(t, l + 1), Callees(r[g].body)) /\ Callees(r[g].body) \in Seq(DOMAIN r)
    BY <2>1 DEF Nested
  <2>4. InOrder(u, {Len(s) + q : q \in Tops(t, l + 1)}, Callees(r[g].body))
    BY <1>1, <2>3, InOrderJoined DEF u
  <2> QED
    BY <1>1, <2>2, <2>4
<1>10. ASSUME NEW j \in 1 .. Len(t) PROVE Filled(r, u, 1 + j)
  <2>1. t[j].fn \in DOMAIN r
    BY <1>4 DEF CallsOf
  <2>2. Callees(r[t[j].fn].body) \in Seq(DOMAIN r)
    BY <2>1, CalleeFacts
  <2>3. Below(u, Len(s) + j) = {Len(s) + k : k \in Below(t, j)}
    BY <1>1, BelowRight DEF u
  <2>4. t[j].depth < Depth =>
          InOrder(u, {Len(s) + k : k \in Below(t, j)}, Callees(r[t[j].fn].body))
    BY <1>1, <1>5, <2>2, InOrderJoined DEF Filled, u
  <2> QED
    BY <1>1, <1>6, <2>3, <2>4 DEF Filled
<1>11. \A m \in 1 .. Len(u) : l <= u[m].depth /\ u[m].depth <= Depth /\ Filled(r, u, m)
  <2>1. l <= u[1].depth /\ u[1].depth <= Depth
    BY <1>0, <1>1, <1>3
  <2>2. ASSUME NEW j \in 1 .. Len(t)
        PROVE  l <= u[1 + j].depth /\ u[1 + j].depth <= Depth
    BY <1>4, <1>5, <1>6
  <2> QED
    BY <1>3, <1>9, <1>10, <2>1, <2>2
<1>12. u[1].depth = l
  BY <1>1, <1>3
<1>13. ASSUME NEW m \in 1 .. Len(u) - 1 PROVE u[m + 1].depth <= u[m].depth + 1
  <2>1. CASE m = 1
    <3>1. 1 \in 1 .. Len(t) /\ Len(t) # 0
      BY <1>3, <2>1
    <3>2. u[1 + 1] = t[1]
      BY <1>3, <3>1
    <3>3. t # << >>
      BY <3>1
    <3>4. t[1].depth = l + 1
      BY <3>1, <3>3 DEF Nested
    <3> QED
      BY <1>1, <1>3, <2>1, <3>2, <3>4
  <2>2. CASE m # 1
    <3>1. m - 1 \in 1 .. Len(t) - 1 /\ m - 1 \in 1 .. Len(t) /\ m \in 1 .. Len(t)
          /\ m = 1 + (m - 1) /\ m + 1 = 1 + m
      BY <1>3, <2>2
    <3>2. u[1 + (m - 1)] = t[m - 1] /\ u[1 + m] = t[m]
      BY <1>3, <3>1
    <3>3. t # << >>
      BY <3>1
    <3>4. t[m - 1 + 1].depth <= t[m - 1].depth + 1 /\ m - 1 + 1 = m
      BY <3>1, <3>3 DEF Nested
    <3> QED
      BY <3>1, <3>2, <3>4
  <2> QED
    BY <2>1, <2>2
<1> QED
  BY <1>1, <1>2, <1>8, <1>11, <1>12, <1>13 DEF Nested, u, s, v

\* The calls of a row are those of the body, if those of the row below are.
LEMMA NestedListed ==
  ASSUME NEW r \in Revisions, NEW d \in 0 .. Depth, NEW f \in DOMAIN r, NEW rest,
         d # 0 => \A g \in DOMAIN r :
                    Nested(r, rest[g], Depth - (d - 1), Callees(r[g].body))
  PROVE  Nested(r, Listed(r, d, rest, f), Depth - d, Callees(r[f].body))
<1> DEFINE c == Callees(r[f].body)
           l == Depth - d
           L == Len(c)
           item(k) == <<[fn |-> c[k], depth |-> l]>> \o (IF d = 0 THEN << >> ELSE rest[c[k]])
           seqs == [k \in DOMAIN c |-> item(k)]
<1>0. Depth \in Nat /\ l \in Nat
  BY DepthAssumption
<1>1. /\ c \in Seq(DOMAIN r) /\ L \in Nat /\ DOMAIN c = 1 .. L
      /\ \A k \in 1 .. L : c[k] \in DOMAIN r
  BY CalleeFacts
<1>2. Listed(r, d, rest, f) = FlattenSeq(seqs)
  BY DEF Listed
<1>3. ASSUME NEW k \in 1 .. L PROVE Nested(r, item(k), l, <<c[k]>>)
  <2>1. c[k] \in DOMAIN r
    BY <1>1
  <2>2. CASE d = 0
    <3>1. item(k) = <<[fn |-> c[k], depth |-> l]>> \o << >> /\ l = Depth
      BY <1>0, <2>2
    <3> HIDE DEF c, l
    <3> QED
      BY <1>0, <2>1, <3>1, NestedUnder
  <2>3. CASE d # 0
    <3>1. item(k) = <<[fn |-> c[k], depth |-> l]>> \o rest[c[k]]
          /\ l < Depth /\ Depth - (d - 1) = l + 1
      BY <1>0, <2>3
    <3>2. Nested(r, rest[c[k]], l + 1, Callees(r[c[k]].body))
      BY <2>1, <2>3, <3>1
    <3> HIDE DEF c, l
    <3> QED
      BY <1>0, <2>1, <3>1, <3>2, NestedUnder
  <2> QED
    BY <2>2, <2>3
<1>4. /\ DOMAIN seqs = 1 .. L /\ Len(seqs) = L
      /\ \A k \in 1 .. L : seqs[k] = item(k)
  <2>1. DOMAIN seqs = 1 .. L /\ \A k \in 1 .. L : seqs[k] = item(k)
    BY <1>1
  <2>2. seqs = [k \in 1 .. L |-> item(k)]
    BY <1>1
  <2> QED
    BY <1>1, <2>1, <2>2
<1> HIDE DEF item, seqs
<1>5. CASE L = 0
  <2>1. c = << >>
    BY <1>1, <1>5, EmptySeq
  <2>2. FlattenSeq(seqs) = << >>
    <3>1. seqs = << >>
      <4>1. DOMAIN c = {}
        BY <1>1, <1>5
      <4> QED
        BY <4>1 DEF seqs
    <3> QED
      BY <1>4, <1>5, <3>1 DEF FlattenSeq
  <2>3. Nested(r, << >>, l, << >>)
    <3>1. Len(<< >>) = 0 /\ 1 .. 0 = {} /\ 1 .. 0 - 1 = {}
      OBVIOUS
    <3>2. << >> \in Seq(CallsOf(r)) /\ << >> \in Seq(DOMAIN r)
      BY EmptySeq
    <3>3. InOrder(<< >>, Tops(<< >>, l), << >>)
      <4> DEFINE e == [k \in 1 .. 0 |-> 0]
      <4>1. Increasing(e, 0, 0)
        BY <3>1 DEF Increasing
      <4>2. Tops(<< >>, l) = {e[k] : k \in 1 .. 0}
        BY <3>1 DEF Tops
      <4> HIDE DEF e
      <4> QED
        BY <3>1, <4>1, <4>2 DEF InOrder
    <3> QED
      BY <3>1, <3>2, <3>3 DEF Nested
  <2> QED
    BY <1>2, <2>1, <2>2, <2>3
<1>6. CASE L # 0
  <2>1. PICK F : /\ FlattenSeq(seqs) = F[L]
                 /\ \A i \in 1 .. L : F[i] = IF i = 1 THEN seqs[i] ELSE F[i - 1] \o seqs[i]
    <3> HIDE DEF L
    <3> QED
      BY <1>1, <1>4, <1>6, FlattenUnfold
  <2> DEFINE Holds(i) == Nested(r, F[i], l, SubSeq(c, 1, i))
             N == {i \in 0 .. L : i = 0 \/ Holds(i)}
  <2>2. ASSUME NEW i \in 0 .. L, i < L, i = 0 \/ Holds(i) PROVE Holds(i + 1)
    <3>1. i + 1 \in 1 .. L
      BY <1>1, <2>2
    <3>2. F[i + 1] = IF i = 0 THEN item(1) ELSE F[i] \o item(i + 1)
      <4>1. PICK j \in 1 .. L : j = i + 1
        BY <3>1
      <4>2. F[j] = IF j = 1 THEN item(j) ELSE F[j - 1] \o item(j)
        BY <1>4, <2>1
      <4>3. (j = 1 <=> i = 0) /\ j - 1 = i
        BY <1>1, <4>1
      <4> QED
        BY <4>1, <4>2, <4>3
    <3>3. Nested(r, item(i + 1), l, <<c[i + 1]>>)
      BY <1>3, <3>1
    <3>4. SubSeq(c, 1, i + 1) = SubSeq(c, 1, i + 1 - 1) \o <<c[i + 1]>> /\ i + 1 - 1 = i
      <4>1. 1 \in 1 .. L /\ i + 1 \in 1 .. L
        BY <1>1, <3>1
      <4> HIDE DEF c
      <4> QED
        BY <1>1, <3>1, <4>1, SubSeqRecursiveSecond
    <3>5. CASE i = 0
      <4>1. SubSeq(c, 1, 1) = <<c[1]>>
        <5>1. SubSeq(c, 1, 0) = << >>
          BY SubSeqEmpty
        <5>2. << >> \o <<c[1]>> = <<c[1]>>
          OBVIOUS
        <5>3. i + 1 = 1 /\ i + 1 - 1 = 0
          BY <3>5
        <5> HIDE DEF c
        <5>4. SubSeq(c, 1, 1) = SubSeq(c, 1, 0) \o <<c[1]>>
          BY <3>4, <5>3
        <5> QED
          BY <5>1, <5>2, <5>4
      <4>2. i + 1 = 1
        BY <3>5
      <4> HIDE DEF c, l
      <4>3. F[1] = item(1) /\ Nested(r, item(1), l, <<c[1]>>)
        BY <3>2, <3>3, <3>5, <4>2
      <4> QED
        BY <4>1, <4>2, <4>3 DEF Holds
    <3>6. CASE i # 0
      <4>1. Nested(r, F[i], l, SubSeq(c, 1, i))
        BY <2>2, <3>6
      <4> HIDE DEF c, l
      <4>2. Nested(r, F[i] \o item(i + 1), l, SubSeq(c, 1, i) \o <<c[i + 1]>>)
        BY <1>0, <3>3, <4>1, NestedAppend
      <4> QED
        BY <3>2, <3>4, <3>6, <4>2
    <3> QED
      BY <3>5, <3>6
  <2> HIDE DEF Holds
  <2>3. L \in N
    <3>1. N \in SUBSET (0 .. L) /\ 0 \in N
      BY <1>1
    <3>2. \A i \in N : i < L => i + 1 \in N
      BY <1>1, <2>2
    <3> HIDE DEF N, L
    <3> QED
      BY <1>1, <3>1, <3>2, UpTo
  <2>4. Nested(r, F[L], l, SubSeq(c, 1, L))
    BY <1>6, <2>3 DEF Holds
  <2>5. SubSeq(c, 1, L) = c
    BY <1>1, SubSeqFull
  <2> QED
    BY <1>2, <2>1, <2>4, <2>5
<1> QED
  BY <1>5, <1>6

\* So are those of a revision, and the calls below a call are those its body makes.
LEMMA UnrolledNested ==
  ASSUME NEW r \in Revisions
  PROVE  Nested(r, Unrolled(r), 0, Callees(r[Entry].body))
<1>0. Depth \in Nat /\ Entry \in DOMAIN r
  BY DepthAssumption, RevisionsAssumption
<1>1. PICK B : IsUnrolling(r, B) /\ Unrolled(r) = B[Depth][Entry]
  BY UnrollingExists
<1> DEFINE Good(d) == \A f \in DOMAIN r : Nested(r, B[d][f], Depth - d, Callees(r[f].body))
<1>2. ASSUME NEW d \in 0 .. Depth, d # 0 => Good(d - 1) PROVE Good(d)
  <2> TAKE f \in DOMAIN r
  <2>1. B[d][f] = Listed(r, d, B[d - 1], f)
    BY <1>1, UnrollingFacts
  <2>2. d # 0 => \A g \in DOMAIN r :
                   Nested(r, B[d - 1][g], Depth - (d - 1), Callees(r[g].body))
    BY <1>2
  <2>3. Nested(r, Listed(r, d, B[d - 1], f), Depth - d, Callees(r[f].body))
    BY <2>2, NestedListed
  <2> QED
    BY <2>1, <2>3
<1>3. Good(Depth)
  <2> HIDE DEF Good
  <2> DEFINE N == {m \in 0 .. Depth : Good(m)}
  <2>1. 0 \in N
    BY <1>0, <1>2
  <2>2. ASSUME NEW m \in N, m < Depth PROVE m + 1 \in N
    <3>1. m + 1 \in 0 .. Depth /\ m + 1 - 1 = m
      BY <1>0, <2>2
    <3>2. Good(m + 1 - 1)
      BY <2>2, <3>1
    <3>3. Good(m + 1)
      BY <1>2, <3>1, <3>2
    <3> QED
      BY <3>1, <3>3
  <2>3. N \in SUBSET (0 .. Depth)
    OBVIOUS
  <2>4. Depth \in N
    <3> HIDE DEF N
    <3> QED
      BY <1>0, <2>1, <2>2, <2>3, UpTo
  <2> QED
    BY <2>4
<1>4. Depth - Depth = 0
  BY <1>0
<1>5. Nested(r, B[Depth][Entry], Depth - Depth, Callees(r[Entry].body))
  BY <1>0, <1>3
<1> QED
  BY <1>1, <1>4, <1>5

\* The k-th element of calls in order.
LEMMA InOrderFacts ==
  ASSUME NEW s, NEW P, NEW fns, InOrder(s, P, fns), Len(s) \in Nat, Len(fns) \in Nat
  PROVE  /\ P \in SUBSET (1 .. Len(s)) /\ Cardinality(P) = Len(fns)
         /\ \A k \in 1 .. Len(fns) :
              /\ Nth(P, k) \in P /\ s[Nth(P, k)].fn = fns[k]
              /\ Cardinality(UpToIn(P, Nth(P, k))) = k
<1>1. PICK e : /\ Increasing(e, Len(fns), Len(s))
               /\ P = {e[k] : k \in 1 .. Len(fns)}
               /\ \A k \in 1 .. Len(fns) : s[e[k]].fn = fns[k]
  BY DEF InOrder
<1>2. P \in SUBSET (1 .. Len(s)) /\ Cardinality(P) = Len(fns)
      /\ \A k \in 1 .. Len(fns) : Nth(P, k) = e[k]
  <2>1. PICK Q \in SUBSET (1 .. Len(s)) :
               /\ Q = {e[k] : k \in 1 .. Len(fns)} /\ Cardinality(Q) = Len(fns)
               /\ \A k \in 1 .. Len(fns) : Nth(Q, k) = e[k]
    <3>1. PICK l \in Nat : l = Len(s)
      OBVIOUS
    <3>2. PICK n \in Nat : n = Len(fns)
      OBVIOUS
    <3>3. Increasing(e, n, l)
      BY <1>1, <3>1, <3>2
    <3>4. \E Q \in SUBSET (1 .. l) : /\ Q = {e[k] : k \in 1 .. n} /\ Cardinality(Q) = n
                                    /\ \A k \in 1 .. n : Nth(Q, k) = e[k]
      BY <3>3, PickedSet
    <3> QED
      BY <3>1, <3>2, <3>4
  <2>2. P = Q
    BY <1>1, <2>1
  <2> QED
    BY <2>1, <2>2
<1>3. \A k \in 1 .. Len(fns) : Nth(P, k) \in P /\ Cardinality(UpToIn(P, Nth(P, k))) = k
  BY <1>2, NthFacts
<1> QED
  BY <1>1, <1>2, <1>3

\* The calls below a call of a revision are those its body makes, in their order.
LEMMA CallsBelow ==
  ASSUME NEW r \in Revisions, NEW n \in 1 .. Len(Unrolled(r))
  PROVE  LET calls == Unrolled(r)
             fns == Callees(r[calls[n].fn].body)
         IN  /\ Below(calls, n) \in SUBSET (n + 1 .. Len(calls))
             /\ Len(fns) \in Nat /\ Cardinality(Below(calls, n)) = Len(fns)
             /\ \A k \in 1 .. Len(fns) :
                  LET m == Location(calls, n, k)
                  IN  /\ m \in Below(calls, n) /\ calls[m].fn = fns[k]
                      /\ Cardinality(UpToIn(Below(calls, n), m)) = k
<1> DEFINE calls == Unrolled(r)
           fns == Callees(r[calls[n].fn].body)
           P == Below(calls, n)
<1>1. Nested(r, calls, 0, Callees(r[Entry].body))
  BY UnrolledNested
<1>2. /\ calls \in Seq(CallsOf(r)) /\ Len(calls) \in Nat /\ DOMAIN calls = 1 .. Len(calls)
      /\ calls[n] \in CallsOf(r) /\ calls[n].depth <= Depth /\ Filled(r, calls, n)
      /\ \A m \in 1 .. Len(calls) : calls[m].depth \in Nat /\ calls[m].depth <= Depth
  <2>1. calls \in Seq(CallsOf(r))
    BY UnrolledFacts
  <2>2. Len(calls) \in Nat /\ DOMAIN calls = 1 .. Len(calls)
    BY <2>1, LenProperties
  <2> HIDE DEF calls
  <2>3. \A m \in 1 .. Len(calls) : calls[m] \in CallsOf(r) /\ calls[m].depth \in Nat
    BY <2>1, DepthFacts
  <2>4. \A m \in 1 .. Len(calls) : calls[m].depth <= Depth /\ Filled(r, calls, m)
    BY <1>1 DEF Nested
  <2>5. n \in 1 .. Len(calls)
    BY DEF calls
  <2> QED
    BY <2>1, <2>2, <2>3, <2>4, <2>5
<1>3. calls[n].fn \in DOMAIN r /\ calls[n].depth \in Nat
  BY <1>2 DEF CallsOf
<1>4. fns \in Seq(DOMAIN r) /\ Len(fns) \in Nat
  BY <1>3, CalleeFacts
<1>5. P \in SUBSET (n + 1 .. Len(calls))
  BY DEF Below
<1>6. InOrder(calls, P, fns)
  <2>1. CASE calls[n].depth < Depth
    BY <1>2, <2>1 DEF Filled
  <2>2. CASE calls[n].depth = Depth
    <3>1. fns = << >>
      <4>1. calls[n] \in ToSet(calls)
        BY <1>2 DEF ToSet
      <4> QED
        BY <2>2, <4>1, UnrolledAssumption
    <3>2. P = {}
      <4>1. ASSUME NEW m \in P PROVE FALSE
        <5>1. m \in 1 .. Len(calls) /\ calls[m].depth = calls[n].depth + 1
          BY <1>2 DEF Below
        <5> QED
          BY <1>2, <1>3, <2>2, <5>1, DepthAssumption
      <4> QED
        BY <4>1
    <3> DEFINE e == [k \in 1 .. 0 |-> 0]
    <3>3. Len(<< >>) = 0 /\ 1 .. 0 = {}
      OBVIOUS
    <3>4. Increasing(e, 0, Len(calls)) /\ {} = {e[k] : k \in 1 .. 0}
      BY <3>3 DEF Increasing
    <3> HIDE DEF e, calls, P, fns
    <3> QED
      BY <3>1, <3>2, <3>3, <3>4 DEF InOrder
  <2> QED
    BY <1>2, <1>3, <2>1, <2>2, DepthAssumption
<1> HIDE DEF calls, fns, P
<1>7. /\ Cardinality(P) = Len(fns)
      /\ \A k \in 1 .. Len(fns) :
           /\ Nth(P, k) \in P /\ calls[Nth(P, k)].fn = fns[k]
           /\ Cardinality(UpToIn(P, Nth(P, k))) = k
  BY <1>2, <1>4, <1>6, InOrderFacts
<1>8. \A k : Location(calls, n, k) = Nth(P, k)
  BY DEF Location, Nth, UpToIn, P
<1> QED
  BY <1>4, <1>5, <1>7, <1>8 DEF calls, fns, P

-----------------------------------------------------------------------------
(***************************************************************************)
(* What a call of the new revision does, and what it did in the old one.   *)
(***************************************************************************)
\* The rank of a call does not depend on whether the initialiser is counted.
LEMMA ShiftedRank ==
  ASSUME NEW l \in Nat, NEW P \in SUBSET (1 .. l), NEW c \in P
  PROVE  Cardinality(UpToIn({p + 1 : p \in P}, c + 1)) = Cardinality(UpToIn(P, c))
<1> DEFINE A == UpToIn(P, c)
           B == UpToIn({p + 1 : p \in P}, c + 1)
           f == [p \in A |-> p + 1]
<1>1. \A p \in P : p \in Int
  OBVIOUS
<1>2. f \in [A -> B]
  <2>1. ASSUME NEW p \in A PROVE p + 1 \in B
    <3>1. p \in P /\ p <= c
      BY DEF UpToIn
    <3>2. p + 1 \in {q + 1 : q \in P} /\ p + 1 <= c + 1
      BY <1>1, <3>1
    <3> QED
      BY <3>2 DEF UpToIn
  <2> HIDE DEF A, B
  <2> QED
    BY <2>1
<1>3. \A p, q \in A : f[p] = f[q] => p = q
  BY <1>1 DEF UpToIn
<1>4. \A x \in B : \E p \in A : f[p] = x
  BY <1>1 DEF UpToIn
<1>5. IsFiniteSet(A)
  <2>1. A \in SUBSET (1 .. l)
    BY DEF UpToIn
  <2> QED
    BY <2>1, RankFacts
<1> HIDE DEF f, A, B
<1>6. f \in Bijection(A, B)
  BY <1>2, <1>3, <1>4 DEF Bijection, Injection, IsInjective, Surjection
<1>7. Cardinality(B) = Cardinality(A)
  BY <1>5, <1>6, FS_Bijection DEF ExistsBijection
<1> QED
  BY <1>7 DEF A, B

\* c is the k-th call that call n of the new revision r makes.
Makes(r, n, k, c) ==
  /\ c \in Children(n) /\ Location(Unrolled(r), n + 1, k) = c + 1
  /\ Cardinality(UpToIn(Children(n), c)) = k
  /\ FnOf[c] = Callees(r[FnOf[n]].body)[k]

\* The calls of SummaryValidation are those of the new revision but the first.
LEMMA NewCalls ==
  ASSUME NEW r \in NewRevisions
  PROVE  /\ r \in Revisions /\ Len(Unrolled(r)) = NumCalls + 1
         /\ NumCalls \in Nat \ {0}
         /\ \A n \in Call : /\ n \in Nat /\ n + 1 \in 2 .. NumCalls + 1
                            /\ Unrolled(r)[n + 1].fn = FnOf[n]
                            /\ FnOf[n] \in DOMAIN r
<1>1. r \in Revisions /\ Len(Unrolled(r)) = NumCalls + 1 /\ NumCalls \in Nat \ {0}
  BY UpgradesAssumption, TreeAssumption, CallsAssumption
<1>2. ASSUME NEW n \in Call
      PROVE  n \in Nat /\ n + 1 \in 2 .. NumCalls + 1 /\ Unrolled(r)[n + 1].fn = FnOf[n]
  BY <1>1, TreeAssumption DEF Call
<1>3. Unrolled(r) \in Seq(CallsOf(r))
  BY <1>1, UnrolledFacts
<1>4. ASSUME NEW n \in Call PROVE FnOf[n] \in DOMAIN r
  <2>1. n + 1 \in 1 .. Len(Unrolled(r))
    BY <1>1, <1>2
  <2>2. Unrolled(r)[n + 1] \in CallsOf(r)
    BY <1>3, <2>1, ElementOfSeq
  <2> QED
    BY <1>2, <2>2 DEF CallsOf
<1> QED
  BY <1>1, <1>2, <1>4

LEMMA ChildFacts ==
  ASSUME NEW r \in NewRevisions, NEW n \in Call
  PROVE  /\ Len(Callees(r[FnOf[n]].body)) \in Nat
         /\ \A k \in 1 .. Len(Callees(r[FnOf[n]].body)) : \E c \in Call : Makes(r, n, k, c)
<1> DEFINE calls == Unrolled(r)
           fns == Callees(r[FnOf[n]].body)
           P == Below(calls, n + 1)
<1>1. /\ r \in Revisions /\ Len(calls) = NumCalls + 1 /\ NumCalls \in Nat
      /\ n \in Nat /\ n + 1 \in 1 .. Len(calls) /\ calls[n + 1].fn = FnOf[n]
      /\ \A c \in Call : calls[c + 1].fn = FnOf[c]
  BY NewCalls
<1>2. /\ Len(fns) \in Nat
      /\ \A k \in 1 .. Len(fns) :
           LET m == Location(calls, n + 1, k)
           IN  m \in P /\ calls[m].fn = fns[k] /\ Cardinality(UpToIn(P, m)) = k
  BY <1>1, CallsBelow
<1>3. P = {c + 1 : c \in Children(n)}
  BY TreeAssumption
<1>4. Children(n) \in SUBSET (1 .. NumCalls) /\ Children(n) \subseteq Call
  BY DEF Children, Call
<1>5. ASSUME NEW k \in 1 .. Len(fns) PROVE \E c \in Call : Makes(r, n, k, c)
  <2>1. PICK c \in Children(n) : Location(calls, n + 1, k) = c + 1
    BY <1>2, <1>3
  <2>2. Cardinality(UpToIn(P, c + 1)) = k /\ FnOf[c] = fns[k]
    BY <1>1, <1>2, <1>4, <2>1
  <2>3. Cardinality(UpToIn(Children(n), c)) = Cardinality(UpToIn(P, c + 1))
    <3>1. NumCalls \in Nat /\ Children(n) \in SUBSET (1 .. NumCalls)
      BY <1>1, <1>4
    <3> HIDE DEF P
    <3> QED
      BY <1>3, <3>1, ShiftedRank
  <2> QED
    BY <1>4, <2>1, <2>2, <2>3 DEF Makes
<1> QED
  BY <1>2, <1>5

\* When the text of a function is the same, a call does in the new revision what it did
\* in the old one, if the calls it makes do no more than those it made.
LEMMA SameDeeds ==
  ASSUME old \in Revisions, NEW r \in NewRevisions, NEW n \in Call, NEW o,
         functions_old[o].fn = FnOf[n], FnOf[n] \in DOMAIN old,
         Text(old[FnOf[n]].body) = Text(r[FnOf[n]].body),
         NEW X, NEW Y,
         \A k \in 1 .. Len(Callees(r[FnOf[n]].body)) : \A c \in Call :
            Makes(r, n, k, c) => Y[c] \subseteq X[Location(functions_old, o, k)]
  PROVE  Post(VersionOf(r), n, Y) \subseteq OldPost(o, X)
<1> DEFINE f == FnOf[n]
           does == r[f].does
           rank(c) == Cardinality({d \in Children(n) : d <= c})
           body(run) == [calls |-> [c \in Children(n) |-> run.in[rank(c)]], out |-> run.out]
<1>1. r \in Revisions /\ f \in DOMAIN r /\ f \in DOMAIN old
  BY NewCalls
<1>2. does = old[f].does
      /\ \A run \in does : DOMAIN run.in = 1 .. Len(Callees(r[f].body))
  <2>1. \A run \in does : run.in \in [1 .. Len(Callees(r[f].body)) -> Val]
    BY <1>1, DoesAssumption
  <2> QED
    BY <1>1, <2>1, DoesAssumption
<1> SUFFICES ASSUME NEW b \in Post(VersionOf(r), n, Y) PROVE b \in OldPost(o, X)
  OBVIOUS
<1>3. PICK p \in VersionOf(r)[n] : p.out = b /\ \A c \in DOMAIN p.calls : p.calls[c] \in Y[c]
  BY DEF Post
<1>4. PICK run \in does : p = body(run)
  BY <1>3 DEF VersionOf
<1>5. /\ run.out = b
      /\ \A c \in Children(n) : run.in[rank(c)] \in Y[c]
  BY <1>3, <1>4
<1>6. ASSUME NEW k \in DOMAIN run.in PROVE run.in[k] \in X[Location(functions_old, o, k)]
  <2>1. k \in 1 .. Len(Callees(r[f].body))
    BY <1>2
  <2>2. PICK c \in Call : Makes(r, n, k, c)
    BY <2>1, ChildFacts
  <2>3. c \in Children(n) /\ rank(c) = k
    BY <2>2 DEF Makes, UpToIn
  <2> QED
    BY <1>5, <2>1, <2>2, <2>3
<1>7. run \in old[functions_old[o].fn].does
  BY <1>2
<1> QED
  BY <1>5, <1>6, <1>7 DEF OldPost

-----------------------------------------------------------------------------
(***************************************************************************)
(* A revision that is taken for identical.                                 *)
(***************************************************************************)
\* X says what the calls of the old revision do, as its summaries prove it.
Explains(X) ==
  /\ \A o \in 2 .. Len(functions_old) :
       /\ callhistory_old[o].sum # 0 => X[o] = Models(store[callhistory_old[o].sum].fla)
       /\ OldPost(o, X) \subseteq X[o]
  /\ X[2] \subseteq Safe

OldProven == \E X \in [2 .. Len(functions_old) -> SUBSET Val] : Explains(X)

\* The proof of the old revision is one of the new.
LEMMA IdenticalSafe ==
  ASSUME old \in Revisions, new \in NewRevisions, Compares, SameText, OldProven,
         ver = VersionOf(new)
  PROVE  IsSafe(ver)
<1>1. PICK X \in [2 .. Len(functions_old) -> SUBSET Val] : Explains(X)
  BY DEF OldProven
<1>2. /\ functions_old = Unrolled(new) /\ functions_old = Unrolled(old)
      /\ Len(functions_old) = NumCalls + 1 /\ NumCalls \in Nat \ {0}
      /\ \A n \in Call : /\ n \in Nat /\ n + 1 \in 2 .. NumCalls + 1
                         /\ functions_old[n + 1].fn = FnOf[n]
  BY NewCalls DEF Compares, SameText
<1> DEFINE Y == [n \in Call |-> X[n + 1]]
<1>3. Y \in Env /\ \A n \in Call : Y[n] = X[n + 1]
  BY <1>1, <1>2 DEF Env
<1> HIDE DEF Y
<1>4. ASSUME NEW n \in Call PROVE Post(ver, n, Y) \subseteq Y[n]
  <2>1. /\ functions_old[n + 1].fn = FnOf[n] /\ FnOf[n] \in DOMAIN old
        /\ Text(old[FnOf[n]].body) = Text(new[FnOf[n]].body)
    <3>1. n + 1 \in 2 .. Len(functions_new) /\ functions_new[n + 1].fn = FnOf[n]
      BY <1>2 DEF SameText
    <3>2. Names(Unrolled(old)) \subseteq DOMAIN old
      BY UnrolledFacts
    <3>3. FnOf[n] \in Names(functions_old)
      <4>1. functions_old \in Seq(CallsOf(old))
        BY <1>2, UnrolledFacts
      <4>2. n + 1 \in DOMAIN functions_old
        BY <1>2, <4>1, LenProperties
      <4> QED
        BY <1>2, <4>2 DEF Names, ToSet
    <3> QED
      BY <1>2, <3>1, <3>2, <3>3 DEF SameText
  <2>2. \A k \in 1 .. Len(Callees(new[FnOf[n]].body)) : \A c \in Call :
           Makes(new, n, k, c) => Y[c] \subseteq X[Location(functions_old, n + 1, k)]
    BY <1>2, <1>3 DEF Makes
  <2>3. Post(VersionOf(new), n, Y) \subseteq OldPost(n + 1, X)
    BY <2>1, <2>2, SameDeeds
  <2>4. OldPost(n + 1, X) \subseteq X[n + 1]
    BY <1>1, <1>2 DEF Explains
  <2> QED
    BY <1>3, <2>3, <2>4
<1>5. Closed(ver, Y)
  BY <1>4 DEF Closed
<1>6. Y[Main] \subseteq Safe
  <2>1. Main \in Call /\ Main + 1 = 2
    BY <1>2 DEF Main, Call
  <2> QED
    BY <1>1, <1>3, <2>1 DEF Explains
<1>7. Concrete(ver)[Main] \subseteq Y[Main]
  BY <1>2, <1>3, <1>5 DEF Concrete, Main, Call
<1> QED
  BY <1>6, <1>7 DEF IsSafe

-----------------------------------------------------------------------------
(***************************************************************************)
(* The invariant while diff runs.                                          *)
(***************************************************************************)
\* The entries of the old calls say which of them have a summary.
OldEntries ==
  \A o \in DOMAIN functions_old :
     LET e == callhistory_old[o]
     IN  /\ e.prec = "SUMMARY" <=> e.sum # 0
         /\ e.sum # 0 => /\ o >= 3 /\ e.sum \in DOMAIN store
                         /\ store[e.sum].fn = functions_old[o].fn

\* The entries of the calls that were compared say which of them are preserved.
NewEntries ==
  \A n \in Done :
     LET e == callhistory_new[n]
     IN  /\ e.preserved <=> untouched[n]
         /\ e.prec = "SUMMARY" => e.sum # 0
         /\ (e.preserved /\ e.sum # 0) => e.prec = "SUMMARY"

\* The traversal has not begun.
Waiting ==
  /\ ver = VersionOf(new)
  /\ maxID \in Nat \ {0} /\ DOMAIN store \subseteq 1 .. maxID - 1
  /\ store \in [DOMAIN store -> StoredSummary]
  /\ marked = {} /\ repaired = {} /\ cur = NumCalls /\ validated = FALSE
  /\ phase = "pick" /\ task = "none" /\ holds = FALSE /\ asserted = NotAsserted
  /\ houdini = NoRepair

Comparing ==
  /\ DiffInv /\ ComparisonInv
  /\ result # "none" => at \notin DOMAIN functions_new
  /\ old \in OldRevisions /\ new \in NewRevisions
  /\ stage \in {"diff", "identical", "validate"}
  /\ stage = "identical" => result = "identical"
  /\ stage # "validate" => Waiting /\ OldEntries /\ NewEntries /\ OldProven

LEMMA RevisionFacts ==
  StartAlike /\ OldRevisions \subseteq Revisions /\ NewRevisions \subseteq Revisions
  BY UpgradesAssumption, StartAssumption DEF StartAlike

\* What UpgradeInit leaves satisfies it.
LEMMA UpgradeInitInvariant == UpgradeInit => Comparing
<1> SUFFICES ASSUME UpgradeInit PROVE Comparing
  OBVIOUS
<1> DEFINE calls == Unrolled(old)
<1>1. PICK S \in SUBSET (3 .. Len(calls)) :
        LET omega == Omega(calls, S, "INLINE")
        IN  /\ StartDiff(omega)
            /\ maxID = Cardinality(S) + 1
            /\ \E fla \in [S -> {f \in Lang : ~ Trivial(f)}] :
                 /\ OldProof(S, fla)
                 /\ store = [id \in 1 .. Cardinality(S) |->
                      LET n == CHOOSE n \in S : omega[n].sum = id
                      IN  [fn |-> omega[n].fn, fla |-> fla[n], indexed |-> Deserialized]]
  BY DEF UpgradeInit
<1> DEFINE omega == Omega(calls, S, "INLINE")
<1>2. PICK fla \in [S -> {f \in Lang : ~ Trivial(f)}] :
        /\ OldProof(S, fla)
        /\ store = [id \in 1 .. Cardinality(S) |->
             LET n == CHOOSE n \in S : omega[n].sum = id
             IN  [fn |-> omega[n].fn, fla |-> fla[n], indexed |-> Deserialized]]
  BY <1>1
<1>3. /\ StartDiff(omega) /\ maxID = Cardinality(S) + 1
      /\ old \in OldRevisions /\ new \in NewRevisions /\ old \in Revisions /\ new \in Revisions
  BY <1>1, RevisionFacts DEF UpgradeInit
<1>4. DiffInit
  BY <1>1, <1>3 DEF DiffInit
<1>5. DiffInv /\ ComparisonInv
  BY <1>4, DiffInitInvariant, InitialComparison
<1>6. /\ calls \in Seq(Node) /\ Len(calls) \in Nat /\ DOMAIN calls = 1 .. Len(calls)
      /\ functions_old = calls /\ callhistory_old = omega
  BY <1>3, UnrolledFacts, LenProperties DEF StartDiff
<1>7. /\ IsFiniteSet(S) /\ Cardinality(S) \in Nat /\ S \subseteq DOMAIN calls
      /\ \A o \in S : o >= 3
  <2>1. S \in SUBSET (1 .. Len(calls))
    BY <1>6
  <2> QED
    BY <1>6, <2>1, RankFacts
<1>8. /\ \A o \in DOMAIN calls :
           /\ omega[o].fn = calls[o].fn
           /\ omega[o].prec = IF o \in S THEN "SUMMARY" ELSE "INLINE"
           /\ omega[o].sum = IF o \in S THEN Cardinality(UpToIn(S, o)) ELSE 0
  BY DEF Omega, UpToIn
<1>9. \A o \in S : omega[o].sum \in 1 .. Cardinality(S)
  <2>1. S \in SUBSET (1 .. Len(calls))
    BY <1>6
  <2>2. \A o \in S : Cardinality(UpToIn(S, o)) \in 1 .. Cardinality(S)
    BY <1>6, <2>1, RankFacts
  <2> QED
    BY <1>7, <1>8, <2>2
<1>10. \A o \in DOMAIN calls : omega[o].sum # 0 => o \in S
  BY <1>8
<1>11. \A m, n \in S : omega[m].sum = omega[n].sum => m = n
  BY <1>6, OmegaFacts
<1> HIDE DEF omega
<1>12. ASSUME NEW o \in S
       PROVE  /\ omega[o].sum \in DOMAIN store
              /\ store[omega[o].sum]
                   = [fn |-> calls[o].fn, fla |-> fla[o], indexed |-> Deserialized]
  <2> DEFINE n == CHOOSE n \in S : omega[n].sum = omega[o].sum
  <2>1. n = o
    BY <1>11
  <2>2. store[omega[o].sum] = [fn |-> omega[n].fn, fla |-> fla[n], indexed |-> Deserialized]
    BY <1>2, <1>9
  <2> HIDE DEF n
  <2> QED
    BY <1>2, <1>7, <1>8, <1>9, <2>1, <2>2
<1>13. OldEntries
  <2> SUFFICES ASSUME NEW o \in DOMAIN calls
               PROVE  /\ omega[o].prec = "SUMMARY" <=> omega[o].sum # 0
                      /\ omega[o].sum # 0 => /\ o >= 3 /\ omega[o].sum \in DOMAIN store
                                             /\ store[omega[o].sum].fn = calls[o].fn
    BY <1>6 DEF OldEntries
  <2>1. CASE o \in S
    <3>1. omega[o].sum # 0 /\ omega[o].prec = "SUMMARY" /\ o >= 3
      BY <1>7, <1>8, <1>9, <2>1
    <3>2. omega[o].sum \in DOMAIN store /\ store[omega[o].sum].fn = calls[o].fn
      <4> DEFINE s == store[omega[o].sum]
      <4>1. omega[o].sum \in DOMAIN store
            /\ s = [fn |-> calls[o].fn, fla |-> fla[o], indexed |-> Deserialized]
        BY <1>12, <2>1
      <4> HIDE DEF s, calls
      <4>2. s.fn = calls[o].fn
        BY ONLY <4>1
      <4> QED
        BY <4>1, <4>2 DEF s
    <3> QED
      BY <3>1, <3>2
  <2>2. CASE o \notin S
    <3>1. omega[o].prec # "SUMMARY" /\ omega[o].sum = 0
      BY <1>8, <2>2
    <3> QED
      BY <3>1
  <2> QED
    BY <2>1, <2>2
<1>14. OldProven
  <2>1. PICK X \in [2 .. Len(functions_old) -> SUBSET Val] :
          /\ \A n \in S : X[n] = Models(fla[n])
          /\ \A n \in 2 .. Len(functions_old) : OldPost(n, X) \subseteq X[n]
          /\ X[2] \subseteq Safe
    BY <1>2 DEF OldProof
  <2>2. \A o \in 2 .. Len(functions_old) :
          callhistory_old[o].sum # 0 => X[o] = Models(store[callhistory_old[o].sum].fla)
    <3> SUFFICES ASSUME NEW o \in 2 .. Len(functions_old), omega[o].sum # 0
                 PROVE  X[o] = Models(store[omega[o].sum].fla)
      BY <1>6
    <3>1. o \in S
      BY <1>6, <1>10
    <3>2. store[omega[o].sum].fla = fla[o]
      <4> DEFINE s == store[omega[o].sum]
      <4>1. s = [fn |-> calls[o].fn, fla |-> fla[o], indexed |-> Deserialized]
        BY <1>12, <3>1
      <4> HIDE DEF s, calls
      <4>2. s.fla = fla[o]
        BY ONLY <4>1
      <4> QED
        BY <4>2 DEF s
    <3> QED
      BY <2>1, <3>1, <3>2
  <2> QED
    BY <2>1, <2>2 DEF OldProven, Explains
<1>15. Waiting
  <2>1. DOMAIN store = 1 .. Cardinality(S) /\ maxID = Cardinality(S) + 1
    BY <1>2, <1>3
  <2>2. ASSUME NEW id \in DOMAIN store PROVE store[id] \in StoredSummary
    <3>1. PICK o \in S : omega[o].sum = id
      <4>1. S \in SUBSET (1 .. Len(calls))
        BY <1>6
      <4>2. \A k \in 1 .. Cardinality(S) : \E o \in S : Cardinality(UpToIn(S, o)) = k
        BY <1>6, <4>1, RankFacts
      <4>3. PICK o \in S : Cardinality(UpToIn(S, o)) = id
        BY <2>1, <4>2
      <4>4. o \in DOMAIN calls
        BY <1>7
      <4>5. omega[o].sum = id
        BY <1>8, <4>3, <4>4
      <4> QED
        BY <4>5
    <3>2. store[id] = [fn |-> calls[o].fn, fla |-> fla[o], indexed |-> Deserialized]
      BY <1>12, <3>1
    <3>3. calls[o].fn \in Fn
      <4>1. calls[o].fn \in Names(calls)
        BY <1>7 DEF Names, ToSet
      <4>2. Names(calls) \subseteq DOMAIN old
        BY <1>3, UnrolledFacts
      <4> QED
        BY <1>3, <4>1, <4>2, UpgradesAssumption
    <3>4. fla[o] \in Formula
      BY LangAssumption
    <3> QED
      BY <3>2, <3>3, <3>4 DEF StoredSummary, Deserialized
  <2>3. store \in [DOMAIN store -> StoredSummary]
    <3>1. store = [id \in DOMAIN store |-> store[id]]
      BY <1>2
    <3> QED
      BY <2>2, <3>1
  <2>4. maxID \in Nat \ {0} /\ DOMAIN store \subseteq 1 .. maxID - 1
    BY <1>7, <2>1
  <2> QED
    BY <2>3, <2>4 DEF UpgradeInit, Waiting
<1>16. NewEntries
  <2>1. Done = {}
    BY <1>3 DEF Done, StartDiff
  <2> QED
    BY <2>1 DEF NewEntries
<1>17. result = "none" /\ stage = "diff"
  BY <1>3 DEF StartDiff, UpgradeInit
<1> QED
  BY <1>3, <1>5, <1>13, <1>14, <1>15, <1>16, <1>17 DEF Comparing

\* Writing the entry of the current call keeps those of the earlier ones.
LEMMA EntryWritten ==
  ASSUME DiffInv, Diffing, NewEntries,
         NEW e \in [fn : OldNames, prec : {"HAVOC", "SUMMARY", "INLINE"},
                    preserved : BOOLEAN, edge : BOOLEAN, sum : Nat],
         NEW added, Write(e, added),
         \A n \in DOMAIN functions_new \ {at} : untouched'[n] = untouched[n],
         e.preserved <=> untouched'[at],
         e.prec = "SUMMARY" => e.sum # 0,
         (e.preserved /\ e.sum # 0) => e.prec = "SUMMARY"
  PROVE  NewEntries'
<1>1. /\ Done' = Done \cup {at} /\ callhistory_new'[at] = e
      /\ \A m \in DOMAIN functions_new \ {at} :
            /\ callhistory_new'[m].sum = callhistory_new[m].sum
            /\ callhistory_new'[m].prec = callhistory_new[m].prec
            /\ callhistory_new'[m].preserved = callhistory_new[m].preserved
  BY WriteFacts DEF DiffInv, Diffing
<1>2. at \notin Done /\ Done \subseteq DOMAIN functions_new
  BY DEF DiffInv, Progress, Done, DiffTypeOK
<1>3. ASSUME NEW n \in Done'
      PROVE  /\ callhistory_new'[n].preserved <=> untouched'[n]
             /\ callhistory_new'[n].prec = "SUMMARY" => callhistory_new'[n].sum # 0
             /\ (callhistory_new'[n].preserved /\ callhistory_new'[n].sum # 0)
                  => callhistory_new'[n].prec = "SUMMARY"
  <2>1. CASE n = at
    BY <1>1, <2>1
  <2>2. CASE n # at
    <3>1. n \in Done /\ n \in DOMAIN functions_new \ {at}
      BY <1>1, <1>2, <2>2
    <3> QED
      BY <1>1, <3>1 DEF NewEntries
  <2> QED
    BY <2>1, <2>2
<1> QED
  BY <1>3 DEF NewEntries

LEMMA EntriesStep ==
  ASSUME DiffInv, ComparisonInv, OldEntries, NewEntries, DiffNext
  PROVE  NewEntries'
<1>1. CASE NewCall
  <2> DEFINE e == [Stub EXCEPT !.fn = CurrentFn, !.edge = FALSE]
  <2>1. Diffing /\ Write(e, {}) /\ untouched' = untouched /\ at \in DOMAIN functions_new
    BY <1>1 DEF NewCall, Diffing
  <2>2. CurrentFn \in OldNames
    BY <2>1, NodeName DEF CurrentFn, DiffInv, Given
  <2>3. e \in [fn : OldNames, prec : {"HAVOC", "SUMMARY", "INLINE"},
               preserved : BOOLEAN, edge : BOOLEAN, sum : Nat]
        /\ e.sum = 0 /\ e.prec = "INLINE" /\ e.preserved = FALSE
    BY <2>2 DEF Stub
  <2>4. ~ untouched[at]
    BY <2>1 DEF ComparisonInv, Done
  <2> HIDE DEF e
  <2> QED
    BY <2>1, <2>3, <2>4, EntryWritten
<1>2. ASSUME NEW o \in DOMAIN functions_old, InterfaceChanged(o) PROVE NewEntries'
  <2> DEFINE e == [callhistory_old[o] EXCEPT !.prec = "INLINE", !.preserved = FALSE,
                                             !.edge = FALSE]
  <2>1. Diffing /\ Write(e, {}) /\ untouched' = untouched /\ at \in DOMAIN functions_new
    BY <1>2 DEF InterfaceChanged, Diffing
  <2>2. e \in [fn : OldNames, prec : {"HAVOC", "SUMMARY", "INLINE"},
               preserved : BOOLEAN, edge : BOOLEAN, sum : Nat]
        /\ e.prec = "INLINE" /\ e.preserved = FALSE
    BY DEF DiffInv, DiffTypeOK, Entries, OldNames
  <2>3. ~ untouched[at]
    BY <2>1 DEF ComparisonInv, Done
  <2> HIDE DEF e
  <2> QED
    BY <2>1, <2>2, <2>3, EntryWritten
<1>3. ASSUME NEW o \in DOMAIN functions_old, Compared(o) PROVE NewEntries'
  <2> DEFINE e == [callhistory_old[o] EXCEPT !.edge = callhistory_new[at].edge,
                                             !.preserved = Preserved]
             added == IF Preserved THEN {} ELSE AddedCalls
  <2>1. /\ Diffing /\ Write(e, added) /\ at \in DOMAIN functions_new
        /\ untouched' = [untouched EXCEPT ![at] = Preserved]
    BY <1>3 DEF Compared, Diffing
  <2>2. Preserved \in BOOLEAN
    BY DEF Preserved, Same
  <2>3. callhistory_new[at].edge \in BOOLEAN
    BY <2>1 DEF DiffInv, DiffTypeOK, Entries
  <2>4. e \in [fn : OldNames, prec : {"HAVOC", "SUMMARY", "INLINE"},
               preserved : BOOLEAN, edge : BOOLEAN, sum : Nat]
        /\ e.sum = callhistory_old[o].sum /\ e.prec = callhistory_old[o].prec
        /\ e.preserved = Preserved
    BY <2>2, <2>3 DEF DiffInv, DiffTypeOK, Entries, OldNames
  <2>5. e.prec = "SUMMARY" <=> e.sum # 0
    BY <2>4 DEF OldEntries
  <2> HIDE DEF e, added
  <2>6. /\ untouched'[at] = Preserved
        /\ \A n \in DOMAIN functions_new \ {at} : untouched'[n] = untouched[n]
    BY <2>1 DEF DiffInv, DiffTypeOK
  <2> QED
    BY <2>1, <2>4, <2>5, <2>6, EntryWritten
<1>4. CASE Report
  BY <1>4 DEF Report, NewEntries, Done
<1> QED
  BY <1>1, <1>2, <1>3, <1>4 DEF DiffNext

\* Comparing calls changes neither the revisions nor the store.
LEMMA CompareStep ==
  ASSUME Comparing, Compare
  PROVE  Comparing'
<1>1. /\ stage = "diff" /\ DiffNext /\ UNCHANGED <<vars, stage>> /\ UNCHANGED inputs
      /\ Waiting /\ OldEntries /\ NewEntries /\ OldProven /\ DiffInv /\ ComparisonInv
  BY DEF Comparing, Compare, DiffNext, NewCall, InterfaceChanged, Compared, Report
<1>2. DiffInv' /\ ComparisonInv'
  BY <1>1, DiffNextInvariant, NextComparison, RevisionFacts
<1>3. NewEntries'
  BY <1>1, EntriesStep
<1>4. OldEntries'
  BY <1>1 DEF OldEntries, inputs, vars, summaries
<1>5. OldProven'
  <2>1. PICK X \in [2 .. Len(functions_old) -> SUBSET Val] : Explains(X)
    BY <1>1 DEF OldProven
  <2>2. \A o : OldPost(o, X)' = OldPost(o, X)
    BY <1>1 DEF OldPost, inputs
  <2>3. Explains(X)'
    BY <1>1, <2>1, <2>2 DEF Explains, inputs, vars, summaries
  <2>4. functions_old' = functions_old
    BY <1>1 DEF inputs
  <2> QED
    BY <2>1, <2>3, <2>4 DEF OldProven
<1>6. Waiting'
  BY <1>1 DEF Waiting, inputs, vars, summaries, traversal, query
<1>7. result' # "none" => at' \notin DOMAIN functions_new'
  <2>1. result # "none" => at \notin DOMAIN functions_new
    BY DEF Comparing
  <2>2. CASE Report
    BY <2>2 DEF Report, inputs
  <2>3. CASE ~ Report
    BY <1>1, <2>3 DEF DiffNext, NewCall, InterfaceChanged, Compared, Diffing
  <2> QED
    BY <2>2, <2>3
<1> QED
  BY <1>1, <1>2, <1>3, <1>4, <1>5, <1>6, <1>7 DEF Comparing, inputs

\* The other steps leave what diff compared alone.
LEMMA UpgradeNextInvariant ==
  Comparing /\ [UpgradeNext]_<<vars, diffVars, stage>> => Comparing'
<1> SUFFICES ASSUME Comparing, [UpgradeNext]_<<vars, diffVars, stage>> PROVE Comparing'
  OBVIOUS
<1>1. CASE Compare
  BY <1>1, CompareStep
<1>2. ASSUME UNCHANGED diffVars
      PROVE  /\ DiffInv' /\ ComparisonInv'
             /\ result' # "none" => at' \notin DOMAIN functions_new'
             /\ old' \in OldRevisions /\ new' \in NewRevisions
  <2>1. DiffInv' /\ ComparisonInv'
    BY <1>2, DiffNextInvariant, NextComparison, RevisionFacts DEF Comparing
  <2> QED
    BY <1>2, <2>1 DEF Comparing, diffVars, inputs
<1>3. ASSUME UNCHANGED <<vars, diffVars>>
      PROVE  (stage # "validate") => Waiting' /\ OldEntries' /\ NewEntries' /\ OldProven'
  <2> SUFFICES ASSUME stage # "validate"
               PROVE  Waiting' /\ OldEntries' /\ NewEntries' /\ OldProven'
    OBVIOUS
  <2>0. Waiting /\ OldEntries /\ NewEntries /\ OldProven
    BY DEF Comparing
  <2>1. OldEntries' /\ NewEntries'
    BY <1>3, <2>0 DEF OldEntries, NewEntries, Done, diffVars, inputs, vars, summaries
  <2>2. Waiting'
    BY <1>3, <2>0 DEF Waiting, diffVars, inputs, vars, summaries, traversal, query
  <2>3. OldProven'
    <3>1. PICK X \in [2 .. Len(functions_old) -> SUBSET Val] : Explains(X)
      BY <2>0 DEF OldProven
    <3>2. \A o : OldPost(o, X)' = OldPost(o, X)
      BY <1>3 DEF OldPost, diffVars, inputs
    <3>3. Explains(X)'
      BY <1>3, <3>1, <3>2 DEF Explains, diffVars, inputs, vars, summaries
    <3>4. functions_old' = functions_old
      BY <1>3 DEF diffVars, inputs
    <3> QED
      BY <3>1, <3>3, <3>4 DEF OldProven
  <2> QED
    BY <2>1, <2>2, <2>3
<1>4. CASE Identical
  <2>1. /\ UNCHANGED <<vars, diffVars>> /\ stage = "diff" /\ stage' = "identical"
        /\ result = "identical"
    BY <1>4 DEF Identical
  <2>2. result' = "identical"
    BY <2>1 DEF diffVars
  <2> QED
    BY <1>2, <1>3, <2>1, <2>2 DEF Comparing
<1>5. CASE Load
  <2>1. UNCHANGED diffVars /\ stage' = "validate"
    BY <1>5 DEF Load
  <2> QED
    BY <1>2, <2>1 DEF Comparing
<1>6. CASE Validate
  <2>1. UNCHANGED diffVars /\ stage = "validate" /\ stage' = "validate"
    BY <1>6 DEF Validate
  <2> QED
    BY <1>2, <2>1 DEF Comparing
<1>7. CASE UNCHANGED <<vars, diffVars, stage>>
  <2>1. UNCHANGED <<vars, diffVars>> /\ stage' = stage
    BY <1>7
  <2>2. result' = result
    BY <2>1 DEF diffVars
  <2> QED
    BY <1>2, <1>3, <2>1, <2>2 DEF Comparing
<1> QED
  BY <1>1, <1>4, <1>5, <1>6, <1>7 DEF UpgradeNext

THEOREM UpgradeInvariance == UpgradeSpec => []Comparing
  BY UpgradeInitInvariant, UpgradeNextInvariant, PTL DEF UpgradeSpec

\* A new revision that do_diff takes for identical, so that nothing of it is checked, has
\* no assertion that can be violated, whatever was read past the end of the flags and
\* whichever functions are called more than once: the proof of the old revision holds
\* of it.
THEOREM IdenticalRevisionsAreSafe == UpgradeSpec => []IdenticalIsSafe
<1>1. Comparing => IdenticalIsSafe
  <2> SUFFICES ASSUME Comparing, stage = "identical" PROVE IsSafe(ver)
    BY DEF IdenticalIsSafe
  <2>1. SameText /\ Compares
    BY DEF Comparing, ComparisonInv, ResultExact
  <2>2. old \in Revisions /\ new \in NewRevisions /\ ver = VersionOf(new) /\ OldProven
    BY RevisionFacts DEF Comparing, Waiting
  <2> QED
    BY <2>1, <2>2, IdenticalSafe
<1> QED
  BY <1>1, UpgradeInvariance, PTL
-----------------------------------------------------------------------------
(***************************************************************************)
(* What Load reads, when no function is called twice.                      *)
(***************************************************************************)
\* main is the second call of every revision.
LEMMA MainSecond ==
  ASSUME NEW r \in Revisions
  PROVE  2 \in 1 .. Len(Unrolled(r)) /\ Unrolled(r)[2].fn = FnOf[Main]
<1> DEFINE s == Unrolled(r)
           fns == <<Initializer, FnOf[Main]>>
<1>1. Nested(r, s, 0, fns)
  BY UnrolledNested, StartAssumption
<1>2. /\ s \in Seq(CallsOf(r)) /\ Len(s) \in Nat /\ s # << >>
      /\ s[1].fn = Initializer
  BY UnrolledFacts, LenProperties
<1>3. \A i \in 1 .. Len(s) : s[i].depth \in Nat
  BY <1>2, DepthFacts
<1>4. 1 \in 1 .. Len(s) /\ Below(s, 1) = {}
  <2>1. 1 \in 1 .. Len(s)
    BY <1>2, EmptySeq
  <2>2. Callees(r[s[1].fn].body) = << >>
    BY <1>2, StartAssumption
  <2>3. Below(s, 1) \in SUBSET (1 + 1 .. Len(s)) /\ Cardinality(Below(s, 1)) = Len(<< >>)
    BY <2>1, <2>2, CallsBelow
  <2>4. Below(s, 1) \in SUBSET (1 .. Len(s)) /\ Cardinality(Below(s, 1)) = 0
    <3> HIDE DEF s
    <3> QED
      BY <1>2, <2>3
  <2>5. \A p \in Below(s, 1) : Cardinality(UpToIn(Below(s, 1), p)) \in 1 .. 0
    BY <1>2, <2>4, RankFacts
  <2> QED
    BY <2>1, <2>5
<1> HIDE DEF s
<1>5. PICK e : /\ Increasing(e, 2, Len(s)) /\ Tops(s, 0) = {e[k] : k \in 1 .. 2}
               /\ \A k \in 1 .. 2 : s[e[k]].fn = fns[k]
  <2>1. Len(fns) = 2
    OBVIOUS
  <2>2. InOrder(s, Tops(s, 0), fns)
    BY <1>1 DEF Nested
  <2> HIDE DEF fns
  <2> QED
    BY <2>1, <2>2 DEF InOrder
<1>6. /\ e[1] \in 1 .. Len(s) /\ e[2] \in 1 .. Len(s) /\ e[1] < e[2]
      /\ Tops(s, 0) = {e[1], e[2]} /\ s[e[2]].fn = FnOf[Main]
  BY <1>5 DEF Increasing
<1>7. 1 \in Tops(s, 0) /\ s[1].depth = 0
  BY <1>1, <1>2, <1>4 DEF Nested, Tops
<1>8. e[1] = 1 /\ 2 \in 1 .. Len(s) /\ 1 \in 1 .. Len(s) - 1
  BY <1>2, <1>6, <1>7
<1>9. s[2].depth = 0
  <2>1. s[1 + 1].depth <= s[1].depth + 1
    BY <1>1, <1>8 DEF Nested
  <2>2. s[2].depth = 0 \/ s[2].depth = 1
    BY <1>3, <1>7, <1>8, <2>1
  <2>3. ASSUME s[2].depth = 1 PROVE FALSE
    <3>1. 2 \in Below(s, 1)
      BY <1>2, <1>7, <1>8, <2>3 DEF Below
    <3> QED
      BY <1>4, <3>1
  <2> QED
    BY <2>2, <2>3
<1>10. e[2] = 2
  BY <1>6, <1>8, <1>9 DEF Tops
<1> QED
  BY <1>6, <1>8, <1>10 DEF s

\* o is the call of the old revision that call n is matched with: that of its function.
OldCall(n, o) == o \in 2 .. Len(functions_old) /\ functions_old[o].fn = FnOf[n]

LEMMA OldCallFacts ==
  ASSUME OnceCalled, old \in Revisions, functions_old = Unrolled(old)
  PROVE  /\ OldCall(Main, 2)
         /\ \A n, o, p : OldCall(n, o) /\ OldCall(n, p) => o = p
<1>1. functions_old \in Seq(CallsOf(old))
  BY UnrolledFacts
<1>2. DOMAIN functions_old = 1 .. Len(functions_old) /\ Len(functions_old) \in Nat
  BY <1>1, LenProperties
<1>3. CalledOnce(old)
  BY DEF OnceCalled
<1>4. 2 \in 1 .. Len(functions_old) /\ functions_old[2].fn = FnOf[Main]
  BY MainSecond
<1>5. \A o \in 2 .. Len(functions_old) : o \in DOMAIN Unrolled(old)
  BY <1>2
<1> QED
  BY <1>2, <1>3, <1>4, <1>5 DEF OldCall, CalledOnce

\* What the entry of call n says when diff is done.
LEMMA CarriedOver ==
  ASSUME OnceCalled, Comparing, stage # "validate", result # "none", NEW n \in Call
  PROVE  LET e == callhistory_new[n + 1]
         IN  /\ n + 1 \in Done /\ e.sum \in Nat /\ e.prec \in Precision
             /\ e.prec = "SUMMARY" => e.sum # 0
             /\ (e.preserved /\ e.sum # 0) => e.prec = "SUMMARY"
             /\ e.sum # 0 => /\ e.sum \in DOMAIN store /\ store[e.sum].fn = FnOf[n]
                             /\ n # Main
                             /\ \E o : OldCall(n, o) /\ callhistory_old[o].sum = e.sum
             /\ e.preserved => /\ FnOf[n] \in DOMAIN old
                               /\ Text(old[FnOf[n]].body) = Text(new[FnOf[n]].body)
                               /\ \E o : OldCall(n, o)
<1> DEFINE e == callhistory_new[n + 1]
<1>1. /\ DiffInv /\ ComparisonInv /\ at \notin DOMAIN functions_new
      /\ old \in Revisions /\ new \in NewRevisions /\ new \in Revisions
      /\ OldEntries /\ NewEntries
  BY RevisionFacts DEF Comparing
<1>2. /\ functions_old = Unrolled(old) /\ functions_new = Unrolled(new)
      /\ Done = DOMAIN functions_new
  BY <1>1, AllDone DEF ComparisonInv, Compares
<1>3. /\ n \in Nat /\ n + 1 \in DOMAIN functions_new /\ functions_new[n + 1].fn = FnOf[n]
      /\ 1 \in DOMAIN functions_new /\ n + 1 # 1
  <2>1. /\ Len(functions_new) = NumCalls + 1 /\ NumCalls \in Nat
        /\ n \in Nat /\ n + 1 \in 2 .. NumCalls + 1 /\ functions_new[n + 1].fn = FnOf[n]
    BY <1>1, <1>2, NewCalls
  <2>2. DOMAIN functions_new = 1 .. Len(functions_new)
    BY <1>1, LenProperties DEF DiffInv, Given
  <2> QED
    BY <2>1, <2>2
<1>4. n + 1 \in Done /\ e.sum \in Nat /\ e.prec \in Precision
  BY <1>1, <1>2, <1>3 DEF DiffInv, DiffTypeOK, Entries, Precision
<1>5. /\ e.preserved <=> untouched[n + 1]
      /\ e.prec = "SUMMARY" => e.sum # 0
      /\ (e.preserved /\ e.sum # 0) => e.prec = "SUMMARY"
  BY <1>1, <1>4 DEF NewEntries
<1>6. /\ DOMAIN functions_old = 1 .. Len(functions_old) /\ Len(functions_old) \in Nat
      /\ functions_old[1].fn = Initializer /\ functions_new[1].fn = Initializer
  <2>1. DOMAIN functions_old = 1 .. Len(functions_old) /\ Len(functions_old) \in Nat
    BY <1>1, LenProperties DEF DiffInv, Given
  <2> QED
    BY <1>1, <2>1, ComparedNames DEF ComparisonInv
<1>7. ASSUME e.sum # 0
      PROVE  /\ e.sum \in DOMAIN store /\ store[e.sum].fn = FnOf[n] /\ n # Main
             /\ \E o : OldCall(n, o) /\ callhistory_old[o].sum = e.sum
  <2>1. PICK o \in locs_visited : /\ callhistory_old[o].sum = e.sum
                                  /\ callhistory_old[o].fn = functions_new[n + 1].fn
    BY <1>1, <1>4, <1>7 DEF DiffInv, Progress
  <2>2. o \in DOMAIN functions_old /\ callhistory_old[o].fn = functions_old[o].fn
    BY <1>1 DEF DiffInv, DiffTypeOK, Given
  <2>3. o >= 3 /\ e.sum \in DOMAIN store /\ store[e.sum].fn = functions_old[o].fn
    BY <1>1, <1>7, <2>1, <2>2 DEF OldEntries
  <2>4. OldCall(n, o)
    BY <1>3, <1>6, <2>1, <2>2, <2>3 DEF OldCall
  <2>5. n # Main
    <3> SUFFICES ASSUME n = Main PROVE FALSE
      OBVIOUS
    <3>1. o = 2
      BY <1>1, <1>2, <2>4, OldCallFacts
    <3> QED
      BY <2>3, <3>1
  <2> QED
    BY <1>3, <2>1, <2>2, <2>3, <2>4, <2>5
<1>8. ASSUME e.preserved
      PROVE  /\ FnOf[n] \in DOMAIN old /\ Text(old[FnOf[n]].body) = Text(new[FnOf[n]].body)
             /\ \E o : OldCall(n, o)
  <2>1. untouched[n + 1] /\ n + 1 \in Kept
    BY <1>4, <1>5, <1>8 DEF Kept
  <2>2. Text(old[FnOf[n]].body) = Text(new[FnOf[n]].body)
    BY <1>1, <1>3, <1>4, <2>1 DEF ComparisonInv, KeptAlike
  <2>3. PICK m : MatchOf(m)
    BY <1>1 DEF ComparisonInv
  <2> DEFINE o == m[n + 1]
  <2>4. o \in DOMAIN functions_old /\ functions_old[o].fn = FnOf[n]
    <3>1. o \in locs_visited
      BY <2>1, <2>3 DEF MatchOf, Injection
    <3> QED
      BY <1>1, <1>3, <2>1, <2>3, <3>1 DEF MatchOf, DiffInv, DiffTypeOK
  <2> HIDE DEF o
  <2>5. o # 1
    <3> SUFFICES ASSUME o = 1 PROVE FALSE
      OBVIOUS
    <3>1. functions_new[n + 1].fn = functions_new[1].fn
      BY <1>3, <1>6, <2>4
    <3>2. CalledOnce(new)
      BY <1>1 DEF OnceCalled
    <3> QED
      BY <1>2, <1>3, <3>1, <3>2 DEF CalledOnce
  <2>6. OldCall(n, o)
    BY <1>6, <2>4, <2>5 DEF OldCall
  <2>7. FnOf[n] \in DOMAIN old
    BY <1>1, <2>4, ComparedNames DEF ComparisonInv
  <2> QED
    BY <2>2, <2>6, <2>7
<1> QED
  BY <1>4, <1>5, <1>7, <1>8

\* A revision that changed has a call that is not preserved.
LEMMA SomeCallChanged ==
  ASSUME OnceCalled, Comparing, stage # "validate", result = "changed"
  PROVE  \E n \in Call : ~ callhistory_new[n + 1].preserved
<1> SUFFICES ASSUME \A n \in Call : callhistory_new[n + 1].preserved PROVE FALSE
  OBVIOUS
<1>1. /\ DiffInv /\ ComparisonInv /\ at \notin DOMAIN functions_new /\ NewEntries
      /\ new \in NewRevisions /\ StartAlike
  BY RevisionFacts DEF Comparing
<1>2. /\ Len(functions_new) = NumCalls + 1 /\ NumCalls \in Nat
      /\ DOMAIN functions_new = 1 .. Len(functions_new) /\ Done = DOMAIN functions_new
  <2>1. Len(functions_new) = NumCalls + 1 /\ NumCalls \in Nat
    BY <1>1, NewCalls DEF ComparisonInv, Compares
  <2>2. DOMAIN functions_new = 1 .. Len(functions_new)
    BY <1>1, LenProperties DEF DiffInv, Given
  <2> QED
    BY <1>1, <2>1, <2>2, AllDone
<1>3. ASSUME NEW m \in DOMAIN functions_new PROVE m \in Kept
  <2>1. CASE m = 1
    BY <1>2, <2>1 DEF Kept
  <2>2. CASE m # 1
    <3>1. m - 1 \in Call /\ m - 1 + 1 = m
      BY <1>2, <2>2 DEF Call
    <3>2. callhistory_new[m].preserved
      BY <3>1
    <3> QED
      BY <1>1, <1>2, <3>2 DEF NewEntries, Kept
  <2> QED
    BY <2>1, <2>2
<1>4. SameText
  BY <1>1, <1>3, KeptIsSameText
<1> QED
  BY <1>1, <1>4 DEF ComparisonInv, ResultExact

\* The summaries that are loaded prove the calls that diff found unchanged: the proof
\* of the old revision, read for the calls of the new one.
LEMMA LoadedProof ==
  ASSUME OnceCalled, Comparing, Load
  PROVE  PriorProof'
<1>1. /\ stage = "diff" /\ result = "changed" /\ ver' = ver /\ store' = store
      /\ preserved' = {n \in Call : callhistory_new[n + 1].preserved}
      /\ sumID' = [n \in Call |-> callhistory_new[n + 1].sum]
  BY DEF Load, summaries
<1>2. /\ ver = VersionOf(new) /\ OldProven /\ new \in NewRevisions
      /\ old \in Revisions /\ new \in Revisions
      /\ functions_old = Unrolled(old)
  BY <1>1, RevisionFacts DEF Comparing, Waiting, ComparisonInv, Compares
<1>3. \A n \in Call : n \in preserved' =>
        /\ FnOf[n] \in DOMAIN old /\ Text(old[FnOf[n]].body) = Text(new[FnOf[n]].body)
        /\ \E o : OldCall(n, o)
  BY <1>1, CarriedOver
<1>4. PICK X0 \in [2 .. Len(functions_old) -> SUBSET Val] : Explains(X0)
  BY <1>2 DEF OldProven
<1> DEFINE X == [n \in Call |-> IF \E o : OldCall(n, o)
                               THEN X0[CHOOSE o : OldCall(n, o)] ELSE Val]
<1>5. \A n, o, p : OldCall(n, o) /\ OldCall(n, p) => o = p
  BY <1>2, OldCallFacts
<1>6. \A n \in Call : \A o : OldCall(n, o) => X[n] = X0[o]
  BY <1>5
<1>7. X \in Env
  <2>1. ASSUME NEW n \in Call PROVE X[n] \in SUBSET Val
    <3>1. CASE \E o : OldCall(n, o)
      <4>1. PICK o : OldCall(n, o)
        BY <3>1
      <4>2. X[n] = X0[o] /\ o \in 2 .. Len(functions_old)
        BY <1>6, <4>1 DEF OldCall
      <4> HIDE DEF X
      <4> QED
        BY <1>4, <4>2
    <3>2. CASE ~ \E o : OldCall(n, o)
      BY <3>2
    <3> QED
      BY <3>1, <3>2
  <2> QED
    BY <2>1 DEF Env
<1> HIDE DEF X
<1>8. ASSUME NEW n \in Call, sumID'[n] # 0 PROVE X[n] = Models(store[sumID'[n]].fla)
  <2>1. sumID'[n] = callhistory_new[n + 1].sum
    BY <1>1
  <2>2. PICK o : OldCall(n, o) /\ callhistory_old[o].sum = sumID'[n]
    BY <1>1, <1>8, <2>1, CarriedOver
  <2>3. X[n] = X0[o] /\ o \in 2 .. Len(functions_old)
    BY <1>6, <2>2 DEF OldCall
  <2> QED
    BY <1>4, <1>8, <2>2, <2>3 DEF Explains
<1>9. ASSUME NEW n \in preserved' PROVE Post(ver, n, X) \subseteq X[n]
  <2>1. n \in Call
    BY <1>1
  <2>2. PICK o : OldCall(n, o)
    BY <1>3, <2>1
  <2>3. /\ o \in 2 .. Len(functions_old) /\ o \in 1 .. Len(functions_old)
        /\ Len(functions_old) \in Nat /\ o \in Nat
        /\ functions_old[o].fn = FnOf[n] /\ X[n] = X0[o]
    <3>1. functions_old \in Seq(CallsOf(old))
      BY <1>2, UnrolledFacts
    <3>2. Len(functions_old) \in Nat
      BY <3>1, LenProperties
    <3> QED
      BY <1>6, <2>1, <2>2, <3>2 DEF OldCall
  <2>4. /\ FnOf[n] \in DOMAIN old /\ Text(old[FnOf[n]].body) = Text(new[FnOf[n]].body)
        /\ Callees(old[FnOf[n]].body) = Callees(new[FnOf[n]].body)
    BY <1>3, <2>1, SameTextSameCallees
  <2>5. ASSUME NEW k \in 1 .. Len(Callees(new[FnOf[n]].body)), NEW c \in Call,
               Makes(new, n, k, c)
        PROVE  X[c] \subseteq X0[Location(functions_old, o, k)]
    <3> DEFINE m == Location(functions_old, o, k)
    <3>1. /\ Below(functions_old, o) \in SUBSET (o + 1 .. Len(functions_old))
          /\ m \in Below(functions_old, o)
          /\ functions_old[m].fn = Callees(new[FnOf[n]].body)[k]
      BY <1>2, <2>3, <2>4, CallsBelow
    <3>2. m \in 2 .. Len(functions_old)
      BY <2>3, <3>1
    <3>3. FnOf[c] = Callees(new[FnOf[n]].body)[k]
      BY <2>5 DEF Makes
    <3> HIDE DEF m
    <3>4. OldCall(c, m)
      BY <3>1, <3>2, <3>3 DEF OldCall
    <3>5. X[c] = X0[m]
      BY <1>6, <3>4
    <3> QED
      BY <3>5 DEF m
  <2>6. Post(VersionOf(new), n, X) \subseteq OldPost(o, X0)
    BY <1>2, <2>1, <2>3, <2>4, <2>5, SameDeeds
  <2>7. OldPost(o, X0) \subseteq X0[o]
    BY <1>4, <2>3 DEF Explains
  <2> QED
    BY <1>2, <2>3, <2>6, <2>7
<1>10. X[Main] \subseteq Safe
  <2>1. OldCall(Main, 2) /\ Main \in Call
    BY <1>2, OldCallFacts, CallsAssumption DEF Main, Call
  <2>2. X[Main] = X0[2]
    BY <1>6, <2>1
  <2> QED
    BY <1>4, <2>2 DEF Explains
<1> QED
  BY <1>1, <1>7, <1>8, <1>9, <1>10 DEF PriorProof, SummaryOf

\* From there SummaryValidation starts as it may.
LEMMA LoadedStart ==
  ASSUME OnceCalled, Comparing, Load
  PROVE  /\ Start'
         /\ \A n \in Call : sumID'[n] # 0 => Has(store, sumID'[n])
         /\ \A n \in preserved' : sumID'[n] # 0 => prec'[n] = "SUMMARY"
<1>1. /\ stage = "diff" /\ result = "changed" /\ Waiting
      /\ preserved' = {n \in Call : callhistory_new[n + 1].preserved}
      /\ sumID' = [n \in Call |-> callhistory_new[n + 1].sum]
      /\ prec' = [n \in Call |-> callhistory_new[n + 1].prec]
      /\ UNCHANGED <<ver, summaries, traversal, repaired, query, houdini>>
  BY DEF Load, Comparing
<1>2. ASSUME NEW n \in Call
      PROVE  /\ n + 1 \in Done /\ sumID'[n] = callhistory_new[n + 1].sum
             /\ sumID'[n] \in Nat /\ prec'[n] \in Precision
             /\ prec'[n] = "SUMMARY" => sumID'[n] # 0
             /\ (n \in preserved' /\ sumID'[n] # 0) => prec'[n] = "SUMMARY"
             /\ sumID'[n] # 0 => /\ sumID'[n] \in DOMAIN store
                                 /\ store[sumID'[n]].fn = FnOf[n] /\ n # Main
  BY <1>1, CarriedOver
<1>3. preserved' # Call
  BY <1>1, SomeCallChanged
<1>4. TypeOK'
  <2>1. /\ sumID' \in [Call -> Nat] /\ prec' \in [Call -> Precision]
        /\ preserved' \subseteq Call
    BY <1>1, <1>2
  <2>2. /\ maxID' \in Nat \ {0} /\ DOMAIN store' \subseteq 1 .. (maxID' - 1)
        /\ store' \in [DOMAIN store' -> StoredSummary]
    BY <1>1 DEF Waiting, summaries
  <2>3. ver' \in Versions
    BY <1>1, TreeAssumption DEF Waiting, Comparing
  <2>4. /\ marked' = {} /\ repaired' = {} /\ cur' = NumCalls /\ validated' = FALSE
        /\ phase' = "pick" /\ task' = "none" /\ holds' = FALSE /\ asserted' = NotAsserted
        /\ houdini' = NoRepair
    BY <1>1 DEF Waiting, traversal, query
  <2>5. cur' \in 0 .. NumCalls /\ asserted' \in Env /\ houdini' \in Repair
        /\ phase' \in Phase /\ task' \in Task
    BY <2>4, CallsAssumption, NoRepairType DEF NotAsserted, Env, Phase, Task
  <2> QED
    BY <2>1, <2>2, <2>3, <2>4, <2>5 DEF TypeOK
<1>5. Owned'
  <2>1. sumID'[Main] = 0
    BY <1>2, CallsAssumption DEF Main, Call
  <2>2. ASSUME NEW m \in Call, NEW n \in Call, sumID'[m] = sumID'[n], sumID'[m] # 0
        PROVE  m = n
    <3>1. m + 1 = n + 1
      BY <1>2, <2>2 DEF Comparing, DiffInv, Progress
    <3> QED
      BY <3>1 DEF Call
  <2>3. store' = store
    BY <1>1 DEF summaries
  <2> QED
    BY <1>2, <2>1, <2>2, <2>3 DEF Owned
<1>6. PriorProof'
  BY LoadedProof
<1>7. /\ marked' = {} /\ cur' = NumCalls /\ validated' = FALSE
      /\ phase' = "pick" /\ task' = "none" /\ asserted' = NotAsserted'
  BY <1>1 DEF Waiting, traversal, query, NotAsserted
<1>8. Start'
  BY <1>3, <1>4, <1>5, <1>6, <1>7 DEF Start
<1>9. \A n \in preserved' : n \in Call
  BY <1>1
<1> QED
  BY <1>2, <1>8, <1>9 DEF Has

\* Where no function is called twice, the traversal starts from summaries that prove the
\* calls it will skip, whatever the revisions are and whichever calls were added, removed
\* or moved: what SummaryValidation assumes of its initial states is what do_diff leaves.
THEOREM DiffEstablishesProof == OnceCalled => (UpgradeSpec => DiffKeepsProof)
<1> SUFFICES ASSUME OnceCalled PROVE UpgradeSpec => DiffKeepsProof
  OBVIOUS
<1>1. ASSUME Comparing, [UpgradeNext]_<<vars, diffVars, stage>>, stage' # stage,
             stage' = "validate"
      PROVE  /\ PriorProof' /\ preserved' # Call
             /\ \A n \in Call : sumID'[n] # 0 => Has(store, sumID'[n])
             /\ \A n \in preserved' : sumID'[n] # 0 => prec'[n] = "SUMMARY"
  <2>1. Load
    BY <1>1 DEF UpgradeNext, Compare, Identical, Validate
  <2> QED
    BY <1>1, <2>1, LoadedStart DEF Start
<1>2. Comparing /\ [UpgradeNext]_<<vars, diffVars, stage>>
        => [stage' = "validate" =>
              /\ PriorProof' /\ preserved' # Call
              /\ \A n \in Call : sumID'[n] # 0 => Has(store, sumID'[n])
              /\ \A n \in preserved' : sumID'[n] # 0 => prec'[n] = "SUMMARY"]_stage
  BY <1>1
<1> QED
  BY <1>2, UpgradeInvariance, PTL DEF UpgradeSpec, DiffKeepsProof

-----------------------------------------------------------------------------
(***************************************************************************)
(* Diff and validation together.                                           *)
(***************************************************************************)
\* The invariant of the whole upgrade.
Upgrading == Comparing /\ (stage = "validate" => IInv)

LEMMA UpgradingStep ==
  ASSUME OnceCalled, Upgrading, [UpgradeNext]_<<vars, diffVars, stage>>
  PROVE  Upgrading'
<1>1. Comparing'
  BY UpgradeNextInvariant DEF Upgrading
<1>2. CASE Load
  <2>1. Start'
    BY <1>2, LoadedStart DEF Upgrading
  <2>2. Start' => IInv'
    BY StartInvariant, PTL
  <2> QED
    BY <1>1, <2>1, <2>2 DEF Upgrading
<1>3. CASE Validate
  <2>1. IInv /\ [Next]_vars
    BY <1>3 DEF Upgrading, Validate
  <2> QED
    BY <1>1, <2>1, NextInvariant DEF Upgrading
<1>4. CASE Compare \/ Identical
  BY <1>1, <1>4 DEF Compare, Identical, Upgrading
<1>5. CASE UNCHANGED <<vars, diffVars, stage>>
  <2>1. stage = "validate" => IInv /\ [Next]_vars
    BY <1>5 DEF Upgrading
  <2> QED
    BY <1>1, <1>5, <2>1, NextInvariant DEF Upgrading
<1> QED
  BY <1>2, <1>3, <1>4, <1>5 DEF UpgradeNext

LEMMA UpgradingInvariant == OnceCalled => (UpgradeSpec => []Upgrading)
<1> SUFFICES ASSUME OnceCalled PROVE UpgradeSpec => []Upgrading
  OBVIOUS
<1>1. UpgradeInit => Upgrading
  BY UpgradeInitInvariant DEF UpgradeInit, Upgrading
<1>2. Upgrading /\ [UpgradeNext]_<<vars, diffVars, stage>> => Upgrading'
  BY UpgradingStep
<1> QED
  BY <1>1, <1>2, PTL DEF UpgradeSpec

\* A verdict is only given by the traversal, which has seen whether main is safe.
LEMMA UpgradeVerdict == Upgrading => VerdictSound /\ VerdictExact
<1> SUFFICES ASSUME Upgrading, phase = "done" PROVE validated <=> IsSafe(ver)
  BY DEF VerdictSound, VerdictExact
<1>1. stage = "validate"
  BY DEF Upgrading, Comparing, Waiting
<1> QED
  BY <1>1 DEF Upgrading, IInv, TypeOK, Control, Verdict

\* The verdict of an upgrade is sound, from nothing but a proof of the old revision,
\* where no function is called twice: whatever changed between the revisions,
\* "Validation Done!" is only reported of one none of whose assertions can be violated.
THEOREM UpgradesAreSound == OnceCalled => (UpgradeSpec => []VerdictSound)
  BY UpgradingInvariant, UpgradeVerdict, PTL

\* And "A real bug found" is only reported of a revision that has one: what diff carried
\* over costs time when it does not fit, never a wrong alarm.
THEOREM UpgradesAreExact == OnceCalled => (UpgradeSpec => []VerdictExact)
  BY UpgradingInvariant, UpgradeVerdict, PTL
=============================================================================
