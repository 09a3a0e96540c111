------------------------ MODULE PartitioningSliceProofs ------------------------
(***************************************************************************)
(* Proofs about PartitioningSlice, for every equation.                     *)
(*                                                                         *)
(* What the slice keeps is closed under definitions and needed summaries,  *)
(* so a model of the slice can be extended to the assignments and          *)
(* summaries that were dropped, one after the other in the order of the    *)
(* program, when they are in static single assignment form.                *)
(***************************************************************************)
EXTENDS PartitioningSlice, FiniteSetTheorems, TLAPS

\* What the slicer looks at are symbols and steps.
LEMMA Symbols ==
  ASSUME eq \in DOMAIN Equations
  PROVE  /\ \A i \in Steps : step[i] \in Step /\ Mentions(i) \subseteq Symbol
         /\ \A c \in DOMAIN calls : calls[c] \in CallSite
         /\ Roots \subseteq Symbol
         /\ \A id : SummaryArguments(id) \subseteq Symbol /\ Needed(id) \subseteq Steps
<1>1. step \in Seq(Step) /\ calls \in Seq(CallSite)
  BY EquationAssumption DEF step, calls
<1>2. \A i \in Steps : step[i] \in Step
  BY <1>1 DEF Steps
<1>3. \A c \in DOMAIN calls : calls[c] \in CallSite
  BY <1>1
<1>4. \A i \in Steps : Mentions(i) \subseteq Symbol
  BY <1>2 DEF Mentions, Step
<1>5. \A c \in DOMAIN calls :
       calls[c].start \in Symbol /\ calls[c].errors \subseteq Symbol /\ calls[c].args \subseteq Symbol
  BY <1>3 DEF CallSite
<1>6. Roots \subseteq Symbol
  <2>1. {calls[c].start : c \in DOMAIN calls} \subseteq Symbol
    BY <1>5
  <2>2. UNION {calls[c].errors : c \in DOMAIN calls} \subseteq Symbol
    BY <1>5
  <2> QED
    BY <1>4, <2>1, <2>2 DEF Roots, Kind
<1>7. \A id : SummaryArguments(id) \subseteq Symbol
  BY <1>5 DEF SummaryArguments
<1>8. \A id : Needed(id) \subseteq Steps
  BY DEF Needed, Definition, Assumptions, BareAssumptions, Kind
<1> QED
  BY <1>2, <1>3, <1>4, <1>6, <1>7, <1>8

LEMMA NoSummaryAsserts ==
  ASSUME eq \in DOMAIN Equations, NEW c \in DOMAIN calls, calls[c].rep = "summary"
  PROVE  ~AssertionInSubtree(calls[c])
BY EquationAssumption DEF calls

\* Every symbol that is needed is waiting to be looked at or was, and what a symbol
\* that was looked at brings in is kept.
Looked ==
  /\ Roots \subseteq depends \cup processed
  /\ Steps \ Kind("assign") \subseteq kept
  /\ \A id \in processed : /\ Needed(id) \subseteq kept
                           /\ SummaryArguments(id) \subseteq depends \cup processed
  /\ \A i \in kept \ BareAssumptions : Mentions(i) \subseteq depends \cup processed

SliceInv == SliceTypeOK /\ Looked

LEMMA SliceInitInvariant == SliceInit => SliceInv
<1> SUFFICES ASSUME SliceInit PROVE SliceInv
  OBVIOUS
<1>1. SliceTypeOK
  BY Symbols DEF SliceInit, SliceTypeOK
<1>2. \A i \in kept \ BareAssumptions : Mentions(i) \subseteq depends
  <2>1. \A i \in Steps \ Kind("assign") : i \in Kind("assert") \cup Kind("assume")
    BY Symbols DEF SliceInit, Kind, Step
  <2> QED
    <3>1. UNION {Mentions(i) : i \in Kind("assert") \cup (Kind("assume") \ BareAssumptions)}
            \subseteq depends
      BY DEF SliceInit, Roots
    <3> QED
      BY <2>1, <3>1 DEF SliceInit
<1> QED
  BY <1>1, <1>2 DEF SliceInit, SliceInv, Looked

LEMMA SliceTypeStep ==
  ASSUME SliceTypeOK, SliceNext
  PROVE  SliceTypeOK'
<1>1. PICK id \in Symbol : Take(id)
  BY DEF SliceNext
<1>2. Needed(id) \subseteq Steps /\ SummaryArguments(id) \subseteq Symbol
      /\ \A i \in Steps : Mentions(i) \subseteq Symbol
  BY Symbols DEF SliceTypeOK
<1>3. Steps' = Steps
  BY <1>1 DEF Take, Steps, step
<1> QED
  BY <1>1, <1>2, <1>3 DEF Take, SliceTypeOK, New

\* Looking at one symbol keeps the invariant.
LEMMA TakeInvariant ==
  ASSUME SliceInv, NEW id \in Symbol, Take(id)
  PROVE  SliceInv'
<1> DEFINE found == SummaryArguments(id) \cup UNION {Mentions(i) : i \in Needed(id)}
<1>1. /\ eq' = eq /\ id \in depends /\ eq \in DOMAIN Equations
      /\ processed' = processed \cup {id} /\ kept' = kept \cup Needed(id)
      /\ depends' = (depends \ {id}) \cup New(found, id)
  BY DEF Take, SliceInv, SliceTypeOK
<1> HIDE DEF found
<1>3. SliceTypeOK'
  BY SliceTypeStep DEF SliceInv, SliceNext
<1>4. depends \cup processed \cup found \subseteq depends' \cup processed'
  BY <1>1 DEF New
<1>5. /\ Roots' = Roots /\ Steps' = Steps /\ BareAssumptions' = BareAssumptions
      /\ Kind("assign")' = Kind("assign")
      /\ \A i : Mentions(i)' = Mentions(i)
      /\ \A x : Needed(x)' = Needed(x) /\ SummaryArguments(x)' = SummaryArguments(x)
  BY <1>1 DEF Roots, Steps, BareAssumptions, Kind, Mentions, Needed, Definition,
              Assumptions, SummaryArguments, step, calls
<1>6. \A i \in Needed(id) : Mentions(i) \subseteq found
  BY DEF found
<1>7. SummaryArguments(id) \subseteq found
  BY DEF found
<1>8. \A x \in processed' : Needed(x) \subseteq kept'
                            /\ SummaryArguments(x) \subseteq depends' \cup processed'
  BY <1>1, <1>4, <1>7 DEF SliceInv, Looked
<1>9. \A i \in kept' \ BareAssumptions : Mentions(i) \subseteq depends' \cup processed'
  BY <1>1, <1>4, <1>6 DEF SliceInv, Looked
<1>10. Roots \subseteq depends' \cup processed' /\ Steps \ Kind("assign") \subseteq kept'
  BY <1>1, <1>4 DEF SliceInv, Looked
<1>11. Looked'
  BY <1>5, <1>8, <1>9, <1>10 DEF Looked
<1> QED
  BY <1>3, <1>11 DEF SliceInv

LEMMA SliceNextInvariant == SliceInv /\ [SliceNext]_sliceVars => SliceInv'
<1> SUFFICES ASSUME SliceInv, [SliceNext]_sliceVars PROVE SliceInv'
  OBVIOUS
<1>1. CASE SliceNext
  BY <1>1, TakeInvariant DEF SliceNext
<1>2. CASE UNCHANGED sliceVars
  BY <1>2 DEF sliceVars, SliceInv, SliceTypeOK, Looked, Roots, Steps, BareAssumptions, Kind,
              Mentions, Needed, Definition, Assumptions, SummaryArguments, step, calls
<1> QED
  BY <1>1, <1>2

THEOREM SliceInvariance == SliceSpec => []SliceInv
BY SliceInitInvariant, SliceNextInvariant, PTL DEF SliceSpec

\* depends and processed are disjoint sets of symbols: no symbol is looked at twice.
THEOREM SliceTypeCorrect == SliceSpec => []SliceTypeOK
<1>1. SliceInv => SliceTypeOK
  BY DEF SliceInv
<1> QED
  BY <1>1, SliceInvariance, PTL

\* When the loop over depends is over, every step that is not ignored has the
\* definitions of its symbols with it, and every summary that is needed those of its
\* arguments.
THEOREM NothingDangles == SliceSpec => []NothingDangling
<1>1. SliceInv => NothingDangling
  <2> SUFFICES ASSUME SliceInv, Sliced PROVE NothingDangling
    BY DEF NothingDangling
  <2>1. \A id \in processed : Definition(id) \subseteq kept
    BY DEF SliceInv, Looked, Needed
  <2>2. \A i \in kept \ BareAssumptions : Mentions(i) \subseteq processed
    BY DEF SliceInv, Looked, Sliced
  <2>3. \A i \in kept \ BareAssumptions :
          \A id \in step[i].guard \cup step[i].uses : Definition(id) \subseteq kept
    BY <2>1, <2>2 DEF Mentions
  <2>4. ASSUME NEW c \in DOMAIN calls, calls[c].rep = "summary",
               calls[c].outs \cap processed # {}
        PROVE  \A arg \in calls[c].args : Definition(arg) \subseteq kept
    <3>1. PICK id \in processed : id \in calls[c].outs
      BY <2>4
    <3>2. calls[c].args \subseteq SummaryArguments(id)
      BY <2>4, <3>1, NoSummaryAsserts DEF SummaryArguments, SliceInv, SliceTypeOK
    <3>3. SummaryArguments(id) \subseteq processed
      BY <3>1 DEF SliceInv, Looked, Sliced
    <3> QED
      BY <2>1, <3>2, <3>3
  <2> QED
    BY <2>3, <2>4 DEF NothingDangling
<1> QED
  BY <1>1, SliceInvariance, PTL

-----------------------------------------------------------------------------
(***************************************************************************)
(* Slicing changes no verdict.                                             *)
(***************************************************************************)
\* Induction up to n, by the pigeonhole principle.
LEMMA UpTo ==
  ASSUME NEW n \in Nat, NEW N \in SUBSET (0 .. n), 0 \in N,
         \A k \in N : k < n => k + 1 \in N
  PROVE  n \in N
<1> SUFFICES ASSUME n \notin N PROVE FALSE
  OBVIOUS
<1> DEFINE f == [k \in N |-> k + 1]
<1>1. IsFiniteSet(N) /\ Cardinality(N) \in Nat
  <2>1. N \in SUBSET Nat /\ \A k \in N : k <= n
    OBVIOUS
  <2>2. IsFiniteSet(N)
    BY <2>1, FS_BoundedSetOfNaturals
  <2> QED
    BY <2>2, FS_CardinalityType
<1>2. IsFiniteSet(N \ {0}) /\ Cardinality(N \ {0}) < Cardinality(N)
  BY <1>1, FS_RemoveElement
<1>3. f \in [N -> N \ {0}]
  OBVIOUS
<1>4. \E x, y \in N : x # y /\ f[x] = f[y]
  <2> HIDE DEF f
  <2> QED
    BY <1>1, <1>2, <1>3, FS_PigeonHole
<1> QED
  BY <1>4

\* What OnlyAbout says of two assignments.
LEMMA Unaffected ==
  ASSUME NEW allow \in SUBSET Assignment, NEW vars, OnlyAbout(allow, vars),
         NEW a \in Assignment, NEW b \in Assignment, \A x \in vars : a[x] = b[x]
  PROVE  a \in allow <=> b \in allow
<1> DEFINE Seen(c) == [x \in vars |-> c[x]]
<1>1. Seen(a) = Seen(b)
  OBVIOUS
<1>2. \A c \in Assignment : Seen(c) \in {Seen(d) : d \in allow} => c \in allow
  BY DEF OnlyAbout
<1> HIDE DEF Seen
<1> QED
  BY <1>1, <1>2

\* What Determines says: an assignment can be changed at vars so that it is allowed.
LEMMA Determined ==
  ASSUME NEW allow \in SUBSET Assignment, NEW vars, Determines(allow, vars),
         NEW a \in Assignment
  PROVE  \E b \in allow : \A x \in Symbol \ vars : b[x] = a[x]
<1> DEFINE Others(c) == [x \in Symbol \ vars |-> c[x]]
<1>1. Others(a) \in {Others(c) : c \in allow}
  BY DEF Determines
<1>2. PICK b \in allow : Others(b) = Others(a)
  BY <1>1
<1>3. ASSUME NEW x \in Symbol \ vars PROVE b[x] = a[x]
  <2>1. Others(b)[x] = Others(a)[x]
    BY <1>2
  <2> QED
    BY <2>1
<1> QED
  BY <1>3

\* Constraints that determine sets of symbols one after the other, none of which is in
\* an earlier constraint, and some of them.
Chain(n, L, sets, about, allow) ==
  /\ n \in Nat /\ L \in SUBSET (1 .. n)
  /\ \A k \in 1 .. n : /\ sets[k] \subseteq Symbol /\ about[k] \subseteq Symbol
                       /\ allow[k] \in SUBSET Assignment
                       /\ OnlyAbout(allow[k], about[k]) /\ Determines(allow[k], sets[k])
  /\ \A j, k \in 1 .. n : j < k => sets[k] \cap about[j] = {}

\* Those in L have a solution that changes no symbol which none of them sets.
LEMMA InTurn ==
  ASSUME NEW n, NEW L, NEW sets, NEW about, NEW allow, Chain(n, L, sets, about, allow),
         NEW a \in Assignment
  PROVE  \E b \in Assignment :
           /\ \A x \in Symbol : (\A k \in L : x \notin sets[k]) => b[x] = a[x]
           /\ \A k \in L : b \in allow[k]
<1> USE DEF Chain
<1> DEFINE Same(b) == \A x \in Symbol : (\A k \in L : x \notin sets[k]) => b[x] = a[x]
           Upto(b, m) == \A k \in L : k <= m => b \in allow[k]
           N == {m \in 0 .. n : \E b \in Assignment : Same(b) /\ Upto(b, m)}
<1>1. 0 \in N
  <2>1. \A k \in L : ~(k <= 0)
    OBVIOUS
  <2> QED
    BY <2>1
<1>2. ASSUME NEW m \in N, m < n PROVE m + 1 \in N
  <2>1. PICK b \in Assignment : Same(b) /\ Upto(b, m)
    BY <1>2
  <2>2. m \in Nat /\ m + 1 \in 1 .. n
    BY <1>2
  <2>3. CASE m + 1 \notin L
    <3>1. \A k \in L : k <= m + 1 => k <= m
      BY <2>2, <2>3
    <3>2. Upto(b, m + 1)
      BY <2>1, <3>1
    <3> QED
      BY <2>1, <2>2, <3>2
  <2>4. CASE m + 1 \in L
    <3>1. PICK c \in allow[m + 1] : \A x \in Symbol \ sets[m + 1] : c[x] = b[x]
      BY <2>2, Determined
    <3>2. c \in Assignment
      BY <2>2, <3>1
    <3>3. Same(c)
      BY <2>1, <2>4, <3>1
    <3>4. ASSUME NEW k \in L, k <= m + 1 PROVE c \in allow[k]
      <4>1. CASE k = m + 1
        BY <4>1, <3>1
      <4>2. CASE k # m + 1
        <5>1. k \in 1 .. n /\ k <= m /\ k < m + 1
          BY <2>2, <3>4, <4>2
        <5>2. b \in allow[k] /\ about[k] \subseteq Symbol /\ sets[m + 1] \cap about[k] = {}
          BY <2>1, <2>2, <5>1
        <5>3. \A x \in about[k] : b[x] = c[x]
          BY <3>1, <5>2
        <5>4. allow[k] \in SUBSET Assignment /\ OnlyAbout(allow[k], about[k])
          BY <5>1
        <5> HIDE DEF N, Same, Upto
        <5> QED
          BY <3>2, <5>2, <5>3, <5>4, Unaffected
      <4> QED
        BY <4>1, <4>2
    <3> QED
      BY <2>2, <3>2, <3>3, <3>4
  <2> QED
    BY <2>3, <2>4
<1>3. n \in N
  <2> HIDE DEF N
  <2>1. N \in SUBSET (0 .. n)
    BY DEF N
  <2> QED
    BY <1>1, <1>2, <2>1, UpTo
<1>4. PICK b \in Assignment : Same(b) /\ Upto(b, n)
  BY <1>3
<1> QED
  BY <1>4

Summarised == {c \in DOMAIN calls : calls[c].rep = "summary"}

\* DefinerAt, for the equation that is sliced.
LEMMA DefinersOfEquation ==
  ASSUME eq \in DOMAIN Equations
  PROVE  /\ \A i \in Kind("assign") :
              /\ <<"step", i>> \in Definers(eq)
              /\ DefinerAt(eq)[<<"step", i>>].sets = {step[i].lhs}
              /\ DefinerAt(eq)[<<"step", i>>].about = About(step[i])
              /\ DefinerAt(eq)[<<"step", i>>].allow = step[i].allow
         /\ \A c \in Summarised :
              /\ <<"call", c>> \in Definers(eq)
              /\ DefinerAt(eq)[<<"call", c>>].sets = calls[c].outs
              /\ DefinerAt(eq)[<<"call", c>>].about = AboutCall(calls[c])
              /\ DefinerAt(eq)[<<"call", c>>].allow = calls[c].allow
         /\ \A d \in Definers(eq) : \/ \E i \in Kind("assign") : d = <<"step", i>>
                                    \/ \E c \in Summarised : d = <<"call", c>>
<1> DEFINE D == ({"step"} \X Kind("assign")) \cup ({"call"} \X Summarised)
           At(d) == IF d[1] = "step"
                    THEN [sets |-> {step[d[2]].lhs}, about |-> About(step[d[2]]),
                          allow |-> step[d[2]].allow]
                    ELSE [sets |-> calls[d[2]].outs, about |-> AboutCall(calls[d[2]]),
                          allow |-> calls[d[2]].allow]
<1>1. DefinerAt(eq) = [d \in D |-> At(d)]
  BY DEF DefinerAt, Kind, Summarised, Steps, step, calls
<1>2. Definers(eq) = D
  BY <1>1 DEF Definers
<1>3. \A d \in D : DefinerAt(eq)[d] = At(d)
  BY <1>1
<1>4. \A i \in Kind("assign") : <<"step", i>> \in D
  OBVIOUS
<1>5. \A c \in Summarised : <<"call", c>> \in D
  OBVIOUS
<1>6. \A i : At(<<"step", i>>) = [sets |-> {step[i].lhs}, about |-> About(step[i]),
                                  allow |-> step[i].allow]
  OBVIOUS
<1>7. \A c : At(<<"call", c>>) = [sets |-> calls[c].outs, about |-> AboutCall(calls[c]),
                                  allow |-> calls[c].allow]
  OBVIOUS
<1>8. \A d \in D : \/ \E i \in Kind("assign") : d = <<"step", i>>
                   \/ \E c \in Summarised : d = <<"call", c>>
  OBVIOUS
<1> HIDE DEF D, At
<1>9. \A i \in Kind("assign") :
        DefinerAt(eq)[<<"step", i>>] = [sets |-> {step[i].lhs}, about |-> About(step[i]),
                                        allow |-> step[i].allow]
  BY <1>3, <1>4, <1>6
<1>10. \A c \in Summarised :
        DefinerAt(eq)[<<"call", c>>] = [sets |-> calls[c].outs, about |-> AboutCall(calls[c]),
                                        allow |-> calls[c].allow]
  BY <1>3, <1>5, <1>7
<1>11. /\ \A i \in Kind("assign") : <<"step", i>> \in Definers(eq)
       /\ \A c \in Summarised : <<"call", c>> \in Definers(eq)
       /\ \A d \in Definers(eq) : \/ \E i \in Kind("assign") : d = <<"step", i>>
                                  \/ \E c \in Summarised : d = <<"call", c>>
  BY <1>2, <1>4, <1>5, <1>8
<1>12. ASSUME NEW i \in Kind("assign")
       PROVE  /\ DefinerAt(eq)[<<"step", i>>].sets = {step[i].lhs}
              /\ DefinerAt(eq)[<<"step", i>>].about = About(step[i])
              /\ DefinerAt(eq)[<<"step", i>>].allow = step[i].allow
  <2>1. DefinerAt(eq)[<<"step", i>>] = [sets |-> {step[i].lhs}, about |-> About(step[i]),
                                        allow |-> step[i].allow]
    BY <1>9, Zenon
  <2> QED
    BY <2>1
<1>13. ASSUME NEW c \in Summarised
       PROVE  /\ DefinerAt(eq)[<<"call", c>>].sets = calls[c].outs
              /\ DefinerAt(eq)[<<"call", c>>].about = AboutCall(calls[c])
              /\ DefinerAt(eq)[<<"call", c>>].allow = calls[c].allow
  <2>1. DefinerAt(eq)[<<"call", c>>] = [sets |-> calls[c].outs, about |-> AboutCall(calls[c]),
                                        allow |-> calls[c].allow]
    BY <1>10, Zenon
  <2> QED
    BY <2>1
<1> QED
  BY <1>11, <1>12, <1>13, Zenon

\* The definers the slice leaves out: dropped assignments, and summaries none of whose
\* outputs is needed.
Dropped == {d \in Definers(eq) : \/ d[1] = "step" /\ d[2] \notin kept
                                 \/ d[1] = "call" /\ calls[d[2]].outs \cap processed = {}}

\* Two definers do not set the same symbol.
LEMMA SetOnce ==
  ASSUME NEW q, NEW order \in Seq(Definers(q)), InOrder(q, order),
         \A d \in Definers(q) : DefinerAt(q)[d].sets \subseteq DefinerAt(q)[d].about,
         NEW d \in Definers(q), NEW e \in Definers(q), d # e
  PROVE  DefinerAt(q)[d].sets \cap DefinerAt(q)[e].sets = {}
<1>1. PICK j \in DOMAIN order : order[j] = d
  BY DEF InOrder
<1>2. PICK k \in DOMAIN order : order[k] = e
  BY DEF InOrder
<1>3. j < k \/ k < j
  BY <1>1, <1>2
<1> QED
  BY <1>1, <1>2, <1>3 DEF InOrder

\* No symbol that a dropped definer sets is in a step that was kept, nor in a summary
\* one of whose outputs is needed.
LEMMA KeptApart ==
  ASSUME StaticSingleAssignment, SliceInv, Sliced,
         NEW d \in Dropped, NEW x \in DefinerAt(eq)[d].sets
  PROVE  /\ \A i \in kept : x \notin About(step[i])
         /\ \A c \in Summarised : calls[c].outs \cap processed # {}
                                    => x \notin AboutCall(calls[c])
<1>1. /\ eq \in DOMAIN Equations /\ kept \subseteq Steps /\ d \in Definers(eq)
      /\ Constrained(eq)
  BY DEF SliceInv, SliceTypeOK, Dropped, StaticSingleAssignment
<1>2. PICK order \in Seq(Definers(eq)) : InOrder(eq, order)
  BY <1>1 DEF StaticSingleAssignment
<1>3. x \notin processed
  <2>1. ASSUME NEW i \in Kind("assign"), d = <<"step", i>> PROVE x \notin processed
    <3>1. x = step[i].lhs /\ i \notin kept
      BY <1>1, <2>1, DefinersOfEquation DEF Dropped
    <3>2. i \in Definition(x)
      BY <3>1 DEF Definition
    <3> QED
      BY <3>1, <3>2 DEF SliceInv, Looked, Needed
  <2>2. ASSUME NEW c \in Summarised, d = <<"call", c>> PROVE x \notin processed
    BY <1>1, <2>2, DefinersOfEquation DEF Dropped
  <2> QED
    BY <1>1, <2>1, <2>2, DefinersOfEquation
<1>4. /\ \A i \in BareAssumptions : x \notin About(step[i])
      /\ \A c \in DOMAIN calls : x # calls[c].end
  BY <1>1 DEF Constrained, BareAssumptions, Kind, Steps, step, calls
<1>5. \A e \in Definers(eq) : DefinerAt(eq)[e].sets \subseteq DefinerAt(eq)[e].about
  <2>1. \A i \in Kind("assign") : step[i].lhs \in About(step[i])
    BY DEF Kind, About
  <2>2. \A c : calls[c].outs \subseteq AboutCall(calls[c])
    BY DEF AboutCall
  <2> QED
    BY <1>1, <2>1, <2>2, DefinersOfEquation
<1>6. \A e \in Definers(eq) : e # d => x \notin DefinerAt(eq)[e].sets
  BY <1>1, <1>2, <1>5, SetOnce
<1>7. ASSUME NEW i \in kept PROVE x \notin About(step[i])
  <2>1. CASE i \in BareAssumptions
    BY <1>4, <2>1
  <2>2. CASE i \notin BareAssumptions
    <3>1. x \notin Mentions(i)
      BY <1>3, <2>2 DEF SliceInv, Looked, Sliced
    <3>2. step[i].kind = "assign" => x # step[i].lhs
      <4> SUFFICES ASSUME step[i].kind = "assign" PROVE x # step[i].lhs
        OBVIOUS
      <4>1. i \in Kind("assign")
        BY <1>1 DEF Kind
      <4>2. <<"step", i>> \in Definers(eq) /\ DefinerAt(eq)[<<"step", i>>].sets = {step[i].lhs}
        BY <1>1, <4>1, DefinersOfEquation
      <4>3. <<"step", i>> # d
        BY <1>7 DEF Dropped
      <4> QED
        BY <1>6, <4>2, <4>3
    <3> QED
      BY <3>1, <3>2 DEF About, Mentions
  <2> QED
    BY <2>1, <2>2
<1>8. ASSUME NEW c \in Summarised, calls[c].outs \cap processed # {}
      PROVE  x \notin AboutCall(calls[c])
  <2>1. c \in DOMAIN calls /\ calls[c].rep = "summary"
    BY DEF Summarised
  <2>2. calls[c].start \in processed
    BY <2>1 DEF SliceInv, Looked, Sliced, Roots
  <2>3. calls[c].args \subseteq processed
    <3>1. PICK id \in processed : id \in calls[c].outs
      BY <1>8
    <3>2. calls[c].args \subseteq SummaryArguments(id)
      BY <2>1, <3>1, NoSummaryAsserts DEF SummaryArguments, SliceInv, SliceTypeOK
    <3> QED
      BY <3>1, <3>2 DEF SliceInv, Looked, Sliced
  <2>4. x \notin calls[c].outs
    <3>1. <<"call", c>> \in Definers(eq) /\ DefinerAt(eq)[<<"call", c>>].sets = calls[c].outs
      BY <1>1, DefinersOfEquation
    <3>2. <<"call", c>> # d
      BY <1>8 DEF Dropped
    <3> QED
      BY <1>6, <3>1, <3>2
  <2> QED
    BY <1>3, <1>4, <2>1, <2>2, <2>3, <2>4 DEF AboutCall
<1> QED
  BY <1>7, <1>8

\* A model of what the slice kept can be changed where it is not looked at, so that the
\* assignments and the summaries that were dropped hold too.
LEMMA Extension ==
  ASSUME StaticSingleAssignment, SliceInv, Sliced, NEW a \in Assignment
  PROVE  \E b \in Assignment :
           /\ \A i \in kept : b \in step[i].allow <=> a \in step[i].allow
           /\ \A i \in Steps \ kept : b \in step[i].allow
           /\ \A c \in Summarised : a \in calls[c].allow => b \in calls[c].allow
<1>1. /\ eq \in DOMAIN Equations /\ kept \subseteq Steps /\ Steps \ kept \subseteq Kind("assign")
      /\ Constrained(eq)
  BY DEF SliceInv, SliceTypeOK, Looked, StaticSingleAssignment
<1>2. PICK order \in Seq(Definers(eq)) : InOrder(eq, order)
  BY <1>1 DEF StaticSingleAssignment
<1> DEFINE n == Len(order)
           D == DefinerAt(eq)
           sets == [k \in 1 .. n |-> D[order[k]].sets]
           about == [k \in 1 .. n |-> D[order[k]].about]
           allow == [k \in 1 .. n |-> D[order[k]].allow]
           L == {k \in 1 .. n : order[k] \in Dropped}
           Same(b) == \A x \in Symbol : (\A d \in Dropped : x \notin D[d].sets) => b[x] = a[x]
<1>3. n \in Nat /\ DOMAIN order = 1 .. n /\ \A k \in 1 .. n : order[k] \in Definers(eq)
  BY <1>2
<1>4. /\ \A i \in Steps : About(step[i]) \subseteq Symbol /\ step[i].allow \in SUBSET Assignment
      /\ \A i \in Kind("assign") : step[i].lhs \in Symbol
      /\ \A c \in DOMAIN calls : /\ AboutCall(calls[c]) \subseteq Symbol
                                 /\ calls[c].outs \subseteq Symbol
                                 /\ calls[c].allow \in SUBSET Assignment
  <2>1. \A i \in Steps : step[i] \in Step /\ Mentions(i) \subseteq Symbol
    BY <1>1, Symbols
  <2>2. \A i \in Steps : step[i].kind = "assign" => step[i].lhs \in Symbol
    BY <1>1, EquationAssumption DEF Steps, step
  <2>3. \A i \in Steps : About(step[i]) \subseteq Symbol
    BY <2>1, <2>2 DEF About, Mentions
  <2>4. \A c \in DOMAIN calls : calls[c] \in CallSite
    BY <1>1, Symbols
  <2> QED
    BY <2>1, <2>2, <2>3, <2>4 DEF Step, CallSite, AboutCall, Kind
<1>5. \A d \in Definers(eq) :
        /\ D[d].sets \subseteq Symbol /\ D[d].about \subseteq Symbol
        /\ D[d].allow \in SUBSET Assignment
  <2>1. Kind("assign") \subseteq Steps /\ Summarised \subseteq DOMAIN calls
    BY DEF Kind, Summarised
  <2> QED
    BY <1>1, <1>4, <2>1, DefinersOfEquation
<1>6. \A d \in Definers(eq) :
        OnlyAbout(D[d].allow, D[d].about) /\ Determines(D[d].allow, D[d].sets)
  BY <1>1 DEF Constrained
<1>7. \A j, k \in 1 .. n : j < k => sets[k] \cap about[j] = {}
  BY <1>2, <1>3 DEF InOrder
<1>8. \A k \in 1 .. n :
        /\ sets[k] \subseteq Symbol /\ about[k] \subseteq Symbol /\ allow[k] \in SUBSET Assignment
        /\ OnlyAbout(allow[k], about[k]) /\ Determines(allow[k], sets[k])
  BY <1>3, <1>5, <1>6
<1>9. \E b \in Assignment :
        /\ \A x \in Symbol : (\A k \in L : x \notin sets[k]) => b[x] = a[x]
        /\ \A k \in L : b \in allow[k]
  <2>1. Chain(n, L, sets, about, allow)
    BY <1>3, <1>7, <1>8 DEF Chain
  <2> HIDE DEF n, sets, about, allow, L
  <2> QED
    BY <2>1, InTurn
<1>10. PICK b \in Assignment :
         /\ \A x \in Symbol : (\A k \in L : x \notin sets[k]) => b[x] = a[x]
         /\ \A k \in L : b \in allow[k]
  BY <1>9
<1>11. \A d \in Dropped : \E k \in L : order[k] = d
  BY <1>2, <1>3 DEF InOrder, Dropped
<1>12. \A d \in Dropped : b \in D[d].allow
  BY <1>10, <1>11
<1>13. Same(b)
  BY <1>10
<1> HIDE DEF n, sets, about, allow, L
<1>14. ASSUME NEW i \in kept PROVE b \in step[i].allow <=> a \in step[i].allow
  <2>1. \A d \in Dropped : \A x \in D[d].sets : x \notin About(step[i])
    BY KeptApart
  <2>2. \A x \in About(step[i]) : b[x] = a[x]
    BY <1>1, <1>4, <1>13, <2>1
  <2>3. OnlyAbout(step[i].allow, About(step[i]))
    BY <1>1 DEF Constrained, Steps, step
  <2> QED
    BY <1>1, <1>4, <2>2, <2>3, Unaffected
<1>15. ASSUME NEW i \in Steps \ kept PROVE b \in step[i].allow
  <2>1. i \in Kind("assign")
    BY <1>1
  <2>2. <<"step", i>> \in Definers(eq) /\ D[<<"step", i>>].allow = step[i].allow
    BY <1>1, <2>1, DefinersOfEquation
  <2>3. <<"step", i>> \in Dropped
    BY <2>2 DEF Dropped
  <2> QED
    BY <1>12, <2>2, <2>3
<1>16. ASSUME NEW c \in Summarised, a \in calls[c].allow PROVE b \in calls[c].allow
  <2>1. /\ <<"call", c>> \in Definers(eq) /\ D[<<"call", c>>].allow = calls[c].allow
        /\ D[<<"call", c>>].about = AboutCall(calls[c])
    BY <1>1, DefinersOfEquation
  <2>2. CASE calls[c].outs \cap processed = {}
    <3>1. <<"call", c>> \in Dropped
      BY <2>1, <2>2 DEF Dropped
    <3> QED
      BY <1>12, <2>1, <3>1
  <2>3. CASE calls[c].outs \cap processed # {}
    <3>1. \A d \in Dropped : \A x \in D[d].sets : x \notin AboutCall(calls[c])
      BY <2>3, KeptApart
    <3>2. c \in DOMAIN calls
      BY DEF Summarised
    <3>3. \A x \in AboutCall(calls[c]) : b[x] = a[x]
      BY <1>4, <1>13, <3>1, <3>2
    <3>4. OnlyAbout(calls[c].allow, AboutCall(calls[c]))
      BY <1>6, <2>1
    <3> QED
      BY <1>4, <1>16, <3>2, <3>3, <3>4, Unaffected
  <2> QED
    BY <2>2, <2>3
<1> QED
  BY <1>14, <1>15, <1>16

\* SliceExact: when the slice is done, the solver finds a model of it only if the whole
\* equation has one (partitioning_slicet::slice drops no step that matters).
LEMMA SliceIsExact ==
  ASSUME StaticSingleAssignment, SliceInv
  PROVE  SliceExact
<1> SUFFICES ASSUME Sliced PROVE Allowed(kept) # {} <=> CanFail
  BY DEF SliceExact
<1>1. /\ eq \in DOMAIN Equations /\ kept \subseteq Steps
      /\ Steps \ Kind("assign") \subseteq kept
  BY DEF SliceInv, SliceTypeOK, Looked
<1>2. Kind("assert") \subseteq kept
  BY <1>1 DEF Kind
<1>3. CanFail => Allowed(kept) # {}
  BY <1>1 DEF CanFail, Allowed
<1>4. ASSUME NEW a \in Allowed(kept) PROVE CanFail
  <2>1. /\ a \in Assignment
        /\ \A i \in kept \ Kind("assert") : a \in step[i].allow
        /\ \E i \in Kind("assert") : a \in step[i].allow
        /\ \A c \in Summarised : a \in calls[c].allow
    BY DEF Allowed, Summarised
  <2>2. PICK b \in Assignment :
          /\ \A i \in kept : b \in step[i].allow <=> a \in step[i].allow
          /\ \A i \in Steps \ kept : b \in step[i].allow
          /\ \A c \in Summarised : a \in calls[c].allow => b \in calls[c].allow
    BY <2>1, Extension
  <2>3. b \in Allowed(Steps)
    BY <1>2, <2>1, <2>2 DEF Allowed, Summarised
  <2> QED
    BY <2>3 DEF CanFail
<1> QED
  BY <1>3, <1>4

THEOREM SliceChangesNothing ==
  StaticSingleAssignment => (SliceSpec => []SliceExact)
<1> SUFFICES ASSUME StaticSingleAssignment PROVE SliceSpec => []SliceExact
  OBVIOUS
<1>1. SliceInv => SliceExact
  BY SliceIsExact
<1> QED
  BY <1>1, SliceInvariance, PTL
=============================================================================
