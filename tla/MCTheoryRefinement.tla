-------------------------- MODULE MCTheoryRefinement --------------------------
(***************************************************************************)
(* Equations of a small program for TheoryRefinement:                      *)
(*                                                                         *)
(*   x := in or nondet;  g := not in;  y := g ? not x : x;                 *)
(*   assume(x);  assert(g => y or x)                                       *)
(*                                                                         *)
(* where the encoding with uninterpreted functions is exact for copies and *)
(* may be weak for the other expressions.                                  *)
(***************************************************************************)
EXTENDS TheoryRefinement, TLC

LOCAL INSTANCE SequencesExt
LOCAL INSTANCE FiniteSetsExt

MCSymbol == {"in", "x", "g", "y"}
MCValue  == {0, 1}

Where(P(_)) == {a \in Assignment : P(a)}

\* An expression all of whose variables are bound; how is "exact", "weak" (its encoding
\* with uninterpreted functions allows everything) or "unsupported" (both do).
Expression(vars, exact, how) ==
  [vars |-> vars, binds |-> vars, exact |-> exact,
   weak |-> IF how = "exact" THEN exact ELSE Assignment,
   bits |-> IF how = "unsupported" THEN Assignment ELSE exact,
   fresh |-> how = "unsupported"]

\* A condition is compound, and binds nothing, unless it is exact.
Condition(vars, exact, how) ==
  [Expression(vars, exact, how) EXCEPT !.binds = IF how = "exact" THEN vars ELSE {}]

MakeStep(kind, lhs, guard, uses, terms) ==
  [step |-> [kind |-> kind, lhs |-> lhs, guard |-> guard, uses |-> uses, bare |-> FALSE,
             allow |-> {a \in Assignment : \A k \in DOMAIN terms : a \in terms[k].exact}],
   terms |-> terms]

Assign(t, from, how, P(_)) ==
  MakeStep("assign", t, {}, from, <<Expression({t} \cup from, Where(P), how)>>)

Assumed(from, P(_)) ==
  MakeStep("assume", NoSymbol, {}, from, <<Expression(from, Where(P), "exact")>>)

\* g = TRUE, y = FALSE
AssertedIf(g, y, how) ==
  MakeStep("assert", NoSymbol, {g}, {g, y},
           <<Expression({g}, Where(LAMBDA a : a[g] = 1), "exact"),
             Condition({y}, Where(LAMBDA a : a[y] = 0), how)>>)

\* An assertion without a guard.
AssertedAlways(y, how) ==
  MakeStep("assert", NoSymbol, {}, {y}, <<Condition({y}, Where(LAMBDA a : a[y] = 0), how)>>)

\* Everything that the equations differ in: what is assumed, what is weak or unsupported.
Choice ==
  {c \in [copied : BOOLEAN, assumed : BOOLEAN, target : {"y", "x"},
          isWeak : {{"g"}, {"y"}, {"g", "y", "cond"}},
          unsupported : {{}, {"y"}, {"cond"}}] :
     c.unsupported # {} => c.isWeak = {"g"} /\ c.target = "y"}

How(c, e) ==
  IF e \in c.unsupported THEN "unsupported" ELSE IF e \in c.isWeak THEN "weak" ELSE "exact"

Made(c) ==
  <<Assign("x", {"in"}, "exact", LAMBDA a : c.copied => a["x"] = a["in"]),
    Assign("g", {"in"}, How(c, "g"), LAMBDA a : a["g"] = 1 - a["in"]),
    Assign("y", {"g", "x"}, How(c, "y"),
           LAMBDA a : a["y"] = IF a["g"] = 1 THEN 1 - a["x"] ELSE a["x"])>>
  \o (IF c.assumed THEN <<Assumed({"x"}, LAMBDA a : a["x"] = 1)>> ELSE << >>)
  \o <<AssertedIf("g", c.target, How(c, "cond"))>>

\* A loop that is unrolled twice: the assertion is there twice, for x and for y.
Unrolled ==
  <<Assign("x", {"in"}, "exact", LAMBDA a : a["x"] = a["in"]),
    AssertedAlways("x", "exact"),
    Assign("y", {"x"}, "weak", LAMBDA a : a["y"] = 1 - a["x"]),
    AssertedAlways("y", "exact")>>

EquationOf(made) == [steps |-> [i \in DOMAIN made |-> made[i].step], calls |-> << >>]
TermsOf(made) == [i \in DOMAIN made |-> made[i].terms]

\* The equations are numbered.
Chosen == FoldSet(LAMBDA c, chosen : Append(chosen, c), << >>, Choice)

MCEquations == [n \in DOMAIN Chosen |-> EquationOf(Made(Chosen[n]))]
MCTerms == [n \in DOMAIN Chosen |-> TermsOf(Made(Chosen[n]))]

UnrolledEquations == [c \in {"unrolled"} |-> EquationOf(Unrolled)]
UnrolledTerms == [c \in {"unrolled"} |-> TermsOf(Unrolled)]

\* Without calls, the equations are in static single assignment form as they stand.
ASSUME EquationsAreStaticSingleAssignment ==
  \A q \in DOMAIN Equations :
     LET order == SetToSortSeq(Definers(q), LAMBDA d, e : d[2] < e[2])
     IN  Constrained(q) /\ order \in Seq(Definers(q)) /\ InOrder(q, order)

\* What the theorems about the verdicts assume: the assertion is there once, if not
\* unrolled, nothing that is assumed is weak, and so on.
ASSUME MCEncodings == ExactAssumptions /\ SupportedAreExact /\ AssumedAreBound
ASSUME MCAssertsOnce == \A q \in DOMAIN MCEquations : AssertsOnce(MCEquations[q].steps)

\* Heuristics 6 and 7 do not end; 8 stands for the numbers without code.
MCOptions ==
  [custom : {{}}, force : {FALSE}, heuristic : (0..5) \cup {8}]
    \cup [custom : {{}, {0, 1}, {3, 4, 9}, {9}}, force : {TRUE}, heuristic : {4}]

DefaultOptions == {[custom |-> {}, force |-> FALSE, heuristic |-> 4]}
=============================================================================
