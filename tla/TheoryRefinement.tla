--------------------------- MODULE TheoryRefinement ---------------------------
(***************************************************************************)
(* theory_refiner.cpp: one assertion, checked with uninterpreted functions *)
(* (CUF) first and with bit vectors where that is too weak.                *)
(*                                                                         *)
(* The sliced equation is encoded with uninterpreted functions.  When the  *)
(* solver finds a model, expressions are encoded as bit vectors as well    *)
(* ("refined"): those the user names, all of them, or those a trace        *)
(* violates, found by walking along the expressions, until the solver      *)
(* finds no model or the trace violates none.  The trace is made from the  *)
(* model, whose values are integers only where bit vectors are bound to    *)
(* them.                                                                   *)
(***************************************************************************)
EXTENDS PartitioningSlice, FiniteSets

CONSTANTS
  Terms,    \* the expressions of every step of every equation
  Options   \* the command lines: --custom, --force, --heuristic

\* vars: the variables in the expression; binds: those whose two encodings are bound to
\* each other when it is refined, all but those of a compound condition; exact: the
\* assignments it allows; weak, bits: those its encodings with uninterpreted functions
\* and with bit vectors allow; fresh: one of them has a fresh variable in the place of
\* an operator that is not supported.
Term == [vars : SUBSET Symbol, binds : SUBSET Symbol, exact : SUBSET Assignment,
         weak : SUBSET Assignment, bits : SUBSET Assignment, fresh : BOOLEAN]

Option == [custom : SUBSET Nat, force : BOOLEAN, heuristic : Nat]

ASSUME OptionsAssumption == Options \subseteq Option

\* An encoding allows what the expression does, and looks at its variables only.
Encoded(t) ==
  /\ t.exact \subseteq t.weak \cap t.bits
  /\ t.binds \subseteq t.vars
  /\ OnlyAbout(t.bits, t.vars)

\* The store is a dummy: no call is represented by a summary.
ASSUME TermsAssumption ==
  /\ DOMAIN Terms = DOMAIN Equations
  /\ \A q \in DOMAIN Equations :
     /\ \A c \in DOMAIN Equations[q].calls : Equations[q].calls[c].rep # "summary"
     /\ DOMAIN Terms[q] = DOMAIN Equations[q].steps
     /\ \A i \in DOMAIN Terms[q] :
          /\ Terms[q][i] \in Seq(Term)
          /\ \A k \in DOMAIN Terms[q][i] : Encoded(Terms[q][i][k])
          /\ Equations[q].steps[i].allow =
               {a \in Assignment : \A k \in DOMAIN Terms[q][i] : a \in Terms[q][i][k].exact}

VARIABLES
  options,
  phase,     \* "slice", "refine", "check", "apply" or "done"
  refined,   \* expressions that are encoded as bit vectors
  weak,      \* those a trace was found to violate, and their dependents
  trace,     \* what is read of the solver's model
  left,      \* expressions the next call of check_ce walks along
  verdict    \* "pending", "holds", "fails", "unsupported" or "unknown"

refinerVars == <<options, phase, refined, weak, trace, left, verdict>>
theoryVars == <<sliceVars, refinerVars>>

-----------------------------------------------------------------------------
(***************************************************************************)
(* The expressions.                                                        *)
(***************************************************************************)

\* get_exprs_to_refine: the assignments and assertions that are not ignored; an
\* assertion with a guard has two expressions, guard = TRUE and condition = FALSE.
Exprs == UNION {{i} \X DOMAIN Terms[eq][i] : i \in kept \ Kind("assume")}

TermOf(e) == Terms[eq][e[1]][e[2]]

Less(d, e) == d[1] < e[1] \/ (d[1] = e[1] /\ d[2] < e[2])

\* The position of an expression in the vector.
Number(e) == Cardinality({d \in Exprs : Less(d, e)})

\* refine_ce_one_iter: what bit vectors allow is asserted, unless that is nothing.
Asserted(e) == IF TermOf(e).bits = {} THEN Assignment ELSE TermOf(e).bits

On(a, vars) == [x \in vars |-> a[x]]

\* The variables whose bit vectors are bound to their terms when B is refined.
Bound(B) == UNION {TermOf(e).binds : e \in B}

\* What the bit vectors that satisfy B are for the variables that are bound.
Blasted(B) ==
  {On(b, Bound(B)) : b \in {c \in Assignment : \A e \in B : c \in Asserted(e)}}

\* What the solver has: every step with uninterpreted functions, the negation of one
\* assertion, and the bit vectors of what is bound.
Formula(B) ==
  LET terms == Terms[eq]
      Weak(a, i) == \A k \in DOMAIN terms[i] : a \in terms[i][k].weak
      asserts == Kind("assert")
  IN  UNION {{a \in Assignment : /\ On(a, DOMAIN seen) = seen
                                 /\ \A i \in kept \ asserts : Weak(a, i)
                                 /\ \E i \in asserts : Weak(a, i)} : seen \in Blasted(B)}

\* A variant with a bug: the counter of fresh variables is not asked.
Unsupported_NotAsked == FALSE

\* get_refinement_failure_reason, when all expressions are refined.
Unsupported == \E i \in kept : \E k \in DOMAIN Terms[eq][i] : Terms[eq][i][k].fresh

-----------------------------------------------------------------------------
(***************************************************************************)
(* The heuristics.                                                         *)
(***************************************************************************)
Known(h)        == h \in 0..7
Forward(h)      == h \in {0, 2, 4, 6}
Multiple(h)     == h \in {2, 3, 6, 7}
Dependencies(h) == h \in {4, 5, 6, 7}

\* The direction of check_ce.
Precedes(d, e) == IF Forward(options.heuristic) THEN Less(d, e) ELSE Less(e, d)

After(e) == {d \in Exprs : Precedes(e, d)}

\* The expressions after e that are not refined and share a variable with e or with an
\* earlier one of them.
Dependents(e) ==
  LET later == After(e) \ refined
      follows[d \in later] ==
        \E c \in later \cup {e} : /\ Precedes(c, d)
                                  /\ TermOf(c).vars \cap TermOf(d).vars # {}
                                  /\ c = e \/ follows[c]
  IN  {d \in later : follows[d]}

-----------------------------------------------------------------------------
TheoryInit ==
  /\ SliceInit
  /\ options \in Options
  /\ phase = "slice" /\ verdict = "pending"
  /\ refined = {} /\ weak = {} /\ trace = {} /\ left = {}

\* slice_target
SliceTarget ==
  /\ phase = "slice"
  /\ SliceNext
  /\ UNCHANGED refinerVars

\* The solver's answer is the verdict, or the refinement goes on.
Conclude(sat, ifSat, ifUnsat) ==
  /\ verdict' = IF sat THEN ifSat ELSE ifUnsat
  /\ phase' = IF verdict' = "pending" THEN "refine" ELSE "done"

\* convert_to_formula, is_satisfiable.
Decide ==
  /\ phase = "slice" /\ Sliced
  /\ Conclude(Formula({}) # {}, "pending", "holds")
  /\ UNCHANGED <<sliceVars, options, refined, weak, trace, left>>

\* The expressions the user named that there are.
CustomExprs == {e \in Exprs : Number(e) \in options.custom}

\* A variant with a bug: refine_ce_mul says "refined" when there is nothing to refine.
StillSat_NothingRefined(is) == is # {} /\ Formula(refined \cup is) # {}

\* refine_ce_mul: it also answers true when none of the numbers is an expression.
StillSat(is) == is = {} \/ Formula(refined \cup is) # {}

\* --custom: only the named expressions are refined.
Custom ==
  /\ phase = "refine"
  /\ options.custom # {}
  /\ Conclude(StillSat(CustomExprs), "unknown", "holds")
  /\ UNCHANGED <<sliceVars, options, refined, weak, trace, left>>

\* A variant with a bug: nothing more is refined.
AllRefined_None == Formula(refined)

\* force_refine_ce: the expressions that are not refined yet.
AllRefined == Formula(Exprs)

\* "ASSERTION DOES NOT HOLD", or "ASSERTION UNKNOWN" with a reason; both are followed
\* by "VERIFICATION FAILED".
Failure == IF Unsupported THEN "unsupported" ELSE "fails"

\* --force: all expressions at once.
ForceRefine ==
  /\ phase = "refine"
  /\ options.custom = {} /\ options.force
  /\ Conclude(AllRefined # {}, Failure, "holds")
  /\ UNCHANGED <<sliceVars, options, refined, weak, trace, left>>

\* A variant with a bug: check_ce is told to stop one expression too early.
Walked_OffByOne == {e \in Exprs : Number(e) < Cardinality(Exprs) - 1}

\* A variant with a bug: assumptions are walked along as well.
Walked_Assumptions == UNION {{i} \X DOMAIN Terms[eq][i] : i \in kept}

\* What check_ce walks along; nothing with a heuristic there is no code for.
Walked == IF Known(options.heuristic) THEN Exprs ELSE {}

\* A variant with a bug: get_value never asks the bit blaster.
Read_TermsOnly(model, other) == other

\* What is read of a model.  What is bound has the value of its bit vector.  Elsewhere
\* uninterpreted values are given numbers that mean nothing, and what has no value is
\* read as zero: it may be any other value.
Read(model, other) == [x \in Symbol |-> IF x \in Bound(refined) THEN model[x] ELSE other[x]]

\* build_goto_trace_formula
BuildTrace ==
  /\ phase = "refine"
  /\ options.custom = {} /\ ~options.force
  /\ \E model \in Formula(refined), other \in Assignment : trace' = {Read(model, other)}
  /\ weak' = {}
  /\ left' = Walked
  /\ phase' = IF left' = {} THEN "apply" ELSE "check"
  /\ UNCHANGED <<sliceVars, options, refined, verdict>>

Violates(e) == ~(trace \subseteq TermOf(e).bits)

\* A variant with a bug: the result of check_ce is never taken.
LeftAfter_Same(e) == IF Multiple(options.heuristic) THEN left ELSE {}

\* What is left to walk along after e, when e is the weak one found.  Heuristics 6
\* and 7 do not take the result of check_ce (and do not end).
LeftAfter(e) ==
  CASE ~Multiple(options.heuristic)   -> {}
    [] Dependencies(options.heuristic) -> left
    [] OTHER                           -> left \cap After(e)

Found(e) == {e} \cup (IF Dependencies(options.heuristic) THEN Dependents(e) ELSE {})

\* check_ce finds the first expression the trace violates.
FindWeak(e) ==
  /\ phase = "check"
  /\ e \in left \ refined
  /\ Violates(e)
  /\ \A d \in left \ refined : Precedes(d, e) => ~Violates(d)
  /\ weak' = weak \cup Found(e)
  /\ left' = LeftAfter(e)
  /\ phase' = IF left' = {} THEN "apply" ELSE "check"
  /\ UNCHANGED <<sliceVars, options, refined, trace, verdict>>

\* check_ce finds none.
FindNone ==
  /\ phase = "check"
  /\ \A e \in left \ refined : ~Violates(e)
  /\ left' = IF options.heuristic \in {6, 7} THEN left ELSE {}
  /\ phase' = IF left' = {} THEN "apply" ELSE "check"
  /\ UNCHANGED <<sliceVars, options, refined, weak, trace, verdict>>

\* The weak expressions are refined; they and the trace are forgotten.
RefineWeak ==
  /\ phase = "apply" /\ weak # {}
  /\ refined' = refined \cup weak
  /\ Conclude(StillSat(weak), "pending", "holds")
  /\ weak' = {} /\ trace' = {}
  /\ UNCHANGED <<sliceVars, options, left>>

\* Nothing is weak: everything else is refined.
RefineRest ==
  /\ phase = "apply" /\ weak = {}
  /\ Conclude(AllRefined # {}, Failure, "holds")
  /\ UNCHANGED <<sliceVars, options, refined, weak, trace, left>>

TheoryNext ==
  \/ SliceTarget \/ Decide \/ Custom \/ ForceRefine \/ BuildTrace
  \/ \E e \in Exprs : FindWeak(e)
  \/ FindNone \/ RefineWeak \/ RefineRest

TheorySpec == TheoryInit /\ [][TheoryNext]_theoryVars /\ WF_theoryVars(TheoryNext)

-----------------------------------------------------------------------------
(***************************************************************************)
(* Properties.                                                             *)
(***************************************************************************)
TheoryTypeOK ==
  /\ SliceTypeOK
  /\ options \in Options
  /\ phase \in {"slice", "refine", "check", "apply", "done"}
  /\ verdict \in {"pending", "holds", "fails", "unsupported", "unknown"}
  /\ refined \subseteq Exprs /\ weak \subseteq Exprs /\ left \subseteq Exprs
  /\ trace \subseteq Assignment

\* "VERIFICATION SUCCESSFUL": no run of the program violates the assertion.
HoldsSound == verdict = "holds" => ~CanFail

\* "ASSERTION DOES NOT HOLD": a run of the program violates it.
FailsExact == verdict = "fails" => CanFail

\* The bit vectors of e say what its variables are in a trace.
Linked(e) == TermOf(e).vars \subseteq Bound(refined) /\ TermOf(e).bits # {}

\* check_ce passes over what is refined: rightly, as no trace violates it, whatever
\* values were invented or are missing, so that no violation is found twice.  Only the
\* variables of a compound condition may not be bound.
RefinedAreSatisfied ==
  phase \in {"check", "apply"} => \A e \in refined : Linked(e) => ~Violates(e)

\* With a heuristic there is code for, everything else is refined only when the trace
\* violates no expression, but refined ones whose variables are not bound.
NoneOverlooked ==
  [][(RefineRest /\ Known(options.heuristic))
       => \A e \in Exprs : (e \in refined => Linked(e)) => ~Violates(e)]_theoryVars

\* The refinement ends with an answer.
AnswerGiven == <>(verdict # "pending")

-----------------------------------------------------------------------------
\* The assertion is in the equation once: it is in no loop that is unrolled and in no
\* function that is called twice.
AssertsOnce(steps) ==
  \A i, j \in DOMAIN steps : steps[i].kind = "assert" /\ steps[j].kind = "assert" => i = j
SingleAssertion == \A q \in DOMAIN Equations : AssertsOnce(Equations[q].steps)

\* The assumptions of the program are encoded exactly: they are the one kind of step
\* the refiner never refines.
ExactAssumptions ==
  \A q \in DOMAIN Equations : \A i \in DOMAIN Equations[q].steps :
    Equations[q].steps[i].kind = "assume" =>
      \A k \in DOMAIN Terms[q][i] : Terms[q][i][k].weak = Terms[q][i][k].exact

\* Bit vectors are exact where every operator is supported, and uninterpreted functions
\* allow nothing either where bit vectors allow nothing.
SupportedAreExact ==
  \A q \in DOMAIN Terms : \A i \in DOMAIN Terms[q] : \A k \in DOMAIN Terms[q][i] :
    ~Terms[q][i][k].fresh =>
      /\ Terms[q][i][k].bits = Terms[q][i][k].exact
      /\ Terms[q][i][k].bits = {} => Terms[q][i][k].weak = {}

\* An assignment binds all it mentions, and what an assertion mentions has an assignment
\* if it is not bound and something is assumed of it.
AssumedAreBound ==
  \A q \in DOMAIN Equations :
    LET s == Equations[q].steps
        t == Terms[q]
        at(kind) == {i \in DOMAIN s : s[i].kind = kind}
    IN  /\ \A i \in at("assign") :
             /\ \A k \in DOMAIN t[i] : t[i][k].binds = t[i][k].vars
             /\ \E k \in DOMAIN t[i] : s[i].lhs \in t[i][k].vars
        /\ \A i \in at("assert") : \A k \in DOMAIN t[i] :
             /\ t[i][k].vars \subseteq s[i].guard \cup s[i].uses
             /\ \A j \in at("assume") : \A x \in t[i][k].vars \ t[i][k].binds :
                  x \in s[j].guard \cup s[j].uses => \E d \in at("assign") : s[d].lhs = x
=============================================================================
