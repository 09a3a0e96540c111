------------------------ MODULE TheoryRefinementProofs ------------------------
(***************************************************************************)
(* Proofs about TheoryRefinement, for every equation, all encodings that   *)
(* over-approximate and every option.                                      *)
(***************************************************************************)
EXTENDS TheoryRefinement, PartitioningSliceProofs

\* What an expression is, and what the expressions of a step say together.
LEMMA Expressions ==
  ASSUME eq \in DOMAIN Equations
  PROVE  /\ DOMAIN Terms[eq] = Steps
         /\ \A i \in Steps : \A k \in DOMAIN Terms[eq][i] :
              Terms[eq][i][k] \in Term /\ Encoded(Terms[eq][i][k])
         /\ \A i \in Steps :
              step[i].allow =
                {a \in Assignment : \A k \in DOMAIN Terms[eq][i] : a \in Terms[eq][i][k].exact}
         /\ \A c \in DOMAIN calls : calls[c].rep # "summary"
<1>1. DOMAIN Terms[eq] = Steps
  BY TermsAssumption DEF Steps, step
<1>2. \A i \in Steps : /\ Terms[eq][i] \in Seq(Term)
                       /\ \A k \in DOMAIN Terms[eq][i] : Encoded(Terms[eq][i][k])
  BY <1>1, TermsAssumption
<1>3. \A i \in Steps : \A k \in DOMAIN Terms[eq][i] : Terms[eq][i][k] \in Term
  BY <1>2
<1> QED
  BY <1>1, <1>2, <1>3, TermsAssumption DEF Steps, step, calls

LEMMA ExprsOfKept ==
  ASSUME SliceTypeOK, NEW e \in Exprs
  PROVE  /\ e[1] \in kept \ Kind("assume") /\ e[2] \in DOMAIN Terms[eq][e[1]]
         /\ TermOf(e) \in Term /\ Encoded(TermOf(e))
         /\ TermOf(e).vars \subseteq Symbol /\ TermOf(e).binds \subseteq Symbol
<1>1. PICK i \in kept \ Kind("assume") : e \in {i} \X DOMAIN Terms[eq][i]
  BY DEF Exprs
<1>2. e[1] = i /\ e[2] \in DOMAIN Terms[eq][i]
  BY <1>1
<1>3. TermOf(e) \in Term /\ Encoded(TermOf(e))
  BY <1>1, <1>2, Expressions DEF SliceTypeOK, TermOf
<1>4. TermOf(e).vars \subseteq Symbol /\ TermOf(e).binds \subseteq Symbol
  BY <1>3 DEF Term
<1> QED
  BY <1>1, <1>2, <1>3, <1>4

Agree(a, b, vars) == \A x \in vars : a[x] = b[x]

\* What depends on vars does not change with the rest.
LEMMA SeenOnly ==
  ASSUME NEW allow, NEW vars, OnlyAbout(allow, vars),
         NEW a \in allow, NEW b \in Assignment, Agree(a, b, vars)
  PROVE  b \in allow
<1>1. [x \in vars |-> b[x]] = [x \in vars |-> a[x]]
  BY DEF Agree
<1> QED
  BY <1>1 DEF OnlyAbout

LEMMA SameOn ==
  ASSUME NEW a, NEW b, NEW vars
  PROVE  On(a, vars) = On(b, vars) <=> Agree(a, b, vars)
<1>1. ASSUME On(a, vars) = On(b, vars), NEW x \in vars PROVE a[x] = b[x]
  <2>1. On(a, vars)[x] = a[x] /\ On(b, vars)[x] = b[x]
    BY DEF On
  <2> QED
    BY <1>1, <2>1
<1> QED
  BY <1>1 DEF Agree, On

LEMMA InFormula ==
  ASSUME NEW B, NEW a
  PROVE  a \in Formula(B) <=>
           /\ a \in Assignment
           /\ \A i \in kept \ Kind("assert") :
                \A k \in DOMAIN Terms[eq][i] : a \in Terms[eq][i][k].weak
           /\ \E i \in Kind("assert") :
                \A k \in DOMAIN Terms[eq][i] : a \in Terms[eq][i][k].weak
           /\ \E b \in Assignment : /\ \A e \in B : b \in Asserted(e)
                                    /\ Agree(a, b, Bound(B))
<1>1. ASSUME NEW seen \in Blasted(B), On(a, DOMAIN seen) = seen
      PROVE  \E b \in Assignment : (\A e \in B : b \in Asserted(e)) /\ Agree(a, b, Bound(B))
  <2>1. PICK b \in Assignment : (\A e \in B : b \in Asserted(e)) /\ seen = On(b, Bound(B))
    BY DEF Blasted
  <2>2. DOMAIN seen = Bound(B)
    BY <2>1 DEF On
  <2>3. On(a, Bound(B)) = On(b, Bound(B))
    BY <1>1, <2>1, <2>2
  <2> QED
    BY <2>1, <2>3, SameOn
<1>2. ASSUME NEW b \in Assignment, \A e \in B : b \in Asserted(e), Agree(a, b, Bound(B))
      PROVE  \E seen \in Blasted(B) : On(a, DOMAIN seen) = seen
  <2>1. On(b, Bound(B)) \in Blasted(B)
    BY <1>2 DEF Blasted
  <2>2. DOMAIN On(b, Bound(B)) = Bound(B)
    BY DEF On
  <2>3. On(a, Bound(B)) = On(b, Bound(B))
    BY <1>2, SameOn
  <2> QED
    BY <2>1, <2>2, <2>3
<1>3. a \in Formula(B) <=>
           /\ a \in Assignment
           /\ \A i \in kept \ Kind("assert") :
                \A k \in DOMAIN Terms[eq][i] : a \in Terms[eq][i][k].weak
           /\ \E i \in Kind("assert") :
                \A k \in DOMAIN Terms[eq][i] : a \in Terms[eq][i][k].weak
           /\ \E seen \in Blasted(B) : On(a, DOMAIN seen) = seen
  BY DEF Formula
<1>4. (\E seen \in Blasted(B) : On(a, DOMAIN seen) = seen) <=>
        \E b \in Assignment : (\A e \in B : b \in Asserted(e)) /\ Agree(a, b, Bound(B))
  BY <1>1, <1>2
<1> QED
  BY <1>3, <1>4

LEMMA InAllowed ==
  ASSUME NEW S
  PROVE  \A a : a \in Allowed(S) <=>
           /\ a \in Assignment
           /\ \A i \in S \ Kind("assert") : a \in step[i].allow
           /\ \E i \in Kind("assert") : a \in step[i].allow
           /\ \A c \in DOMAIN calls : calls[c].rep = "summary" => a \in calls[c].allow
BY DEF Allowed

\* Refining expressions loses no run that violates the assertion.
LEMMA FormulaComplete ==
  ASSUME SingleAssertion, SliceTypeOK, NEW B \in SUBSET Exprs
  PROVE  Allowed(Steps) \subseteq Formula(B)
<1> SUFFICES ASSUME NEW a \in Allowed(Steps) PROVE a \in Formula(B)
  OBVIOUS
<1>0. eq \in DOMAIN Equations /\ kept \subseteq Steps
  BY DEF SliceTypeOK
<1>1. /\ a \in Assignment
      /\ \A i \in Steps \ Kind("assert") : a \in step[i].allow
      /\ \E i \in Kind("assert") : a \in step[i].allow
  BY InAllowed
<1>2. PICK t \in Kind("assert") : a \in step[t].allow
  BY <1>1
<1>3. \A i \in Kind("assert") : i = t
  BY <1>0 DEF SingleAssertion, AssertsOnce, Kind, Steps, step
<1>4. \A i \in Steps : a \in step[i].allow
  BY <1>1, <1>2, <1>3
<1>5. \A i \in Steps : \A k \in DOMAIN Terms[eq][i] : a \in Terms[eq][i][k].exact
  BY <1>0, <1>4, Expressions
<1>6. \A i \in Steps : \A k \in DOMAIN Terms[eq][i] :
        a \in Terms[eq][i][k].weak /\ a \in Terms[eq][i][k].bits
  BY <1>0, <1>5, Expressions DEF Encoded
<1>7. \A e \in B : a \in Asserted(e)
  BY <1>0, <1>1, <1>6, ExprsOfKept DEF TermOf, Asserted
<1>8. t \in Steps /\ Agree(a, a, Bound(B))
  BY DEF Kind, Agree
<1> QED
  BY <1>0, <1>1, <1>2, <1>6, <1>7, <1>8, InFormula

-----------------------------------------------------------------------------
(***************************************************************************)
(* The invariant.                                                          *)
(***************************************************************************)
\* Before the first query nothing is refined.
Fresh == phase = "slice" =>
           /\ refined = {} /\ weak = {} /\ left = {} /\ trace = {}
           /\ verdict = "pending"

\* While a trace is walked along: where bit vectors are bound it is what a model of the
\* solver has, and while nothing was found weak, what was passed is not violated.
Walking ==
  phase \in {"check", "apply"} =>
    /\ \E a \in Assignment, model \in Formula(refined) :
         trace = {a} /\ Agree(a, model, Bound(refined))
    /\ (weak = {} /\ Known(options.heuristic))
         => \A e \in Exprs \ (left \cup refined) : ~ Violates(e)
    /\ phase = "apply" => left = {}

TheoryInv == TheoryTypeOK /\ Fresh /\ Walking

\* Steps after the slice leave the expressions alone.
LEMMA SameEquation ==
  ASSUME UNCHANGED sliceVars
  PROVE  /\ Exprs' = Exprs
         /\ SliceTypeOK => SliceTypeOK'
         /\ CanFail' <=> CanFail
         /\ refined' = refined => /\ Formula(refined)' = Formula(refined)
                                 /\ Bound(refined)' = Bound(refined)
         /\ Unsupported' <=> Unsupported
         /\ trace' = trace => \A d : Violates(d)' <=> Violates(d)
<1>1. eq' = eq /\ depends' = depends /\ processed' = processed /\ kept' = kept
  BY DEF sliceVars
<1>2. step' = step /\ calls' = calls /\ Terms[eq]' = Terms[eq]
  BY <1>1 DEF step, calls
<1>3. Steps' = Steps
  BY <1>2 DEF Steps
<1>4. Kind("assume")' = Kind("assume") /\ Kind("assert")' = Kind("assert")
  BY <1>2, <1>3 DEF Kind
<1>5. Exprs' = Exprs
  BY <1>1, <1>2, <1>4 DEF Exprs
<1>6. CanFail' <=> CanFail
  BY <1>2, <1>3, <1>4 DEF CanFail, Allowed
<1>7. refined' = refined =>
        Formula(refined)' = Formula(refined) /\ Bound(refined)' = Bound(refined)
  <2>1. \A e : TermOf(e)' = TermOf(e) /\ Asserted(e)' = Asserted(e)
    BY <1>2 DEF TermOf, Asserted
  <2>2. refined' = refined => Bound(refined)' = Bound(refined)
    BY <2>1 DEF Bound
  <2>3. refined' = refined => Blasted(refined)' = Blasted(refined)
    BY <2>1, <2>2 DEF Blasted, On
  <2>4. ASSUME refined' = refined PROVE Formula(refined)' = Formula(refined)
    BY <1>1, <1>2, <1>4, <2>3, <2>4 DEF Formula, On
  <2> QED
    BY <2>2, <2>4
<1>8. trace' = trace => \A d : Violates(d)' <=> Violates(d)
  BY <1>2 DEF Violates, TermOf
<1>9. SliceTypeOK => SliceTypeOK'
  BY <1>1, <1>3 DEF SliceTypeOK
<1> QED
  BY <1>1, <1>2, <1>5, <1>6, <1>7, <1>8, <1>9 DEF Unsupported

LEMMA TheoryInitInvariant == TheoryInit => TheoryInv
<1> SUFFICES ASSUME TheoryInit PROVE TheoryInv
  OBVIOUS
<1>1. SliceTypeOK
  BY SliceInitInvariant DEF TheoryInit, SliceInv
<1> QED
  BY <1>1 DEF TheoryInit, TheoryInv, TheoryTypeOK, Fresh, Walking

Verdict == {"pending", "holds", "fails", "unsupported", "unknown"}

LEMMA ConcludeType ==
  ASSUME NEW sat, NEW a \in Verdict, NEW b \in Verdict, Conclude(sat, a, b)
  PROVE  verdict' \in Verdict /\ phase' \in {"refine", "done"}
BY DEF Conclude, Verdict

\* The steps of the solver.
LEMMA QueryStep ==
  ASSUME TheoryInv, Decide \/ Custom \/ ForceRefine \/ RefineWeak \/ RefineRest
  PROVE  TheoryInv'
<1>1. /\ UNCHANGED sliceVars /\ UNCHANGED options /\ UNCHANGED left
      /\ weak' \in {weak, {}} /\ trace' \in {trace, {}}
      /\ refined' = refined \/ refined' = refined \cup weak
      /\ \E sat, a, b : a \in Verdict /\ b \in Verdict /\ Conclude(sat, a, b)
  <2>1. CASE Decide
    BY <2>1 DEF Decide, Verdict
  <2>2. CASE Custom
    BY <2>2 DEF Custom, Verdict
  <2>3. CASE ForceRefine \/ RefineRest
    <3>1. Failure \in Verdict /\ "holds" \in Verdict
      BY DEF Failure, Verdict
    <3>2. Conclude(AllRefined # {}, Failure, "holds")
      BY <2>3 DEF ForceRefine, RefineRest
    <3> QED
      BY <2>3, <3>1, <3>2 DEF ForceRefine, RefineRest
  <2>4. CASE RefineWeak
    <3>1. Conclude(StillSat(weak), "pending", "holds")
      BY <2>4 DEF RefineWeak
    <3>2. "pending" \in Verdict /\ "holds" \in Verdict
      BY DEF Verdict
    <3> QED
      BY <2>4, <3>1, <3>2 DEF RefineWeak
  <2> QED
    BY <2>1, <2>2, <2>3, <2>4
<1>2. phase' \in {"refine", "done"} /\ verdict' \in Verdict
  BY <1>1, ConcludeType
<1>3. refined' \subseteq Exprs /\ weak' \subseteq Exprs /\ trace' \subseteq Assignment
  BY <1>1 DEF TheoryInv, TheoryTypeOK
<1>4. Exprs' = Exprs /\ SliceTypeOK'
  BY <1>1, SameEquation DEF TheoryInv, TheoryTypeOK
<1>5. TheoryTypeOK'
  BY <1>1, <1>2, <1>3, <1>4 DEF TheoryInv, TheoryTypeOK, Verdict
<1> QED
  BY <1>2, <1>5 DEF TheoryInv, Fresh, Walking

LEMMA TraceStep ==
  ASSUME TheoryInv, BuildTrace
  PROVE  TheoryInv'
<1>1. /\ UNCHANGED <<sliceVars, options, refined, verdict>>
      /\ weak' = {} /\ left' = Walked
      /\ phase' = IF left' = {} THEN "apply" ELSE "check"
  BY DEF BuildTrace
<1>2. PICK model \in Formula(refined), other \in Assignment : trace' = {Read(model, other)}
  BY DEF BuildTrace
<1> DEFINE a == Read(model, other)
<1>3. /\ Exprs' = Exprs /\ SliceTypeOK' /\ Formula(refined)' = Formula(refined)
      /\ Bound(refined)' = Bound(refined)
  BY <1>1, SameEquation DEF TheoryInv, TheoryTypeOK
<1>4. Bound(refined) \subseteq Symbol
  BY ExprsOfKept DEF TheoryInv, TheoryTypeOK, Bound
<1>5. a \in Assignment
  <2>1. model \in Assignment
    BY <1>2, InFormula
  <2> QED
    BY <2>1 DEF Read, Assignment
<1>6. Agree(a, model, Bound(refined))
  BY <1>4 DEF Read, Agree
<1>7. TheoryTypeOK'
  BY <1>1, <1>2, <1>3, <1>5 DEF TheoryInv, TheoryTypeOK, Walked
<1>8. Known(options.heuristic) => Exprs \ (left' \cup refined') = {}
  BY <1>1 DEF Walked
<1>9. \E b \in Assignment, m \in Formula(refined)' :
        trace' = {b} /\ Agree(b, m, Bound(refined)')
  BY <1>2, <1>3, <1>5, <1>6
<1>10. (\E b \in Assignment, m \in Formula(refined) :
          trace = {b} /\ Agree(b, m, Bound(refined)))'
  BY <1>9 DEF Agree, Assignment
<1> QED
  BY <1>1, <1>3, <1>7, <1>8, <1>10 DEF TheoryInv, Fresh, Walking

LEMMA FindStep ==
  ASSUME TheoryInv, NEW e \in Exprs, FindWeak(e)
  PROVE  TheoryInv'
<1>1. /\ UNCHANGED <<sliceVars, options, refined, trace, verdict>>
      /\ phase = "check" /\ e \in left \ refined /\ Violates(e)
      /\ left' = LeftAfter(e)
      /\ phase' = IF left' = {} THEN "apply" ELSE "check"
  BY DEF FindWeak
<1>2. weak' = weak \cup Found(e) /\ e \in Found(e) /\ Found(e) \subseteq Exprs
  BY DEF FindWeak, Found, Dependents, After
<1>3. weak' \subseteq Exprs /\ weak' # {} /\ left' \subseteq Exprs
  BY <1>1, <1>2 DEF TheoryInv, TheoryTypeOK, After, LeftAfter
<1>4. /\ Exprs' = Exprs /\ SliceTypeOK' /\ Formula(refined)' = Formula(refined)
      /\ Bound(refined)' = Bound(refined)
  BY <1>1, SameEquation DEF TheoryInv, TheoryTypeOK
<1>5. TheoryTypeOK'
  BY <1>1, <1>3, <1>4 DEF TheoryInv, TheoryTypeOK
<1> QED
  BY <1>1, <1>3, <1>4, <1>5 DEF TheoryInv, Fresh, Walking

LEMMA NoneStep ==
  ASSUME TheoryInv, FindNone
  PROVE  TheoryInv'
<1>1. /\ UNCHANGED <<sliceVars, options, refined, weak, trace, verdict>>
      /\ phase = "check" /\ left' \subseteq left
      /\ \A d \in left \ refined : ~ Violates(d)
      /\ phase' = IF left' = {} THEN "apply" ELSE "check"
  BY DEF FindNone
<1>2. /\ Exprs' = Exprs /\ SliceTypeOK' /\ Formula(refined)' = Formula(refined)
      /\ Bound(refined)' = Bound(refined) /\ \A d : Violates(d)' <=> Violates(d)
  BY <1>1, SameEquation DEF TheoryInv, TheoryTypeOK
<1>3. TheoryTypeOK'
  BY <1>1, <1>2 DEF TheoryInv, TheoryTypeOK
<1> QED
  BY <1>1, <1>2, <1>3 DEF TheoryInv, Fresh, Walking

LEMMA TheoryNextInvariant == TheoryInv /\ [TheoryNext]_theoryVars => TheoryInv'
<1> SUFFICES ASSUME TheoryInv, [TheoryNext]_theoryVars PROVE TheoryInv'
  OBVIOUS
<1>1. CASE SliceTarget
  <2>1. SliceTypeOK'
    <3>1. SliceNext /\ SliceTypeOK
      BY <1>1 DEF SliceTarget, TheoryInv, TheoryTypeOK
    <3> QED
      BY <3>1, SliceTypeStep
  <2> QED
    BY <1>1, <2>1 DEF SliceTarget, refinerVars, TheoryInv, TheoryTypeOK, Fresh, Walking
<1>2. CASE UNCHANGED theoryVars
  <2>1. UNCHANGED <<sliceVars, refinerVars>>
    BY <1>2 DEF theoryVars
  <2>2. UNCHANGED <<options, phase, refined, weak, trace, left, verdict>>
    BY <2>1 DEF refinerVars
  <2>3. /\ Exprs' = Exprs /\ SliceTypeOK' /\ Formula(refined)' = Formula(refined)
        /\ Bound(refined)' = Bound(refined) /\ \A d : Violates(d)' <=> Violates(d)
    BY <2>1, <2>2, SameEquation DEF TheoryInv, TheoryTypeOK
  <2>4. TheoryTypeOK'
    BY <2>2, <2>3 DEF TheoryInv, TheoryTypeOK
  <2> QED
    BY <2>2, <2>3, <2>4 DEF TheoryInv, Fresh, Walking
<1> QED
  BY <1>1, <1>2, QueryStep, TraceStep, FindStep, NoneStep DEF TheoryNext

\* What is refined and walked along are expressions of the slice.
THEOREM TheoryInvariance == TheorySpec => []TheoryInv
BY TheoryInitInvariant, TheoryNextInvariant, PTL DEF TheorySpec

\* TheoryTypeOK: the verdict is one of five, and what is refined, found weak or walked
\* along are expressions of what the slice kept (TheoryRefiner::assertion_holds_smt).
THEOREM TheoryTypeCorrect == TheorySpec => []TheoryTypeOK
<1>1. TheoryInv => TheoryTypeOK
  BY DEF TheoryInv
<1> QED
  BY <1>1, TheoryInvariance, PTL

-----------------------------------------------------------------------------
(***************************************************************************)
(* "VERIFICATION SUCCESSFUL".                                              *)
(***************************************************************************)
\* The verdict is "holds" only after a query that has no model.
LEMMA HoldsStep ==
  ASSUME SingleAssertion, TheoryInv, [TheoryNext]_theoryVars, HoldsSound
  PROVE  HoldsSound'
<1> SUFFICES ASSUME verdict' = "holds" PROVE ~ CanFail'
  BY DEF HoldsSound
<1>0. /\ SliceTypeOK /\ refined \subseteq Exprs /\ weak \subseteq Exprs
      /\ CustomExprs \subseteq Exprs
  BY DEF TheoryInv, TheoryTypeOK, CustomExprs
<1>1. \A B \in SUBSET Exprs : Formula(B) = {} => ~ CanFail
  BY <1>0, FormulaComplete DEF CanFail
<1>2. CASE UNCHANGED <<sliceVars, verdict>>
  BY <1>2, SameEquation DEF HoldsSound
<1>3. ASSUME UNCHANGED sliceVars, NEW B \in SUBSET Exprs, Formula(B) = {}
      PROVE  ~ CanFail'
  BY <1>1, <1>3, SameEquation
<1>4. CASE Decide
  <2>1. Formula({}) = {} /\ UNCHANGED sliceVars
    BY <1>4 DEF Decide, Conclude
  <2> QED
    BY <2>1, <1>3
<1>5. CASE Custom
  <2>1. Formula(refined \cup CustomExprs) = {} /\ UNCHANGED sliceVars
    BY <1>5 DEF Custom, Conclude, StillSat
  <2> QED
    BY <2>1, <1>0, <1>3
<1>6. CASE ForceRefine \/ RefineRest
  <2>1. Formula(Exprs) = {} /\ UNCHANGED sliceVars
    BY <1>6 DEF ForceRefine, RefineRest, Conclude, AllRefined, Failure
  <2> QED
    BY <2>1, <1>3
<1>7. CASE RefineWeak
  <2>1. Formula(refined \cup weak) = {} /\ UNCHANGED sliceVars
    BY <1>7 DEF RefineWeak, Conclude, StillSat
  <2> QED
    BY <2>1, <1>0, <1>3
<1>8. CASE SliceTarget
  <2>1. verdict = "pending" /\ verdict' = verdict
    BY <1>8 DEF SliceTarget, refinerVars, TheoryInv, Fresh
  <2> QED
    BY <2>1
<1>9. CASE BuildTrace \/ (\E e \in Exprs : FindWeak(e)) \/ FindNone
  BY <1>2, <1>9 DEF BuildTrace, FindWeak, FindNone
<1>10. CASE UNCHANGED theoryVars
  BY <1>2, <1>10 DEF theoryVars, refinerVars
<1> QED
  BY <1>4, <1>5, <1>6, <1>7, <1>8, <1>9, <1>10 DEF TheoryNext

\* HoldsSound: the refiner says "VERIFICATION SUCCESSFUL" only when no run violates
\* the assertion, for every over-approximating encoding, slice and option - when the
\* assertion stands in the equation once.
THEOREM HoldsIsSound == SingleAssertion => (TheorySpec => []HoldsSound)
<1> SUFFICES ASSUME SingleAssertion PROVE TheorySpec => []HoldsSound
  OBVIOUS
<1>1. TheoryInit => HoldsSound
  BY DEF TheoryInit, HoldsSound
<1>2. TheoryInv /\ HoldsSound /\ [TheoryNext]_theoryVars => HoldsSound'
  BY HoldsStep
<1> QED
  BY <1>1, <1>2, TheoryInvariance, PTL DEF TheorySpec

-----------------------------------------------------------------------------
(***************************************************************************)
(* The traces.                                                             *)
(***************************************************************************)
\* No trace violates a refined expression all of whose variables are bound: the bit
\* vectors it is read from satisfy the expression, and the expression looks at nothing
\* else.
LEMMA RefinedHold ==
  ASSUME TheoryInv, phase \in {"check", "apply"}, NEW e \in refined, Linked(e)
  PROVE  ~ Violates(e)
<1>1. PICK a \in Assignment, model \in Formula(refined) :
        trace = {a} /\ Agree(a, model, Bound(refined))
  BY DEF TheoryInv, Walking
<1>2. PICK b \in Assignment : /\ \A d \in refined : b \in Asserted(d)
                             /\ Agree(model, b, Bound(refined))
  BY <1>1, InFormula
<1>3. b \in TermOf(e).bits
  BY <1>2 DEF Linked, Asserted
<1>4. Agree(b, a, TermOf(e).vars)
  BY <1>1, <1>2 DEF Agree, Linked
<1>5. OnlyAbout(TermOf(e).bits, TermOf(e).vars)
  BY ExprsOfKept DEF TheoryInv, TheoryTypeOK, Encoded
<1>6. a \in TermOf(e).bits
  BY <1>1, <1>3, <1>4, <1>5, SeenOnly
<1> QED
  BY <1>1, <1>6 DEF Violates

\* RefinedAreSatisfied: whatever values get_value and build_goto_trace_formula invent or
\* leave out, check_ce passes over no refined expression that the trace violates, but a
\* compound condition whose variables are not bound.
THEOREM RefinedAreNotViolated == TheorySpec => []RefinedAreSatisfied
<1>1. TheoryInv => RefinedAreSatisfied
  BY RefinedHold DEF RefinedAreSatisfied
<1> QED
  BY <1>1, TheoryInvariance, PTL

\* NoneOverlooked: the walks of check_ce, each from where the last one stopped and in
\* either direction, miss no expression the trace violates before everything is refined.
THEOREM WalkMissesNone == TheorySpec => NoneOverlooked
<1>1. ASSUME TheoryInv, RefineRest, Known(options.heuristic),
             NEW e \in Exprs, e \in refined => Linked(e)
      PROVE  ~ Violates(e)
  <2>1. phase = "apply" /\ weak = {} /\ left = {}
    BY <1>1 DEF RefineRest, TheoryInv, Walking
  <2>2. CASE e \in refined
    BY <1>1, <2>1, <2>2, RefinedHold
  <2>3. CASE e \notin refined
    BY <1>1, <2>1, <2>3 DEF TheoryInv, Walking
  <2> QED
    BY <2>2, <2>3
<1>2. TheoryInv =>
        [(RefineRest /\ Known(options.heuristic))
           => \A e \in Exprs : (e \in refined => Linked(e)) => ~ Violates(e)]_theoryVars
  BY <1>1
<1> QED
  BY <1>2, TheoryInvariance, PTL DEF NoneOverlooked

-----------------------------------------------------------------------------
(***************************************************************************)
(* "VERIFICATION FAILED".                                                  *)
(***************************************************************************)
\* What bit vectors allow for every refined expression is a run of the slice, but for
\* what is assumed: every operator is supported, so each expression is exact.
LEMMA RefinedExact ==
  ASSUME SupportedAreExact, SliceInv, ~ Unsupported,
         NEW a \in Formula(Exprs), NEW b \in Assignment, \A e \in Exprs : b \in Asserted(e)
  PROVE  /\ \A i \in Kind("assign") \cap kept : b \in step[i].allow
         /\ \E i \in Kind("assert") : b \in step[i].allow
<1>0. /\ eq \in DOMAIN Equations /\ kept \subseteq Steps /\ eq \in DOMAIN Terms
      /\ Steps \ Kind("assign") \subseteq kept
  BY TermsAssumption DEF SliceInv, SliceTypeOK, Looked
<1>1. ASSUME NEW i \in kept \ Kind("assume"),
             \A k \in DOMAIN Terms[eq][i] : a \in Terms[eq][i][k].weak
      PROVE  b \in step[i].allow
  <2>1. ASSUME NEW k \in DOMAIN Terms[eq][i] PROVE b \in Terms[eq][i][k].exact
    <3>1. <<i, k>> \in {i} \X DOMAIN Terms[eq][i]
      OBVIOUS
    <3>2. <<i, k>> \in Exprs /\ TermOf(<<i, k>>) = Terms[eq][i][k]
      BY <3>1 DEF Exprs, TermOf
    <3>3. ~ Terms[eq][i][k].fresh
      BY DEF Unsupported
    <3>4. /\ Terms[eq][i][k].bits = Terms[eq][i][k].exact
          /\ Terms[eq][i][k].bits = {} => Terms[eq][i][k].weak = {}
      BY <1>0, <3>3, Expressions DEF SupportedAreExact
    <3>5. Terms[eq][i][k].bits # {}
      BY <1>1, <3>4
    <3>6. b \in Asserted(<<i, k>>)
      BY <3>2
    <3> QED
      BY <3>2, <3>4, <3>5, <3>6 DEF Asserted
  <2> QED
    BY <1>0, <2>1, Expressions
<1>2. Kind("assign") \cap Kind("assert") = {} /\ Kind("assign") \cap Kind("assume") = {}
  BY DEF Kind
<1>3. Kind("assert") \subseteq kept \ Kind("assume")
  BY <1>0 DEF Kind
<1> QED
  BY <1>1, <1>2, <1>3, InFormula

\* A variable of an expression about which something is assumed is bound.
LEMMA AssumedBound ==
  ASSUME AssumedAreBound, SliceInv, Sliced,
         NEW j \in Kind("assume"), NEW x \in Mentions(j),
         NEW e \in Exprs, x \in TermOf(e).vars
  PROVE  x \in Bound(Exprs)
<1>0. /\ eq \in DOMAIN Equations /\ kept \subseteq Steps
      /\ \A i \in Steps : step[i] \in Step /\ Mentions(i) \subseteq Symbol
      /\ DOMAIN Terms[eq] = Steps
  BY Symbols, Expressions DEF SliceInv, SliceTypeOK
<1>1. /\ e[1] \in kept \ Kind("assume") /\ e[2] \in DOMAIN Terms[eq][e[1]]
      /\ TermOf(e) = Terms[eq][e[1]][e[2]]
  BY ExprsOfKept DEF SliceInv, TermOf
<1>2. e[1] \in Kind("assign") \/ e[1] \in Kind("assert")
  BY <1>0, <1>1 DEF Kind, Step
<1>3. /\ \A i \in Kind("assign") :
           /\ \A k \in DOMAIN Terms[eq][i] : Terms[eq][i][k].binds = Terms[eq][i][k].vars
           /\ \E k \in DOMAIN Terms[eq][i] : step[i].lhs \in Terms[eq][i][k].vars
      /\ \A i \in Kind("assert") : \A k \in DOMAIN Terms[eq][i] :
           /\ Terms[eq][i][k].vars \subseteq Mentions(i)
           /\ x \in Terms[eq][i][k].vars \ Terms[eq][i][k].binds => Definition(x) # {}
  BY <1>0 DEF AssumedAreBound, Kind, Steps, step, Mentions, Definition
<1>4. ASSUME NEW d \in Exprs, x \in TermOf(d).binds PROVE x \in Bound(Exprs)
  BY <1>4 DEF Bound
<1>5. CASE x \in TermOf(e).binds
  BY <1>4, <1>5
<1>6. CASE x \notin TermOf(e).binds
  <2>1. e[1] \in Kind("assert") /\ x \in Mentions(e[1]) /\ Definition(x) # {}
    BY <1>1, <1>2, <1>3, <1>6
  <2>2. x \in processed
    <3>1. e[1] \in kept \ BareAssumptions
      BY <1>1, <2>1 DEF BareAssumptions
    <3> QED
      BY <2>1, <3>1 DEF SliceInv, Looked, Sliced
  <2>3. PICK d \in Definition(x) : d \in kept
    BY <2>1, <2>2 DEF SliceInv, Looked, Needed
  <2>4. d \in Kind("assign") /\ step[d].lhs = x
    BY <2>3 DEF Definition
  <2>5. PICK k \in DOMAIN Terms[eq][d] : x \in Terms[eq][d][k].binds
    BY <1>3, <2>4
  <2>6. <<d, k>> \in {d} \X DOMAIN Terms[eq][d] /\ d \in kept \ Kind("assume")
    BY <2>3, <2>4 DEF Kind
  <2>7. <<d, k>> \in Exprs /\ TermOf(<<d, k>>) = Terms[eq][d][k]
    BY <2>6 DEF Exprs, TermOf
  <2> QED
    BY <1>4, <2>5, <2>7
<1> QED
  BY <1>5, <1>6

\* With every expression refined and no operator that is not supported, a model of the
\* formula gives a run of the slice: the bit vectors for the variables of the
\* expressions, the model for all others.
LEMMA FormulaExact ==
  ASSUME ExactAssumptions, SupportedAreExact, AssumedAreBound, StaticSingleAssignment,
         SliceInv, Sliced, ~ Unsupported, Formula(Exprs) # {}
  PROVE  Allowed(kept) # {}
<1>0. /\ eq \in DOMAIN Equations /\ kept \subseteq Steps
      /\ Steps \ Kind("assign") \subseteq kept /\ SliceTypeOK
  BY DEF SliceInv, SliceTypeOK, Looked
<1>1. PICK a : a \in Formula(Exprs)
  OBVIOUS
<1>2. /\ a \in Assignment
      /\ \A i \in kept \ Kind("assert") :
           \A k \in DOMAIN Terms[eq][i] : a \in Terms[eq][i][k].weak
  BY <1>1, InFormula
<1>3. PICK b \in Assignment : /\ \A e \in Exprs : b \in Asserted(e)
                             /\ Agree(a, b, Bound(Exprs))
  BY <1>1, InFormula
<1> DEFINE vars == UNION {TermOf(e).vars : e \in Exprs}
           c == [x \in Symbol |-> IF x \in vars THEN b[x] ELSE a[x]]
<1>4. c \in Assignment
  BY <1>2, <1>3 DEF Assignment
<1>5. \A e \in Exprs : c \in Asserted(e)
  <2> SUFFICES ASSUME NEW e \in Exprs, TermOf(e).bits # {} PROVE c \in TermOf(e).bits
    BY <1>4 DEF Asserted
  <2>1. b \in TermOf(e).bits
    BY <1>3 DEF Asserted
  <2>2. TermOf(e).vars \subseteq Symbol /\ OnlyAbout(TermOf(e).bits, TermOf(e).vars)
    BY <1>0, ExprsOfKept DEF Encoded
  <2>3. Agree(b, c, TermOf(e).vars)
    BY <2>2 DEF Agree
  <2> QED
    BY <1>4, <2>1, <2>2, <2>3, SeenOnly
<1>6. /\ \A i \in Kind("assign") \cap kept : c \in step[i].allow
      /\ \E i \in Kind("assert") : c \in step[i].allow
  BY <1>1, <1>4, <1>5, RefinedExact
<1>7. ASSUME NEW j \in Kind("assume") PROVE c \in step[j].allow
  <2>1. j \in Steps /\ j \in kept \ Kind("assert")
    BY <1>0 DEF Kind
  <2>2. \A k \in DOMAIN Terms[eq][j] : Terms[eq][j][k].weak = Terms[eq][j][k].exact
    BY <1>0, <2>1 DEF ExactAssumptions, Kind, Steps, step
  <2>3. a \in step[j].allow
    BY <1>0, <1>2, <2>1, <2>2, Expressions
  <2>4. OnlyAbout(step[j].allow, Mentions(j))
    <3>1. OnlyAbout(step[j].allow, About(step[j]))
      BY <1>0, <2>1 DEF StaticSingleAssignment, Constrained, Steps, step
    <3>2. About(step[j]) = Mentions(j)
      BY DEF About, Mentions, Kind
    <3> QED
      BY <3>1, <3>2
  <2>5. Agree(a, c, Mentions(j))
    <3> SUFFICES ASSUME NEW x \in Mentions(j) PROVE a[x] = c[x]
      BY DEF Agree
    <3>1. x \in Symbol
      BY <1>0, <2>1, Symbols
    <3>2. x \in vars => x \in Bound(Exprs)
      BY AssumedBound
    <3> QED
      BY <1>3, <3>1, <3>2 DEF Agree
  <2> QED
    BY <1>4, <2>3, <2>4, <2>5, SeenOnly
<1>8. \A i \in kept \ Kind("assert") : c \in step[i].allow
  <2>1. \A i \in kept \ Kind("assert") : i \in Kind("assign") \/ i \in Kind("assume")
    BY <1>0, Symbols DEF Kind, Step
  <2> QED
    BY <1>6, <1>7, <2>1
<1>9. c \in Allowed(kept)
  BY <1>0, <1>4, <1>6, <1>8, Expressions, InAllowed
<1> QED
  BY <1>9

\* The slice is done before the first query, and has a run that violates the
\* assertion.
FailsOnSlice == /\ phase # "slice" => Sliced
                /\ verdict = "fails" => phase # "slice" /\ Allowed(kept) # {}

LEMMA FailsStep ==
  ASSUME ExactAssumptions, SupportedAreExact, AssumedAreBound, StaticSingleAssignment,
         TheoryInv, SliceInv, FailsOnSlice, [TheoryNext]_theoryVars
  PROVE  SliceInv' /\ FailsOnSlice'
<1>0. (Sliced /\ ~ Unsupported /\ Formula(Exprs) # {}) => Allowed(kept) # {}
  BY FormulaExact
<1>1. ASSUME UNCHANGED sliceVars
      PROVE  /\ SliceInv' /\ Allowed(kept)' = Allowed(kept)
             /\ Sliced' <=> Sliced
  <2>1. SliceInv'
    BY <1>1, SliceNextInvariant
  <2>2. eq' = eq /\ kept' = kept /\ depends' = depends
    BY <1>1 DEF sliceVars
  <2> QED
    BY <2>1, <2>2 DEF Allowed, Kind, Steps, step, calls, Sliced
<1>2. CASE SliceTarget
  <2>1. SliceInv'
    BY <1>2, SliceNextInvariant DEF SliceTarget
  <2>2. verdict' = "pending" /\ phase' = "slice"
    BY <1>2 DEF SliceTarget, refinerVars, TheoryInv, Fresh
  <2> QED
    BY <2>1, <2>2 DEF FailsOnSlice
<1>3. CASE ForceRefine \/ RefineRest
  <2>1. /\ UNCHANGED sliceVars /\ phase # "slice" /\ phase' # "slice"
        /\ verdict' = "fails" => Formula(Exprs) # {} /\ ~ Unsupported
    BY <1>3 DEF ForceRefine, RefineRest, Conclude, AllRefined, Failure
  <2> QED
    BY <2>1, <1>0, <1>1 DEF FailsOnSlice
<1>4. CASE Decide \/ Custom \/ RefineWeak
  <2>1. UNCHANGED sliceVars /\ verdict' # "fails" /\ (phase # "slice" \/ Sliced)
    BY <1>4 DEF Decide, Custom, RefineWeak, Conclude
  <2> QED
    BY <2>1, <1>1 DEF FailsOnSlice
<1>5. CASE BuildTrace \/ (\E e \in Exprs : FindWeak(e)) \/ FindNone \/ UNCHANGED theoryVars
  <2>1. /\ UNCHANGED sliceVars /\ UNCHANGED verdict
        /\ phase' = phase \/ (phase # "slice" /\ phase' # "slice")
    BY <1>5 DEF BuildTrace, FindWeak, FindNone, theoryVars, refinerVars
  <2> QED
    BY <2>1, <1>1 DEF FailsOnSlice
<1> QED
  BY <1>2, <1>3, <1>4, <1>5 DEF TheoryNext

\* FailsExact: the refiner says "ASSERTION DOES NOT HOLD", without the reason it gives
\* when an operator is not supported, only of a program that has a run that violates the
\* assertion, for every option: when the equation is in SSA form, what is supported is
\* encoded exactly as bit vectors, the assumptions are encoded exactly, and what they
\* mention is bound.
THEOREM FailsIsExact ==
  (ExactAssumptions /\ SupportedAreExact /\ AssumedAreBound /\ StaticSingleAssignment)
    => (TheorySpec => []FailsExact)
<1> SUFFICES ASSUME ExactAssumptions, SupportedAreExact, AssumedAreBound,
                    StaticSingleAssignment
             PROVE  TheorySpec => []FailsExact
  OBVIOUS
<1>1. TheoryInit => SliceInv /\ FailsOnSlice
  BY SliceInitInvariant DEF TheoryInit, FailsOnSlice
<1>2. TheoryInv /\ (SliceInv /\ FailsOnSlice) /\ [TheoryNext]_theoryVars
        => (SliceInv /\ FailsOnSlice)'
  BY FailsStep
<1>3. SliceInv /\ FailsOnSlice => FailsExact
  BY SliceIsExact DEF FailsOnSlice, SliceExact, FailsExact
<1> QED
  BY <1>1, <1>2, <1>3, TheoryInvariance, PTL DEF TheorySpec
=============================================================================
