------------------------- MODULE SummaryValidation -------------------------
(***************************************************************************)
(* upprover/summary_validation.cpp: the check of one new revision of a     *)
(* program against the summaries of the calls of the previous one.         *)
(*                                                                         *)
(* call_graph_traversal walks the calls from the last to main.  A call     *)
(* whose body changed, or whose callee lost its summary, must still imply  *)
(* its summary (validate_node, validate_summary); if it does not, the      *)
(* summary is weakened (Houdini) or dropped and the caller is checked too. *)
(* When that reaches main, the assertions themselves are checked.          *)
(*                                                                         *)
(* One query of the solver is a loop: the subtree of the call is encoded,  *)
(* some calls by their summaries; a counterexample that goes through such  *)
(* a call makes it inlined (refined); a proof gives every inlined call a   *)
(* new summary (extract_interpolants).                                     *)
(***************************************************************************)
EXTENDS CallTreePrograms

CONSTANTS
  Logic,      \* the --logic option
  Lang        \* the formulas the interpolator answers with

ASSUME LogicAssumption == Logic \in {"prop", "qfuf", "qflra", "qflia"}
\* The interpolator can express every set of behaviours.
ASSUME LangAssumption  == /\ Lang \subseteq Formula
                          /\ \A S \in SUBSET Val : \E f \in Lang : Models(f) = S

VARIABLES
  ver,        \* the revision being checked (goto_model)
  preserved,  \* calls that diff found unchanged (preserved_node)
  sumID,      \* node_summaryID of each call; 0 for none
  prec,       \* how each call is encoded (precision)
  store,      \* summary_store: the live summaries by id; indexed: the id is
              \* in id_to_summary
  maxID,      \* summary_store->max_id: the next id
  marked,     \* marked_to_check
  repaired,   \* repaired_nodes: function names
  cur,        \* the call the traversal is at; 0 when it is over
  validated,  \* the verdict of the last call checked
  phase,      \* where in the code the checker is
  task,       \* what the current query is for
  holds,      \* the answer of the last query
  asserted,   \* what the summaries put in the solver since reset_solver allow
  houdini     \* the repair in progress in validate_node

callTree == <<sumID, prec>>
summaries == <<store, maxID>>
traversal == <<marked, cur, validated>>
query == <<phase, task, holds, asserted>>
vars == <<ver, preserved, callTree, summaries, traversal, repaired, query,
          houdini>>

Precision == {"HAVOC", "SUMMARY", "INLINE"}
Phase == {"pick", "prepare", "solve", "answer", "repair", "done"}
Task  == {"none", "full", "conjunct", "disjunct", "main"}

\* full: the summary being weakened; conjuncts: those still to be tried;
\* valid: those that passed; disjuncts: those still to be weakened;
\* left: what is left of the disjunct being weakened; dropped: what is not.
Repair == [full : Formula, conjuncts : SUBSET Atom, valid : SUBSET Atom,
           disjuncts : SUBSET Cube, left : SUBSET Atom, dropped : SUBSET Atom]
NoRepair == [full |-> {}, conjuncts |-> {}, valid |-> {}, disjuncts |-> {},
             left |-> {}, dropped |-> {}]

\* nodet: a summary of the store.
StoredSummary == [fn : Fn, fla : Formula, indexed : BOOLEAN]

NotAsserted == [n \in Call |-> Val]

-----------------------------------------------------------------------------
(***************************************************************************)
(* The summary store, as validate_node and validate_summary use it.        *)
(***************************************************************************)
Has(st, id) == id \in DOMAIN st

\* summary_storet::id_exists
Exists(st, id) == id \in DOMAIN st /\ st[id].indexed

Plus(st, id, fn, f) ==
  [k \in DOMAIN st \cup {id} |->
     IF k = id THEN [fn |-> fn, fla |-> f, indexed |-> TRUE] ELSE st[k]]

\* The calls of DOMAIN ids get the summaries fla under those ids.
PlusAll(st, ids, fla, inIndex) ==
  [k \in DOMAIN st \cup {ids[n] : n \in DOMAIN ids} |->
     IF k \in DOMAIN st THEN st[k]
     ELSE LET n == CHOOSE n \in DOMAIN ids : ids[n] = k
          IN  [fn |-> FnOf[n], fla |-> fla[n], indexed |-> inIndex]]

\* A variant with a bug: nothing is removed.
Minus_Nothing(st, ids) == st
\* A variant with a bug: every summary of the function goes.
Minus_Homonyms(st, ids) ==
  [k \in {j \in DOMAIN st \ ids : \A i \in ids \cap DOMAIN st : st[i].fn # st[j].fn}
     |-> st[k]]
Minus(st, ids) == [k \in DOMAIN st \ ids |-> st[k]]

\* A variant with a bug: the precision is not reset.
DropID_KeepsPrecision(n, id) ==
  IF sumID[n] = id THEN sumID' = [sumID EXCEPT ![n] = 0] /\ UNCHANGED prec
                   ELSE UNCHANGED callTree

\* call_tree_nodet::remove_node_sumID
DropID(n, id) ==
  IF sumID[n] = id THEN /\ sumID' = [sumID EXCEPT ![n] = 0]
                        /\ prec'  = [prec EXCEPT ![n] = "INLINE"]
                   ELSE UNCHANGED callTree

SummaryOf(n) == store[sumID[n]].fla

(***************************************************************************)
(* The formula of a query rooted at call n.                                *)
(***************************************************************************)
\* The calls symex makes a partition for: n, and the calls in the bodies it
\* expands, those of n and of the calls that are inlined.
Expanded(n, m) == m = n \/ prec[m] = "INLINE"
Partitions(n) ==
  {m \in Call :
     \A S \in SUBSET Call :
        (/\ n \in S
         /\ \A k \in Call : (Parent[k] \in S /\ Expanded(n, Parent[k])) => k \in S)
        => m \in S}

Abstract(n)   == {m \in Partitions(n) : ~ Expanded(n, m)}
Summarized(n) == {m \in Abstract(n) : prec[m] = "SUMMARY"}
Inlined(n)    == {m \in Partitions(n) \ {n} : prec[m] = "INLINE"}

\* What an abstract partition allows: the stub of a HAVOC call anything, a
\* summary its models.  A summary asserted earlier in this query stays asserted
\* (the solver is not reset between the iterations of the loop), also when the
\* call was inlined since.
Abstraction(m) ==
  asserted[m] \cap (IF prec[m] = "SUMMARY" THEN Models(SummaryOf(m)) ELSE Val)
Expansion(m, X) == asserted[m] \cap Post(ver, m, X)

\* The conclusion of the query: the assertions, or the summary of cur.
Goal == IF task = "main" THEN Safe ELSE Models(SummaryOf(cur))

\* The environment of a query: Y is claimed of the inlined calls, the calls of
\* used are abstract, and no other abstract call is made.
QueryEnv(Y, used) ==
  [m \in Call |-> CASE m = cur           -> Goal
                    [] m \in Inlined(cur) -> Y[m]
                    [] m \in used         -> Abstraction(m)
                    [] OTHER              -> {}]

\* Y is a proof of the conclusion, for executions that only make those calls.
Proof(Y, used) ==
  LET X == QueryEnv(Y, used)
  IN  \A m \in Inlined(cur) \cup {cur} : Expansion(m, X) \subseteq X[m]

\* A variant with a bug: every model counts as one that no refinement can rule out.
Counterexample_Unrefined(used) ==
  ~ \E Y \in [Inlined(cur) -> SUBSET Val] : Proof(Y, Abstract(cur))

\* The formula has a model in which the abstract calls whose callstart literal
\* is true are among used.
Counterexample(used) ==
  ~ \E Y \in [Inlined(cur) -> SUBSET Val] : Proof(Y, used)

-----------------------------------------------------------------------------
(***************************************************************************)
(* The traversal starts from what the previous revision left: every call   *)
(* has at most one summary, and the summaries prove the assertions for the *)
(* bodies that diff found unchanged.                                       *)
(***************************************************************************)
PriorProof ==
  \E X \in Env :
     /\ \A n \in Call : sumID[n] # 0 => X[n] = Models(SummaryOf(n))
     /\ \A n \in preserved : Post(ver, n, X) \subseteq X[n]
     /\ Main \in preserved => X[Main] \subseteq Safe

\* The ids of the summaries of the calls in S, in the order of their partitions.
Numbered(S, first) == [n \in S |-> first + Cardinality({k \in S : k < n})]

\* An interpolant that extract_interpolants does not store (itpt::is_trivial is
\* constantly false for the SMT logics).
Trivial(f) == Logic = "prop" /\ IsConstant(f)

\* Whether reading the summary file fills id_to_summary: the SMT stores insert what
\* they read, prop_summary_storet::deserialize only appends it to the store.
Deserialized == Logic # "prop"

Init ==
  /\ ver \in Versions
  /\ preserved \in (SUBSET Call) \ {Call}
  /\ \E S \in SUBSET (Call \ {Main}) :
     \E fla \in [S -> {f \in Lang : ~ Trivial(f)}] :
        LET ids == Numbered(S, 1)
        IN  /\ sumID = [n \in Call |-> IF n \in S THEN ids[n] ELSE 0]
            /\ maxID = Cardinality(S) + 1
            /\ store = PlusAll(<< >>, ids, fla, Deserialized)
  /\ prec \in [Call -> Precision]
  /\ prec[Main] = "INLINE"
  /\ \A n \in Call : prec[n] = "SUMMARY" => sumID[n] # 0
  /\ \A n \in preserved : sumID[n] # 0 => prec[n] = "SUMMARY"
  /\ \A n \in Call : sumID[n] # 0 => prec[n] # "HAVOC"
  /\ PriorProof
  /\ marked = {} /\ repaired = {} /\ cur = NumCalls /\ validated = FALSE
  /\ phase = "pick" /\ task = "none" /\ holds = FALSE /\ asserted = NotAsserted
  /\ houdini = NoRepair

-----------------------------------------------------------------------------
(***************************************************************************)
(* call_graph_traversal.                                                   *)
(***************************************************************************)
\* A variant with a bug: the caller is not marked.
Marked_NotAtAll == marked

\* The caller of cur must be checked.
Marked == IF cur = Main THEN marked ELSE marked \cup {Parent[cur]}

\* validate_node returned ok: go on with the next call, or, when main itself was
\* not validated, check the assertions of the whole program.
CallDone(ok) ==
  /\ validated' = ok
  /\ houdini' = NoRepair /\ holds' = FALSE
  /\ marked' = IF ok THEN marked ELSE Marked
  /\ IF ok \/ cur # Main
       THEN /\ cur' = cur - 1
            /\ phase' = "pick" /\ task' = "none"
            /\ UNCHANGED asserted
       ELSE /\ phase' = "solve" /\ task' = "main"
            /\ asserted' = NotAsserted
            /\ UNCHANGED cur

\* A variant with a bug: marks are ignored.
MustCheck_ChangedOnly(n) == n \notin preserved

MustCheck(n) == n \notin preserved \/ n \in marked

Skip ==
  /\ phase = "pick" /\ cur > 0 /\ ~ MustCheck(cur)
  /\ cur' = cur - 1
  /\ UNCHANGED <<ver, preserved, callTree, summaries, marked, validated, repaired,
                 query, houdini>>

\* The traversal is over: validated is the verdict that is reported.
Conclude ==
  /\ phase = "pick" /\ cur = 0
  /\ phase' = "done"
  /\ UNCHANGED <<ver, preserved, callTree, summaries, traversal, repaired, task,
                 holds, asserted, houdini>>

\* The answer of the final check, of main and the assertions.
AssertionsAnswered ==
  /\ phase = "answer" /\ task = "main"
  /\ validated' = holds
  /\ cur' = cur - 1
  /\ phase' = "pick" /\ task' = "none" /\ holds' = FALSE
  /\ UNCHANGED <<ver, preserved, callTree, summaries, marked, repaired, asserted,
                 houdini>>

-----------------------------------------------------------------------------
(***************************************************************************)
(* validate_summary: does the body of cur imply its summary?               *)
(***************************************************************************)
\* validate_node, a call without a summary: its caller must be checked.
NoSummary ==
  /\ phase = "pick" /\ cur > 0 /\ MustCheck(cur)
  /\ sumID[cur] = 0
  /\ CallDone(FALSE)
  /\ UNCHANGED <<ver, preserved, callTree, summaries, repaired>>

\* validate_node, a call with one.
BeginFull ==
  /\ phase = "pick" /\ cur > 0 /\ MustCheck(cur)
  /\ sumID[cur] # 0
  /\ phase' = "prepare" /\ task' = "full"
  /\ UNCHANGED <<ver, preserved, callTree, summaries, traversal, repaired, holds,
                 asserted, houdini>>

\* The solver is reset, the subtree of cur is executed symbolically and the
\* negated summary is inserted.
Prepared ==
  /\ phase = "prepare" /\ Exists(store, sumID[cur])
  /\ prec' = [prec EXCEPT ![cur] = "INLINE"]
  /\ asserted' = NotAsserted
  /\ phase' = "solve"
  /\ UNCHANGED <<ver, preserved, sumID, summaries, traversal, repaired, task, holds,
                 houdini>>

\* A symbol of the body, or the interface of the summary, is gone: the summary
\* cannot be used any more.
Unusable ==
  /\ phase = "prepare" /\ task = "full"
  /\ store' = Minus(store, {sumID[cur]})
  /\ DropID(cur, sumID[cur])
  /\ holds' = FALSE /\ phase' = "answer"
  /\ UNCHANGED <<ver, preserved, maxID, traversal, repaired, task, asserted,
                 houdini>>

\* The store does not know the id: the answer is no, and nothing is removed.
Unknown ==
  /\ phase = "prepare" /\ ~ Exists(store, sumID[cur])
  /\ prec' = [prec EXCEPT ![cur] = "INLINE"]
  /\ holds' = FALSE /\ phase' = "answer"
  /\ UNCHANGED <<ver, preserved, sumID, summaries, traversal, repaired, task,
                 asserted, houdini>>

\* A variant with a bug: the statistics are not corrected.
StillRepaired_All(gone) == repaired

\* Refined calls are no longer counted as repaired.
StillRepaired(gone) == repaired \ {FnOf[m] : m \in gone}

\* The solver found a model, and U are the calls whose callstart literal is true
\* in it and that are encoded abstractly: they lose their summaries and are
\* inlined (mark_sum_for_refine, refineSSA).
Refine(U) ==
  LET gone == {m \in U : sumID[m] # 0}
  IN  /\ phase = "solve" /\ U # {} /\ Counterexample(U)
      /\ store' = Minus(store, {sumID[m] : m \in gone})
      /\ sumID' = [m \in Call |-> IF m \in U THEN 0 ELSE sumID[m]]
      /\ prec'  = [m \in Call |-> IF m \in U \/ (m = cur /\ gone # {})
                                  THEN "INLINE" ELSE prec[m]]
      /\ repaired' = StillRepaired(gone)
      /\ asserted' = [m \in Call |->
                        IF m \in Summarized(cur) THEN Abstraction(m) ELSE asserted[m]]
      /\ UNCHANGED <<ver, preserved, maxID, traversal, phase, task, holds, houdini>>

\* The solver found a model that no refinement can rule out.
Refuted ==
  /\ phase = "solve" /\ Counterexample({})
  /\ holds' = FALSE /\ phase' = "answer"
  /\ UNCHANGED <<ver, preserved, callTree, summaries, traversal, repaired, task,
                 asserted, houdini>>

\* The solver found a proof, itp: extract_interpolants stores the interpolant of
\* every call that was inlined.
Proved(itp) ==
  LET new == {m \in Inlined(cur) : ~ Trivial(itp[m])}
      id  == Numbered(new, maxID)
  IN  /\ phase = "solve"
      /\ Proof([m \in Inlined(cur) |-> Models(itp[m])], Abstract(cur))
      /\ store' = PlusAll(store, id, itp, TRUE)
      /\ maxID' = maxID + Cardinality(new)
      /\ sumID' = [m \in Call |-> IF m \in new THEN id[m] ELSE sumID[m]]
      /\ prec'  = [m \in Call |-> IF m \in new THEN "SUMMARY" ELSE prec[m]]
      /\ holds' = TRUE /\ phase' = "answer"
      /\ UNCHANGED <<ver, preserved, traversal, repaired, task, asserted, houdini>>

-----------------------------------------------------------------------------
(***************************************************************************)
(* validate_node: what the answer of validate_summary does to the summary  *)
(* of cur.                                                                 *)
(***************************************************************************)
Answered(t, ok) == phase = "answer" /\ task = t /\ holds = ok

Valid ==
  /\ Answered("full", TRUE)
  /\ prec' = [prec EXCEPT ![cur] = "SUMMARY"]
  /\ CallDone(TRUE)
  /\ UNCHANGED <<ver, preserved, sumID, summaries, repaired>>

\* Houdini can weaken it.
Weakenable(f) == /\ Logic \in {"qfuf", "qflra"}
                 /\ IsConjunctive(f) \/ IsDisjunctive(f)

\* Nothing more to do: the summary is gone already, the store does not know its
\* id, or the logic has no repair (validate_node leaves a qflia summary where it is).
InvalidKept ==
  /\ Answered("full", FALSE)
  /\ ~ Exists(store, sumID[cur]) \/ Logic = "qflia"
  /\ CallDone(FALSE)
  /\ UNCHANGED <<ver, preserved, callTree, summaries, repaired>>

InvalidDropped ==
  /\ Answered("full", FALSE)
  /\ Exists(store, sumID[cur]) /\ Logic # "qflia" /\ ~ Weakenable(SummaryOf(cur))
  /\ store' = Minus(store, {sumID[cur]})
  /\ DropID(cur, sumID[cur])
  /\ CallDone(FALSE)
  /\ UNCHANGED <<ver, preserved, maxID, repaired>>

\* Houdini starts: the summary is removed, and its conjuncts (of an And), or those
\* of one disjunct after the other (of an Or), are tried one at a time.
InvalidWeakened ==
  /\ Answered("full", FALSE)
  /\ Exists(store, sumID[cur]) /\ Weakenable(SummaryOf(cur))
  /\ marked' = Marked
  /\ store' = Minus(store, {sumID[cur]})
  /\ DropID(cur, sumID[cur])
  /\ LET f == SummaryOf(cur)
     IN  houdini' = [NoRepair EXCEPT
                       !.full = f,
                       !.conjuncts = IF IsConjunctive(f) THEN UNION f ELSE {},
                       !.disjuncts = IF IsConjunctive(f) THEN {}
                                     ELSE {c \in f : IsConjunctive({c})}]
  /\ task' = IF IsConjunctive(SummaryOf(cur)) THEN "conjunct" ELSE "disjunct"
  /\ phase' = "repair"
  /\ UNCHANGED <<ver, preserved, maxID, cur, validated, repaired, holds, asserted>>

\* A variant with a bug: max_id is not advanced.
Attach_ReusesID(f) ==
  /\ store' = Plus(store, maxID, FnOf[cur], f)
  /\ maxID' = maxID
  /\ sumID' = [sumID EXCEPT ![cur] = maxID]

\* create_partial_summary, insert_summary, add_node_sumID.
Attach(f) ==
  /\ store' = Plus(store, maxID, FnOf[cur], f)
  /\ maxID' = maxID + 1
  /\ sumID' = [sumID EXCEPT ![cur] = maxID]

Try(f) ==
  /\ Attach(f)
  /\ phase' = "prepare"
  /\ UNCHANGED <<ver, preserved, prec, traversal, repaired, task, holds, asserted>>

TryConjunct(a) ==
  /\ phase = "repair" /\ task = "conjunct" /\ a \in houdini.conjuncts
  /\ Try({{a}})
  /\ houdini' = [houdini EXCEPT !.conjuncts = @ \ {a}]

\* A variant with a bug: every conjunct counts as valid.
Passed_Always == UNION SummaryOf(cur)

\* The conjuncts the answer adds to the valid ones.
Passed == IF holds THEN UNION SummaryOf(cur) ELSE {}

\* The candidate is removed whatever the answer.
ConjunctAnswered ==
  /\ phase = "answer" /\ task = "conjunct"
  /\ store' = Minus(store, {sumID[cur]})
  /\ DropID(cur, sumID[cur])
  /\ houdini' = [houdini EXCEPT !.valid = @ \cup Passed]
  /\ phase' = "repair"
  /\ UNCHANGED <<ver, preserved, maxID, traversal, repaired, task, holds, asserted>>

\* The conjunction of the valid conjuncts is the new summary.
Weaken ==
  /\ phase = "repair" /\ task = "conjunct"
  /\ houdini.conjuncts = {} /\ houdini.valid # {}
  /\ Attach({houdini.valid})
  /\ prec' = [prec EXCEPT ![cur] = "SUMMARY"]
  /\ repaired' = repaired \cup {FnOf[cur]}
  /\ CallDone(TRUE)
  /\ UNCHANGED <<ver, preserved>>

\* A variant with a bug: of a disjunct that is not started none is spent.
DisjunctSpent_One == Cardinality(houdini.left) = 1

\* Atoms of a disjunct are dropped one after the other, all but one.
DisjunctSpent == Cardinality(houdini.left) <= 1

NextDisjunct(c) ==
  /\ phase = "repair" /\ task = "disjunct" /\ DisjunctSpent /\ c \in houdini.disjuncts
  /\ houdini' = [houdini EXCEPT !.disjuncts = @ \ {c}, !.left = c, !.dropped = {}]
  /\ UNCHANGED <<ver, preserved, callTree, summaries, traversal, repaired, query>>

TryDrop(a) ==
  /\ phase = "repair" /\ task = "disjunct"
  /\ ~ DisjunctSpent /\ a \in houdini.left
  /\ Try(Without(houdini.full, houdini.dropped \cup {a}))
  /\ houdini' = [houdini EXCEPT !.left = @ \ {a}, !.dropped = @ \cup {a}]

\* The first candidate that is valid is the new summary.
DisjunctValid ==
  /\ Answered("disjunct", TRUE)
  /\ prec' = [prec EXCEPT ![cur] = "SUMMARY"]
  /\ repaired' = repaired \cup {FnOf[cur]}
  /\ CallDone(TRUE)
  /\ UNCHANGED <<ver, preserved, sumID, summaries>>

DisjunctInvalid ==
  /\ Answered("disjunct", FALSE)
  /\ store' = Minus(store, {sumID[cur]})
  /\ DropID(cur, sumID[cur])
  /\ phase' = "repair"
  /\ UNCHANGED <<ver, preserved, maxID, traversal, repaired, task, holds, asserted,
                 houdini>>

\* No candidate was valid.
GiveUp ==
  /\ phase = "repair"
  /\ houdini.conjuncts = {} /\ houdini.valid = {}
  /\ houdini.disjuncts = {} /\ DisjunctSpent
  /\ prec' = [prec EXCEPT ![cur] = "INLINE"]
  /\ CallDone(FALSE)
  /\ UNCHANGED <<ver, preserved, sumID, summaries, repaired>>

-----------------------------------------------------------------------------
Traverse == Skip \/ NoSummary \/ BeginFull \/ AssertionsAnswered \/ Conclude
Check    == \/ Prepared \/ Unusable \/ Unknown \/ Refuted
            \/ \E U \in SUBSET Abstract(cur) : Refine(U)
            \/ \E itp \in [Inlined(cur) -> Lang] : Proved(itp)
Judge    == Valid \/ InvalidKept \/ InvalidDropped \/ InvalidWeakened
Houdini  == \/ \E a \in Atom : TryConjunct(a) \/ TryDrop(a)
            \/ \E c \in Cube : NextDisjunct(c)
            \/ ConjunctAnswered \/ Weaken \/ DisjunctValid \/ DisjunctInvalid \/ GiveUp

Next == Traverse \/ Check \/ Judge \/ Houdini

\* One thread that runs to its end; the solver is assumed to answer.
Spec == Init /\ [][Next]_vars /\ WF_vars(Next)

-----------------------------------------------------------------------------
(***************************************************************************)
(* Properties.                                                             *)
(***************************************************************************)
TypeOK ==
  /\ ver \in Versions /\ preserved \subseteq Call
  /\ sumID \in [Call -> Nat] /\ prec \in [Call -> Precision]
  /\ maxID \in Nat \ {0} /\ DOMAIN store \subseteq 1 .. (maxID - 1)
  /\ store \in [DOMAIN store -> StoredSummary]
  /\ marked \subseteq Call /\ repaired \subseteq Fn
  /\ cur \in 0 .. NumCalls /\ validated \in BOOLEAN
  /\ phase \in Phase /\ task \in Task /\ holds \in BOOLEAN
  /\ asserted \in Env
  /\ houdini \in Repair

\* "Validation Done!" is only reported of a revision none of whose assertions can
\* be violated, whatever was skipped, weakened, dropped or refined on the way.
VerdictSound == (phase = "done" /\ validated) => IsSafe(ver)

\* "Validation failed! A real bug found." is only reported of a revision that has
\* one: the failure of a summary alone never decides the verdict.
VerdictExact == (phase = "done" /\ ~ validated) => ~ IsSafe(ver)

\* What the user sees of one check.
answer == IF phase # "done" THEN "pending" ELSE IF validated THEN "safe" ELSE "unsafe"

Promise == INSTANCE IncrementalCheck WITH revision <- ver, verdict <- answer

\* The check implements IncrementalCheck: all its steps but the last are invisible,
\* and that one gives the right verdict, once.
RightVerdict == Promise!Safety

\* A call that symex would encode by its summary has one in the store: neither
\* fill_summary_partition nor find_summary throws, whatever validate_node and the
\* refinement loop removed.
NoLostSummary == \A n \in Call : prec[n] = "SUMMARY" => Has(store, sumID[n])

\* No two calls share a summary, and a call never holds the summary of another
\* function: removing one call's summary takes nothing from another call.
NodesOwnTheirSummary ==
  /\ \A m, n \in Call : (sumID[m] = sumID[n] /\ sumID[m] # 0) => m = n
  /\ \A n \in Call : Has(store, sumID[n]) => store[sumID[n]].fn = FnOf[n]

\* Every live summary belongs to a call: no candidate of Houdini and no replaced
\* interpolant is left behind to be written to the summary file.
NoOrphanSummary ==
  \A id \in DOMAIN store : \E n \in Call : sumID[n] = id

\* The summaries of the calls the traversal has passed over-approximate what the
\* calls of the new revision do: those that were validated, weakened, generated by
\* a query, or not touched because nothing below them changed.
SummariesSound ==
  \A n \in Call : (n > cur /\ prec[n] = "SUMMARY")
                  => Concrete(ver)[n] \subseteq Models(SummaryOf(n))

\* The summary of n follows from its body and the summaries of the calls below,
\* those of them that have none represented by their bodies.
Supported(n) ==
  \E X \in Env :
     /\ \A m \in Call : sumID[m] # 0 => X[m] = Models(SummaryOf(m))
     /\ \A m \in Call : (m = n \/ (m > n /\ sumID[m] = 0))
                           => Post(ver, m, X) \subseteq X[m]

\* A call is only passed over without a check if its summary still follows from
\* the summaries its callees have by then.
SkippedIsSupported ==
  [][(Skip /\ sumID[cur] # 0) => Supported(cur)]_vars

\* A call counted as repaired has not lost its summary since (refinement takes it
\* off repaired_nodes).
RepairedIsLive ==
  \A f \in repaired : \E n \in Call : FnOf[n] = f /\ Has(store, sumID[n])

\* The traversal, every repair and every refinement loop end.
Terminates == <>(phase = "done")

\* sanity_check: the summaries of the children, with the body of the parent, imply
\* the summary of the parent; what the next upgrade takes for granted.
TreeInterpolation ==
  (phase = "done" /\ validated) => \A n \in Call : sumID[n] # 0 => Supported(n)
=============================================================================
