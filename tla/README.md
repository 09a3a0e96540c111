# A TLA+ development of UpProver

UpProver (`src/trunk/cprover/src/funfrog`) is an incremental model checker for C.
A first run proves the assertions of a program and stores, for every function
call of the unrolled program, a *summary*: a formula that over-approximates what
the call can do. When the program is edited, UpProver does not prove it again
from scratch. It compares the two revisions, carries the summaries over to the
calls of the new one, and checks that the summaries of the changed calls are
still over-approximations. Where one is not, it is weakened or dropped and the
check moves up the call tree; only if it reaches `main` are the assertions
themselves checked.

What can go wrong is not in one query but in the sequence: summaries are removed,
weakened, refined away and generated while a traversal is under way that decides,
from marks and flags set earlier, which calls it may skip. A mistake is silent: a
wrong "Validation Done". This is what the modules here are about.

## 1. Inventory

Paths are relative to `src/trunk/cprover/src/funfrog`.

| Component | State it keeps | Operations | Interacts with |
|---|---|---|---|
| **Incremental validation**, `upprover/summary_validation.cpp` | the position in the traversal, `marked_to_check`, `repaired_nodes`, `validated` | `call_graph_traversal`, `validate_node` (with the two Houdini repairs), `validate_summary`, `sanity_check`, `launch_upprover` | everything below |
| **Call tree**, `call_tree_node.*`, `subst_scenario.*` | per call: precision (HAVOC, SUMMARY, INLINE), `node_summaryID`, preserved node/edge flags, assertion flags; the file `__omega` | `add_node_sumID`, `remove_node_sumID`, `set_precision`, `serialize`, `deserialize` | shared by validation, symex, refiner, interpolation |
| **Summary store**, `summary_store.*`, `prop_`/`smt_summary_store.*` | vector of summaries, `id_to_summary`, `function_to_summaries`, `max_id`; the summary file | `insert_summary`, `remove_summary`, `find_summary`, `id_exists`, `replace_summary`, `serialize`, `deserialize` | validation, partitions |
| **Symbolic execution and partitions**, `symex_assertion_sum.*`, `partitioning_target_equation.*` | one partition per call (stub, summary or body), its callstart literal | `prepare_subtree_SSA`, `refine_SSA`, `convert`, `extract_interpolants` | call tree, store, solver |
| **Refinement of calls**, `refiner_assertion_sum.*` | the calls to refine | `mark_sum_for_refine`, modes `SLICING_RESULT`, `FORCE_INLINING`, `RANDOM_SUBSTITUTION` | call tree, equation |
| **Core check**, `core_checker.*` | solver and equation of one query | `assertion_holds_smt`, `extract_interpolants_smt`, `assertion_holds` | all of the above |
| **Solver and interpolator**, `solvers/` (OpenSMT) | asserted partitions | `assertion_holds`, interpolation, `is_conjunctive`, `reset_solver` | core check, validation |
| **Syntactic diff**, `upprover/diff.cpp` | `functions_old/new`, `locs_visited`, the two call histories | `collect_functions`, `get_call_tree_node_id`, `compare_str_vecs` (LCS), `do_proper_diff`, `do_diff` | reads and writes `__omega` |
| **UpProver driver**, `upprover/main_upprover.cpp`, `parser_upprover.*` | options | bootstrapping or validation | diff, validation |
| **Stand-alone checker (HiFrog)**, `check_claims.*`, `parser*.cpp`, `main.cpp` | the claim map | one assertion after the other over shared summaries | core check |
| **Theory refinement**, `theory_refiner.*` | `refined`, `weak`, the trace, the solver's formula | check with uninterpreted functions, refine weak expressions to bit vectors | slicing, equation, solver |
| **Slicing**, `partitioning_slice.*` | `depends`, `processed`, the `ignore` flags | `prepare_maps`, `slice` | equation, stand-alone checker, theory refinement |
| **Claim dependencies**, `dependency_checker.*` | dependency relation | order and drop claims | claims |
| Encodings, error traces, unpartitioned checker, CPROVER front end, SAT/SMT libraries | | | |

`PROJECT.json` lists all of them with what is modelled of each.

**Hard behaviours.** The program has one thread; nothing is concurrent. What is
hard is *sequence* and *staleness*: a preserved call is skipped on the strength of
a summary that was computed from callees' summaries which may have been weakened
since; the summary is removed before its repair is attempted; a refinement inside
one query removes summaries that the solver still has asserted; summaries belong
to calls but are grouped by function name; ids are handed out while the store
shrinks; four logics take different branches; two files (`__omega`, the summary
file) are written at different moments. Before all of this, the diff pairs calls of
two revisions by name and order only. `PROJECT.json` lists the hazards with their
lines, 39 in all.

**What makes each component correct**

- validation: "Validation Done!" only of a revision without violated assertion,
  "A real bug found" only of one with; a skipped call needed no check; it ends;
- call tree and store: a call that is encoded by a summary has one, of its own
  function, shared with no other call; no summary outlives its owner;
- refinement and interpolation: every counterexample that goes through an
  abstraction is refined before it counts; every stored summary over-approximates
  its call;
- diff: a call counted as unchanged is unchanged, and inherits the summary of the
  same call site; summaries are not shared;
- files: what one upgrade writes is what the next one reads, also after an
  upgrade that failed or was interrupted;
- slicing: the steps that are left have a model if and only if all have one;
- theory refinement: the program holds if it says so, and fails if it says so without a
  reason for doubt; it gives an answer;
- claims: an assertion is skipped only if one that implies it was proved.

## 2. What is modelled now

### `CallTreePrograms`

The semantics the rest is judged by. A call is its position in
`subst_scenariot::functions`, the pre-order walk of the call tree (position 0,
`__CPROVER_initialize`, is never checked). What a call may do is one of a small
set of behaviours `Val`; the body of a call is a set of paths: "if these calls did
this, I do that". `Concrete(v)` is the least environment closed under the bodies
of revision `v`: what every call really does. A summary is a formula in
disjunctive form over atoms, as Houdini asks only two questions about the shape
of a formula (is it an And, is it an Or) and the solver only about its models.

### `SummaryValidation`

One state per point of the code where a decision is taken; `phase` is where in the
code the checker is, `task` what the current query is for.

| Actions | Code |
|---|---|
| `Skip`, `NoSummary`, `BeginFull`, `AssertionsAnswered`, `Conclude`, with `CallDone`, `Marked`, `MustCheck` | `call_graph_traversal`: the walk from the last call to `main`, the marks, the final check, the verdict |
| `Prepared`, `Unusable`, `Unknown` | `validate_summary` up to the loop: the solver is reset, the subtree is executed; a symbol that is gone throws; an id the store does not know |
| `Refine(U)`, `Refuted`, `Proved(itp)` | the loops of `validate_summary` and `assertion_holds_smt`: a model through abstract calls, one that no refinement can rule out, a proof with its interpolants |
| `Valid`, `InvalidKept`, `InvalidDropped`, `InvalidWeakened` | `validate_node`: what the answer does to the summary, by logic |
| `TryConjunct`, `ConjunctAnswered`, `Weaken`, `NextDisjunct`, `TryDrop`, `DisjunctValid`, `DisjunctInvalid`, `GiveUp` | the two Houdini loops |

How queries are answered. OpenSMT is external. A query is answered by its
meaning: the abstract calls may do what their stub (anything) or their summary
allows, the inlined ones what their body does. `Counterexample(U)` says that the
formula has a model in which the abstract calls with a true callstart literal are
among `U`; `Refine(U)` may take *any* such `U`, and `Proved(itp)` *any* choice of
interpolants that supports the proof. `asserted` keeps what the solver was given
since `reset_solver`: a summary that is refined away in the middle of a query is
gone from the store but not from the solver.

Abstracted on purpose: the SSA of bodies (a set of paths), the text of formulas
(sets of cubes), wording and statistics other than `repaired_nodes`.

`Init` is any state in which `launch_upprover` can enter the traversal: any
revision, any outcome of diff, any precision and any summaries such that the
previous revision left a proof (`PriorProof`): the old summaries, with the bodies
of the calls that are unchanged, prove those calls' summaries. The code does not
always guarantee this: see the runs `interpolation` and `homonyms` below.
Preserved calls with a summary are loaded with
precision SUMMARY, and no call with a summary as HAVOC.

### `OmegaDiff`

`do_diff`, one action per way a call of the new revision can be treated. A
revision is a set of functions with an interface and a body; a body is a sequence
of instructions, each with its `text` (what `cmd_str` prints, up to renaming), the
function it calls, if any, and `rest`, what `cmd_str` leaves out. `Unrolled` is
`collect_functions`: the calls in pre-order with their depth, from which `Below`
recovers `calltree`.

| Action | Code |
|---|---|
| `NewCall` | no unvisited old call of that name: the stub entry, renamed, without edge |
| `InterfaceChanged(o)` | `base_type_eq` fails: the entry of `o` is copied, *with* its summary id; precision and flags are reset |
| `Compared(o)` | the entry of `o` is copied but for the edge; `compare_str_vecs` sets the preserved flag, else `do_proper_diff` takes the edge from the calls that were added before the last common instruction |
| `Report` | `__omega` is written, the flags are conjoined over as many calls as the *old* revision has |

`functions_new[i]` past the end of the vector is an undefined read: any Boolean.
`Common` is the dynamic programming table of `compare_str_vecs`, entry by entry,
as a recursive function. The location and assertion-flag columns of `__omega` are left
out: nothing reads them before they are computed anew.

### `DiffedUpgrade`

`launch_upprover`, over the variables of both modules, which it EXTENDS: `Compare`
(the steps of `OmegaDiff`), `Identical` (the early return), `Load`
(`subst_scenariot::deserialize`), `Validate` (the steps of `SummaryValidation`). A
function now also says what it does (`does`), so that a revision has both a text,
which diff compares, and a meaning, which the verdict is judged by;
`DoesAssumption` says that functions of the same text do the same, which sets aside
what the run `silent` shows. `StartAssumption` says how a C program starts: the
entry point calls the initialiser, which calls nothing, and then `main`. Call n of
`SummaryValidation` is call n + 1 of `OmegaDiff`, whose call 1 is the initialiser;
`TreeAssumption` says that the new revisions make the calls `SummaryValidation` is
instantiated with. `UpgradeInit` assumes only that the *old* revision was proved
(`OldProof`): `PriorProof` becomes a consequence, and `DiffKeepsProof` says so.

### `IncrementalCheck`

What the user is promised, in four actions: a revision is submitted, and gets the
right verdict, or none when the process ends without one, and it gets it in the
end. One check (`SummaryValidation`, property `RightVerdict`) and a sequence of
them over the files (`UpgradeCycle`, property `RightVerdicts`, with the liveness)
implement it.

### `UpgradeCycle`

Several upgrades in a row. Two files last from one run to the next: `__omega`, with
the id and precision of every call, and the summary file. They are written at
different moments: `extract_interpolants` rewrites the summary file after every
query that had a proof, also in an upgrade that is refused later; `__omega` is
written when "Validation Done!" has been printed, and the summary file once more
after it.

| Action | Code |
|---|---|
| `Submit(w)` | `launch_upprover` and the start of `call_graph_traversal`: calls are marked by comparison with the last revision that was bootstrapped or validated; `omega.deserialize`; the store reads the summary file. An identical revision is not checked and changes nothing |
| `Step` | every step of `SummaryValidation` that writes no file |
| `Interpolate` | a proof, its interpolants, and the summary file |
| `Validated`, `SaveSummaries` | the two writes at the end; the revision becomes the one the next is compared with |
| `Failed` | "A real bug found": no file is written |
| `Die` | `find_summary` does not find, or `instantiate` (SMT) rejects, the summary of a call of the query: an exception that ends the process |
| `Kill`, `KillSaving` | the process is killed at any step, or between the two files |

`Serialized`, `Read`, `ReadIDs`, `NextID` are the two file formats: prop writes the
ids and `max_id`; the SMT writer leaves the ids out, and its reader numbers what it
reads from 1 on. `Deserialized` is FALSE for prop, whose reader does not fill
`id_to_summary`. Choices: the revisions have one call tree (`DiffedUpgrade` has
those that have not); a process killed after `__omega` was written but before the
summary file was counts as validated, one killed earlier as without verdict; a
write is complete or not done; the files are read and written under their default
names.

### `PartitioningSlice`

An equation is a sequence of SSA steps, each with the symbols of its guard and its
condition and the set of assignments it allows, and the calls, represented by a
body, a summary or a stub. `SliceInit` is the first loop of `slice` with
`prepare_maps`; `Take(id)` is one round of the `while`: the definition of `id`, the
one-symbol assumptions on it (a callend symbol stands for the outputs of its call)
and the arguments of a summary that has it as an output are brought back. Any
symbol may be next, as the code takes the first of a set ordered by name.
`Definition`, `Assumptions`, `SummaryArguments` are `def_map`, `assume_map`,
`summary_map`; the latter has no entry for a call with an assertion in its subtree
(`AssertionInSubtree`: it has an error symbol, which is a root). Such a call is inlined
(`call_tree_node.cpp:32-34`), so `EquationAssumption` says that it is no summary. `usesVar` is constantly true (`solvers/itp.h:20`) and
is left out.

### `TheoryRefinement`

`theory_refinert::assertion_holds_smt`, on the equation `PartitioningSlice` leaves:
it EXTENDS that module and its first phase takes its steps (`SliceTarget`).
Each step has *expressions* (`get_exprs_to_refine`: an assignment has one, a guarded
assertion two). An expression has an exact meaning and two encodings: `weak`, what the
solver knows while functions are uninterpreted, and `bits`, what its bit vectors say.
Both allow what the expression allows, and more: an operator that is not supported is a
fresh variable in either (`fresh`). `binds` are the variables whose two encodings
`refine_ce_one_iter` binds to each other: operand 0 if it is a symbol, and the variables
of operand 1, hence none of a compound condition (`condition = FALSE`). `Formula(B)` is
what the solver has when the expressions of `B` are refined: an assignment that the weak
encodings of all kept steps allow, and that agrees on `Bound(B)` with one the bit
vectors of `B` allow (`Blasted`); a refined expression that is constantly false is
skipped (`Asserted`). The other two ways in which `refine_ce_one_iter` may do nothing do
not arise: every expression is an equality with two operands, and a constantly true one
says nothing.

What `check_ce` judges is no model of this. `Read` takes the values of bit vectors for
what is bound; anything may stand elsewhere, as uninterpreted values become numbers
(`error_trace.cpp:477-486`) and missing ones are read as 0. `Failure` is what follows
when everything is refined and there is a model: the "ASSERTION UNKNOWN" with a reason
when something is `Unsupported`, else "ASSERTION DOES NOT HOLD"
(`theory_refiner.cpp:174-185`, `305-316`; the file defines `_NO_OPTIMIZATION` in line
19). In both cases the code then reports VERIFICATION FAILED; the model keeps them
apart as the verdicts `unsupported` and `fails`.

| Action | Code |
|---|---|
| `Decide` | the first answer, without refinement |
| `Custom`, `ForceRefine` | `--custom` (`refine_ce_mul`), `--force` (`force_refine_ce`) |
| `BuildTrace` | `build_goto_trace_formula`: what is read of any model |
| `FindWeak(e)`, `FindNone` | `check_ce`: the first expression from the given end that the trace violates, and with heuristics 4-7 those that depend on it |
| `RefineWeak` | the weak expressions are refined, and a new round starts, or the answer is HOLDS |
| `RefineRest` | none is weak: all that are left are refined, which decides (`Failure`) |

### `MC*` and `*Proofs`

The instances for TLC, and the theorems (section 4).

## 3. Runs

| Run | Instance | Shows |
|---|---|---|
| `chain` | main - f - g, qflra, 9 revisions over 3 behaviours | the type invariant; the verdict is right both ways; summaries of passed calls are sound; none is lost, shared or left without owner; a skipped call is still supported by its callees' summaries; the checker terminates |
| `tree` | main - f, main - g - f, prop | two calls of one function on several levels: operations by id on one leave the other alone; although loaded summaries are unknown by id and every check moves up to main, it implements `IncrementalCheck` |
| `interpolation` (violation) | as `chain` | a successful upgrade can leave summaries that are not tree interpolants |
| `cycle` | main - f - g, prop, two upgrades, failures and kills at every step | an id of `__omega` never denotes a foreign summary, a successful upgrade leaves every summary readable under its id, only a failed or killed one can make a later query miss a summary, and every verdict is right: the upgrades implement `IncrementalCheck` |
| `renumbered` (violation) | the same with qfuf | a successful upgrade leaves ids in `__omega` that denote other summaries for the next one |
| `diff` | all pairs of 24 revisions in which main and g call f and g in several orders and numbers, any set of summaries | summaries are not shared; the result is right although it is conjoined over the wrong number of calls; LCS is a longest common subsequence |
| `silent` (violation) | revisions that differ in a jump target or an initial value | they are reported as identical |
| `diffed` | 14 old and 8 new revisions, all calls of different functions | what diff carries over is still a proof; the verdict is right, from a proof of the old revision alone; an unchecked revision is safe |
| `homonyms` (violation) | f called by h and by g, the call of h removed | "Validation Done!" of an unsafe revision |
| `slice` | 540 equations: a call by body (with or without an assertion in it), summary or stub, a phi function, an assumption, a guarded assertion | slicing changes no verdict, leaves nothing undefined, ends |
| `theoref` | 32 equations with different weak and unsupported expressions, 11 option sets | HOLDS is right, and so is DOES NOT HOLD; no trace violates what is refined and bound; the walks miss nothing; an answer is given |
| `unrolled` (violation) | an assertion in a loop that is unrolled twice | an unsafe program is verified |

**Properties.** `VerdictSound` and `VerdictExact` relate the reported verdict to
the semantics (`Concrete`), after an arbitrary history of skips, repairs and
refinements. `SummariesSound` is the reason: past the cursor, every live summary
over-approximates its call in the *new* revision. `SkippedIsSupported` says that
the marks are enough: at the moment a call is skipped its summary still follows
from its body and the summaries its callees have *by then*. `NoLostSummary`,
`NodesOwnTheirSummary`, `NoOrphanSummary`, `RepairedIsLive` relate the call tree,
the store and the statistics, which different functions update at different
times. `Terminates` covers the traversal, both Houdini loops and the refinement
loop together. `SummariesNotShared` is what validation takes for granted of its
input when it removes a summary by the id of one call; `ResultExact` and
`CommonIsLongest` compare the two algorithms of diff with their definitions;
`DiffKeepsProof` and `IdenticalIsSafe` are the two promises diff makes to
validation: what it passes on, and what it lets through unchecked.
`NoForeignSummary`, `SummaryIDsRemain` and `CleanRunsMissNothing` relate two files
of different ages (`told` remembers what ids meant when `__omega` was written,
`clean` whether anything went wrong so far). `RightVerdict` and `RightVerdicts` are
the two refinements. `SliceExact` compares the slice with the whole equation by their
models, and `NothingDangling` is what makes it true. `HoldsSound` and `FailsExact`
judge theory refinement by the exact meaning of the *unsliced* equation. `check_ce` looks
only at what is not refined, and at a trace that is no model. `RefinedAreSatisfied` says
why it may: what is refined is not violated, whatever the invented values are, unless its
variables are not bound. `NoneOverlooked` says that its walks, from either end and each
from where the last one stopped, leave out nothing else, and `AnswerGiven` that the loop
ends, although an expression that is refined without being bound may stay violated.

**Bounds.** Three calls in a chain are the least on which a failure two levels
below a skipped call is possible; siblings of one function the least on which
operations by name and by id differ; four calls on three levels the least on
which a query of `main` goes through a refined call that itself has a call under
it and another beside it. Two or three behaviours suffice as every property
compares sets of behaviours; `Lang` (named in the assumption `LangAssumption`)
expresses every set, so the interpolator is never limited in strength, and has
every shape Houdini tells apart: constants, atoms, an And, an Or, an Or with an And
inside. Revisions are chosen so that each run has safe and unsafe ones and bodies
that pass on, saturate or permute what their callee does. For diff, two calls of one
function under one caller and a third under another are the least with which a call
can be matched across callers; bodies of at most four instructions have
subsequences that a greedy search misses. In `diffed` the old revisions have the
new one's calls, one of them elsewhere, one fewer or one more. `cycle` bounds the
number of submitted revisions, `MaxUpgrades`, by two: the first leaves files of
different ages, the second reads them (what more upgrades do to the ids, and that
their verdicts are right, is proved for any number). It takes prop, where alone the files keep the ids; `renumbered`
shows what happens otherwise. In `slice` a call's output can be needed through an
assertion, an assumption or a phi function, or not at all; summaries and stubs
allow at least one result for every argument, and one-symbol assumptions are the
callend symbols only, as a summary that is false, or an `assume(b)` of a variable,
would make the slice weaker than the equation (hazard at
`partitioning_slice.cpp:306`). In `theoref` three definitions and an assertion with a
guard, whose condition binds nothing when it is weak, give traces with one, several and
no violated expressions, from either end; four symbols with two values are enough for
values that are bound, invented or missing beside each other. Unsupported operators stand in a
definition or in the condition. `MCOptions` leaves out heuristics 6 and 7, whose inner
loop does not end (`theory_refiner.cpp:263`), and assumptions are exact, since
the code never refines them. No counter is capped but `upgrades`: `max_id` is
bounded since every run of the checker ends.

**Fairness.** `WF_vars(Next)`: one thread that runs to its end. The solver is
assumed to answer; nothing is assumed about which answer. The end of the program
is a state without successor, hence `CHECK_DEADLOCK FALSE`; that every other state
has a successor is what `Terminates` shows. `CycleSpec` has `WF` of `Advance`, the
steps of a process that runs; whether it is killed and what is submitted next is up
to the user, and nothing is assumed about it. `SliceSpec` and `TheorySpec` have `WF`
of their next-state relation: both are loops of one thread.

**The disagreements with the code's comments and messages** are listed in
`PROJECT.json` under `findings`. `interpolation` contradicts the comment of
`sanity_check`; it matters for the *next* upgrade, as `PriorProof` is what makes
skipping sound, and an upgrade does not re-establish it for the calls it touched.
`silent` contradicts the message "The program models are identical". `homonyms`
contradicts the verdict itself: the call of f in g gets the (weaker) summary f had
in h; the new f is checked against that one and passes, so that g, whose own summary
needed the stronger one, is never marked. `diffed` shows that this needs a function
that is called twice. `renumbered` contradicts the unit test of the store, which
stores one summary and so has no gap; with `VerdictSound` in place of
`SummaryIDsRemain` in its configuration TLC finds a second upgrade that is
validated although it is unsafe. `unrolled` contradicts the error formula the code
itself builds: it asks for one failing copy of the assertion, the refinement for
all of them.

Two more departures are visible in the model without a run of their own: with
qflia (offered by `parser_upprover.cpp:27`) an invalid summary is neither removed
nor detached, and with prop a summary that was read from the file is never found by
its id, so that none is ever validated (`InvalidKept`, `Unknown`). Neither makes a
verdict wrong.

## 4. Proofs

### `SummaryValidationProofs`

`SummaryValidationProofs` proves, for every call tree, every set of revisions,
every set of behaviours, each of the four logics and every interpolator language,
`Spec => []P` for `TypeOK`, `NoLostSummary`, `NodesOwnTheirSummary`,
`SummariesSound`, `VerdictSound`, `VerdictExact` and `RepairedIsLive`, and
`Spec => RightVerdict`: the check implements `IncrementalCheck`.

Assumptions: the named ones of the modules - the numbering of calls is a pre-order
(a caller comes before its calls, only `main` is called by the entry point), every
path makes calls of its own body, `Lang` is a set of formulas, `Logic` is one of
four - and, in `Init`, `PriorProof`.

The argument. None of them is inductive. The invariant is

    IInv == TypeOK /\ Control /\ Owned /\ Candidate /\ QueriesSound
            /\ (\E E \in Env : Prior(E)) /\ Verdict

- `Control`: which `task`, `cur` and `houdini` go with which `phase`.
- `Owned`: ids of calls are distinct and below `max_id`, a live summary is of the
  function of its call, and a call with precision SUMMARY has one. `SUMMARY` and a
  dead id would be reachable if `remove_node_sumID` did not reset the precision.
- `Candidate`: the call under check holds the summary that is being checked, and is
  itself encoded by its body.
- `QueriesSound`: `Concrete(ver)`, what the calls really do, is below the summaries of
  the calls already passed (`SummariesSound`), below everything `asserted` in the
  solver, below the goal once a query was answered by a proof, and below each
  conjunct accepted by Houdini (whose candidate is a single atom while it is tried).
- `Prior(E)`: the environment `E` of the previous proof still supports the
  calls to come: those the traversal has not reached have their old summaries, if
  any, and a passed call is below `E` unless its caller is marked. `E` does not
  change during the run, which is why it is under a single existential.
- `Verdict`: what `validated` means at the end, and that a call whose check failed
  leaves another one, up the tree, that must still be checked.

The lemma that carries the weight is `RelativelyClosed`: if `X` allows what the
abstract calls of a query do, and the bodies of the inlined ones keep `X`, then
`X` allows what the whole subtree does - the least fixed point is intersected with
`X` and shown closed. It gives the soundness of a query (`QuerySound`), with what
is asserted intersected in, and of a skip (`SkipSound`). `RefutedUnsafe` is its
converse for `VerdictExact`: if all calls of the final query are inlined or
unreached, no proof means that `Concrete` itself violates the goal.

The invariant holds of any state that satisfies `Start` (`StartInvariant`): `Init` is
one way to get there, `Load` of `DiffedUpgrade` another.

### `OmegaDiffProofs`

For every set of revisions whose calls unroll to finite depth, and bodies of any
length: `DiffTypeOK`, `SummariesNotShared`, `CommonIsLongest` and `ResultExact`.
Assumptions: `RevisionsAssumption` (every function that is called is there, the
entry point calls the initialiser first) and `UnrolledAssumption` (no function
calls itself, so that `Depth` is enough).

*Summaries.* The invariant is `DiffInv == DiffTypeOK /\ Given /\ Progress`: the ids of
the old entries are distinct (`Given`, from the numbering in `Omega`, lemma
`OmegaFacts`), and every id given to a new call is that of an old call in
`locs_visited` with the same name (`Progress`). An old call is matched only outside
`locs_visited`, so its id is fresh.

*The table.* `Common` is a recursive function over pairs of lengths. Every entry of
the table is a longest common subsequence of the two prefixes, by an induction over
the sum of the lengths that `UpTo` provides (the induction theorems of the library
are out of the prover's reach; `UpTo` takes induction on an interval from the
pigeonhole principle of `FiniteSetTheorems`). `Subsequences` numbers the elements that
are left by their rank, so its members are related to increasing embeddings first.
That `Same(a, b)` is equality of texts is a consequence.

*The result.* do_diff conjoins as many flags as there are *old* calls, and reads past
the end of the vector when there are more of them than new ones. That the
answer is right nonetheless is an argument by counting: every preserved new call has
an old call of its own (`MatchOf`, an injection), so flags that are all set, for as many
calls as the old revision has, leave no old call over; the bodies of all
functions called are then the same text, and what a revision unrolls to depends only
on the calls the bodies make, hence both unroll to the same calls. Conversely two
revisions with the same text are compared in step (`InStep`): every call is matched
with itself, whichever functions are called how often. The theorem has the hypothesis
`StartAlike`: the bodies of entry point and initialiser are never compared, so if one
revision's initialiser made a call the other's does not, the flags would say nothing
about it. In C neither can happen; MCOmegaDiff assumes it of its revisions as well, so
that TLC evaluates it.

### `PartitioningSliceProofs`

For every set of equations and every order in which symbols are taken:
`SliceTypeOK`, `NothingDangling`, and, as `SliceChangesNothing`, `SliceExact` for
equations in static single assignment form, with calls by body, summary or stub. The
invariant is `SliceTypeOK /\ Looked`: the roots are waiting or processed, and whatever
a processed symbol brings in is kept, or waiting or processed. At the end nothing
waits, so the kept steps and the needed summaries are closed under definitions.

`SliceExact` is about more than that. A model of the slice satisfies every summary, but
the assignments that were dropped may contradict it, and giving them their values can
break a summary that was not needed, whose outputs then have to change as well.
`StaticSingleAssignment` is what the SSA form promises: an assignment, or a summary,
depends on the symbols in it and can be satisfied by the choice of what it sets,
whatever the others are (`Constrained`), and there is an order of them, that of
the program, in which nothing is set after it is used (`InOrder`). It need not be
the order of the steps in the equation, which stand partition by partition. It holds
because symbolic execution renames a symbol at each assignment, `insert_substituted`
puts the interface symbols of a call in place of those of its summary, and a summary
over-approximates a body, which returns for all arguments or whose callend is then
false. `MCPartitioningSlice` and `MCTheoryRefinement` name the order and assume the form
of their equations, so that TLC evaluates it. In that order the dropped definers are
satisfied one after the other (`InTurn`, by the pigeonhole principle, `UpTo`), and no
kept step and no needed summary mentions a symbol that this changes (`KeptApart`,
`Extension`).

### `TheoryRefinementProofs`

For every set of equations, encodings that over-approximate, and options:
`TheoryTypeOK`, `RefinedAreSatisfied`, `NoneOverlooked`; `HoldsSound` when the equation
has one assertion (`SingleAssertion`, which `unrolled` violates). The invariant says of
the trace that it agrees with a model of the solver where bit vectors are bound, and
that what was walked past is refined or satisfied (`Walking`). `RefinedHold` goes from
there to the bit vectors that satisfy the refined expressions, which look at nothing
but their own variables. `FormulaComplete`: refining expressions loses no run that
violates the assertion.

`FailsExact` has four hypotheses. The equation is in static single assignment form.
`ExactAssumptions`: what the program assumes is encoded exactly, as it is never refined.
`SupportedAreExact`: bit vectors are exact but for fresh variables, and what is false as
bit vectors is false as uninterpreted functions. `AssumedAreBound`: refining an
assignment binds all its variables, and if something is assumed of a variable that a
condition leaves unbound, the variable has a definition. The point of the proof
(`FormulaExact`) is that the solver's model and the bit vectors need not agree on the
variables of a condition. A run of the slice is put together from both: the bit
vectors for the variables of expressions, the model for all others. It satisfies the
expressions, which are exact, and also the assumptions: a variable they share with an
expression is bound, by its definition if not otherwise, which the slice kept
(`AssumedBound`). `SliceIsExact` then gives a run of the program. The proof ends where
an operator is not supported, which is where the code says "ASSERTION UNKNOWN".
`MCTheoryRefinement` assumes all these hypotheses of the instance of `theoref`.

### `UpgradeCycleProofs`

With prop, for every call tree, every set of revisions and any number of upgrades:
`NoForeignSummary` and `SummaryIDsRemain`. The invariant `CycleInv` says that the
file has what the store has, under the same ids (`Filed`), and that when it has
more (`~ Synced`) a check is `Pending`: a step that drops a summary leaves a call to be
checked, so that the upgrade is not validated before a proof has written the file
again, or it is refused.

### `UpgradeVerdictProofs`

With prop, for every call tree, every set of revisions and any number of upgrades,
failures and kills: `CycleTypeOK`, and every verdict is right (`VerdictsAreRight`,
the safety half of `RightVerdicts`). Here nothing like `PriorProof` is assumed of a
run: it starts from whatever the files hold. The invariant is
`SoundInv == Typed /\ DiskSound /\ RunSound`.

- `DiskSound`: a summary of the file that `__omega` refers to over-approximates what
  its call does in the base revision (`OmegaSound`; by `NoForeignSummary` it is still
  the one that was meant).
- `RunSound`, until `main` is asked (`WalkSound`): a call that was passed does no
  more than in the base revision, or is inlined and its caller marked. That is all
  there is, as no summary that was read can be validated.
- `RunSound`, from then on (`AskSound`): the summaries in use and those asserted
  over-approximate their calls in the *new* revision, and the answer is exact. New
  interpolants are sound by `ProofSound`, the lemma `SummaryValidationProofs` takes
  its own queries from; so is what `Validated` writes to `__omega`.

`CleanRunsMissNothing` is proved from the same invariants and
`CleanInv == clean => Backed /\ Settled`: as long as nothing went wrong, a call encoded
by a summary has one that is in the store and no other call's (`Backed`), and once a
revision is validated, `__omega` is the call tree (`Settled`), so that what the next run
reads is `Backed` again. Without `clean` neither holds, as a run that is refused has
rewritten the summary file but not `__omega`.

### `SummaryOwnershipProofs`

With qfuf and qflra, for every call tree and every interpolator:
`NoOrphanSummary`. A proof overwrites the ids of the calls it inlines, so the
invariant `Tidy` has to say that a call is never inlined while it holds a summary:
not the calls already passed (`PassedDetached`), not those diff found unchanged
(`UntriedSummarized`), not the one under repair (`RepairDetached`). With qflia and
prop `validate_node` leaves an invalid or unknown summary where it is, and the
property is not claimed.

With every logic: the action property `SkippedIsSupported`, that the marks are enough.
The difficulty is that the summaries below a skipped call need not be the old ones: a
call further down may have been weakened, or generated anew by a query above it. What
does not change is that *one* environment `E`, that of the old proof, explains all
calls to come, together with a set `R` of passed calls that still are what `E` takes them
for (`Kept`): those with a summary have one that implies `E`, those without are
unchanged and have their calls in `R` as well. A passed call whose caller is not marked
is in `R`. When the check of `cur` starts, `Subtree(cur)` is shed from `R`, as its query
may do anything to it; if the check succeeds, `cur` comes back with its validated
summary, and if not, its caller is marked. `E` is not the environment `Supported` asks
for: that one is built from the summaries there are, and `E` only bounds it.

### `DiffedUpgradeProofs`

For all revisions, every `__omega` and every proof of the old revision, diff and
validation together:

- `IdenticalRevisionsAreSafe`: a revision that is taken for identical, and not checked,
  is safe, also where functions are called several times;
- `DiffEstablishesProof`: `OnceCalled => (UpgradeSpec => DiffKeepsProof)`;
- `UpgradesAreSound`, `UpgradesAreExact`: `OnceCalled => (UpgradeSpec => []P)` for
  `VerdictSound` and `VerdictExact`.

`OnceCalled` says that no function is called twice in one revision. It is what `diffed`
assumes of its instance (`MCOnceCalled`), and it cannot be dropped: the run `homonyms` is
the counterexample.

The proof of the old revision speaks of its calls, the traversal of the new ones, and
diff relates them by position in pre-order. So the first part is about the unrolling:
the calls are well nested (`Nested`, by induction over the depth), hence those below
call n are the calls its body makes, in their order (`CallsBelow`). The second part is
`SameDeeds`: of functions with the same text, a new call does no more than its old
partner if its calls do no more than theirs. The invariant while diff runs,
`Comparing`, adds to that of `OmegaDiff` what the entries say (`OldEntries`,
`NewEntries`), that the old proof still explains them (`OldProven`) and that nothing of
the traversal moved (`Waiting`). For an identical revision the partner of call n is
call n + 1 of the old one and the old environment is the proof. For any other, `Load`
takes for call n what the old environment says of the only old call of its function:
`LoadedProof` shows that this is a `PriorProof`, and `LoadedStart` that the whole state
satisfies `Start`. From there the invariant of the upgrade,
`Upgrading == Comparing /\ (stage = "validate" => IInv)`, is preserved by
`NextInvariant` of `SummaryValidationProofs`.

### What is not proved

Liveness is out of the prover's reach: `Terminates`, `SliceEnds`, `AnswerGiven`, and
the liveness half of `RightVerdicts`. All
other properties of the passing runs are theorems, under the hypotheses given
above: prop for the files of `UpgradeCycle`, `StartAlike` and `OnceCalled` for diff,
static single assignment form for the slice and, for theory refinement, one assertion
or the hypotheses of `FailsExact`.

## 5. Plan

In place: `CallTreePrograms`, `SummaryValidation`, `OmegaDiff`, `DiffedUpgrade`,
`IncrementalCheck`, `UpgradeCycle`, `PartitioningSlice`, `TheoryRefinement`, and the
proofs above. What could follow:

1. `UpgradeCycle` over diffed call trees.
2. The refinement of calls over a sliced equation (the stand-alone checker slices once,
   before the first query), the other refinement modes and the unwinding of
   recursion.

## 6. Not modelled

- The bootstrapping check `check_initial`: a full check of the first revision, which
  produces what `Init`, `OldProof` and `CycleInit` describe. `sanity_check` ends the
  process.
- The stand-alone checker. Its assertions are checked one by one, each as the final
  check of `SummaryValidation`; what its claims could share are summaries, but
  the names of stored SMT summaries carry a counter, so that `function_has_summaries`
  finds none, and with prop `fill_summary_partition` throws for a call without id
  (`partitioning_target_equation.cpp:123-140`). `check_sum_theoref_single`, the only
  mode that changes the logic between queries, shares this; it also leaves the option
  `logic` at prop for the claims after it (`core_checker.cpp:1073`).
- Claim dependencies: only with `claims-opt`, and without effect, as its relations are
  computed and dropped (`dependency_checker.cpp:574-700`).
- Random and force-inlining refinement, the unwinding of recursion.
- Partial writes of a file, and the text of the formats.
- Inside theory refinement: which numbers `build_goto_trace_formula` gives to
  uninterpreted values (equal ones for equal values; the model allows any), and that
  identical unsupported operands share one fresh variable
  (`smtcheck_opensmt2_cuf.cpp:91-95`; the model gives each expression its own).
- Bit-blasting and the truncation to `--bitwidth`, the encodings of expressions into
  each logic, error traces, option parsing and output: data, without a protocol.
- OpenSMT, Z3, MiniSat and the CPROVER libraries, which are external. They, with the
  regression programs, are nearly all of the repository (748 601 lines, of which
  `funfrog` has about 27 000), so the part the modules map is small against the whole;
  of the files of the check itself (`summary_validation.cpp`, `diff.cpp`, the stores, the
  call tree, `partitioning_slice.cpp`, `theory_refiner.cpp`) little is left out.
