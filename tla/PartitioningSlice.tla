--------------------------- MODULE PartitioningSlice ---------------------------
(***************************************************************************)
(* partitioning_slice.cpp: which SSA steps of an equation the solver gets. *)
(*                                                                         *)
(* An equation is what symbolic execution makes of a program: the steps of *)
(* the partitions that are represented by their bodies, and the calls.  A  *)
(* step constrains an assignment of values to the symbols; the assumptions *)
(* of an equation stand before its assertions.  Only assignments are       *)
(* sliced: the slicer starts from the symbols of the assertions, of the    *)
(* assumptions and of the call starts, and brings back the definitions,    *)
(* the assumptions and the summaries a symbol depends on, one symbol at a  *)
(* time.                                                                   *)
(***************************************************************************)
EXTENDS Integers, Sequences

CONSTANTS
  Symbol,     \* SSA symbols
  Value,      \* what a symbol may be
  NoSymbol,   \* no left side
  Equations   \* the equations that are sliced, each under a name

Assignment == [Symbol -> Value]

\* allow: the assignments the step allows; an assert allows those that violate it.
Step == [kind : {"assign", "assume", "assert"}, lhs : Symbol \cup {NoSymbol},
         guard : SUBSET Symbol, uses : SUBSET Symbol,
         bare : BOOLEAN,                \* the condition is one symbol
         allow : SUBSET Assignment]

\* A partition; start and end are its callstart and callend symbols, errors has its
\* error symbol, if there is an assertion in its subtree.
CallSite == [rep : {"body", "summary", "stub"}, start : Symbol, end : Symbol,
             errors : SUBSET Symbol, args : SUBSET Symbol, outs : SUBSET Symbol,
             allow : SUBSET Assignment]

AssertionInSubtree(call) == call.errors # {}

ASSUME SymbolAssumption == NoSymbol \notin Symbol
\* A call with an assertion in its subtree is inlined (set_initial_precision).
ASSUME EquationAssumption ==
  \A q \in DOMAIN Equations :
     /\ Equations[q].steps \in Seq(Step) /\ Equations[q].calls \in Seq(CallSite)
     /\ \A i \in DOMAIN Equations[q].steps :
          Equations[q].steps[i].kind = "assign" => Equations[q].steps[i].lhs \in Symbol
     /\ \A c \in DOMAIN Equations[q].calls :
          Equations[q].calls[c].rep = "summary" => ~AssertionInSubtree(Equations[q].calls[c])

VARIABLES
  eq,         \* the name of the equation
  depends,    \* symbols that are needed and not looked at yet
  processed,  \* symbols that were
  kept        \* the steps that are not ignored

sliceVars == <<eq, depends, processed, kept>>

-----------------------------------------------------------------------------
(***************************************************************************)
(* prepare_maps.                                                           *)
(***************************************************************************)
step  == Equations[eq].steps
calls == Equations[eq].calls
Steps == DOMAIN step
Kind(k) == {i \in Steps : step[i].kind = k}

\* The symbols get_symbols finds in a step.
Mentions(i) == step[i].guard \cup step[i].uses

\* def_map
Definition(id) == {i \in Kind("assign") : step[i].lhs = id}

BareAssumptions == {i \in Kind("assume") : step[i].bare}

\* assume_map: an assumption that is one symbol, and when that is the callend of a
\* call, also when an output of the call is needed.
Assumptions(id) ==
  {i \in BareAssumptions :
     \/ id \in step[i].uses
     \/ \E c \in DOMAIN calls : /\ calls[c].end \in step[i].uses
                                   /\ id \in calls[c].outs}

\* A variant with a bug: a summary does not need the arguments of the call.
SummaryArguments_None(id) == {}

\* summary_map: the arguments of the call that has id as an output.
SummaryArguments(id) ==
  UNION {calls[c].args : c \in {d \in DOMAIN calls :
                                     /\ calls[d].rep = "summary"
                                     /\ ~AssertionInSubtree(calls[d])
                                     /\ id \in calls[d].outs}}

\* A variant with a bug: only the assertions count.
Roots_AssertionsOnly == UNION {Mentions(i) : i \in Kind("assert")}

\* Assertions, assumptions that are not one symbol, call starts and error symbols.
Roots ==
  {calls[c].start : c \in DOMAIN calls}
    \cup (UNION {calls[c].errors : c \in DOMAIN calls})
    \cup UNION {Mentions(i) : i \in Kind("assert") \cup (Kind("assume") \ BareAssumptions)}

SliceInit ==
  /\ eq \in DOMAIN Equations
  /\ depends = Roots /\ processed = {}
  /\ kept = Steps \ Kind("assign")

-----------------------------------------------------------------------------
(***************************************************************************)
(* slice: the loop over depends.                                           *)
(***************************************************************************)
Needed(id) == Definition(id) \cup Assumptions(id)

\* A variant with a bug: a symbol is looked at again.
New_All(S, id) == S

\* get_symbols leaves out what is processed.
New(S, id) == S \ (processed \cup {id})

Take(id) ==
  /\ id \in depends
  /\ processed' = processed \cup {id}
  /\ kept' = kept \cup Needed(id)
  /\ depends' = (depends \ {id})
       \cup New(SummaryArguments(id) \cup UNION {Mentions(i) : i \in Needed(id)}, id)
  /\ UNCHANGED eq

Sliced == depends = {}

SliceNext == \E id \in Symbol : Take(id)
SliceSpec == SliceInit /\ [][SliceNext]_sliceVars /\ WF_sliceVars(SliceNext)

-----------------------------------------------------------------------------
(***************************************************************************)
(* Properties.                                                             *)
(***************************************************************************)
SliceTypeOK ==
  /\ eq \in DOMAIN Equations
  /\ depends \subseteq Symbol /\ processed \subseteq Symbol
  /\ depends \cap processed = {}
  /\ kept \subseteq Steps

\* What the solver gets: the definitions and assumptions of S, the summaries, and
\* that one of the assertions does not hold.
Allowed(S) ==
  LET steps == step
      asserts == Kind("assert")
      summaries == {c \in DOMAIN calls : calls[c].rep = "summary"}
  IN  {a \in Assignment : /\ \A i \in S \ asserts : a \in steps[i].allow
                          /\ \E i \in asserts : a \in steps[i].allow
                          /\ \A c \in summaries : a \in calls[c].allow}

\* The program can violate an assertion.
CanFail == Allowed(Steps) # {}

\* Slicing changes no verdict: what is left has a model only if all of it has one.
SliceExact == Sliced => (Allowed(kept) # {} <=> CanFail)

\* What is kept stands with its definitions: no symbol of a kept step was left
\* undefined by the slice (but of an assumption that is one symbol), and no argument
\* of a summary one of whose outputs is needed.
NothingDangling ==
  Sliced =>
    /\ \A i \in kept \ BareAssumptions :
         \A id \in step[i].guard \cup step[i].uses : Definition(id) \subseteq kept
    /\ \A c \in DOMAIN calls :
         (calls[c].rep = "summary" /\ calls[c].outs \cap processed # {})
           => \A arg \in calls[c].args : Definition(arg) \subseteq kept

\* The loop ends, however the symbols depend on each other.
SliceEnds == <>Sliced

-----------------------------------------------------------------------------
(***************************************************************************)
(* Static single assignment: what SliceExact relies on.                    *)
(***************************************************************************)
\* The symbols the constraint of a step, and of the summary of a call, is about.
About(s) == s.guard \cup s.uses \cup (IF s.kind = "assign" THEN {s.lhs} ELSE {})
AboutCall(c) == {c.start, c.end} \cup c.args \cup c.outs

\* Whether an assignment is allowed depends on vars.
OnlyAbout(allow, vars) ==
  LET Seen(a) == [x \in vars |-> a[x]]
      seen == {Seen(a) : a \in allow}
  IN  \A a \in Assignment : Seen(a) \in seen => a \in allow

\* There are values for vars whatever the other symbols are.
Determines(allow, vars) ==
  LET Others(a) == [x \in Symbol \ vars |-> a[x]]
      others == {Others(a) : a \in allow}
  IN  \A a \in Assignment : Others(a) \in others

\* What gives symbols their values: the assignments and the summaries of q, each
\* with the symbols it sets, those it is about and the assignments it allows.
DefinerAt(q) ==
  LET s == Equations[q].steps
      c == Equations[q].calls
  IN  [d \in ({"step"} \X {i \in DOMAIN s : s[i].kind = "assign"})
               \cup ({"call"} \X {k \in DOMAIN c : c[k].rep = "summary"}) |->
         IF d[1] = "step"
         THEN [sets |-> {s[d[2]].lhs}, about |-> About(s[d[2]]), allow |-> s[d[2]].allow]
         ELSE [sets |-> c[d[2]].outs, about |-> AboutCall(c[d[2]]), allow |-> c[d[2]].allow]]

Definers(q) == DOMAIN DefinerAt(q)

\* Each definer sets its symbols whatever the others are; the assertions and the
\* assumptions constrain what they mention; callend symbols and assumptions that are
\* one symbol are not set.
Constrained(q) ==
  LET s == Equations[q].steps
      c == Equations[q].calls
      D == DefinerAt(q)
      set == UNION {D[d].sets : d \in Definers(q)}
  IN  /\ \A d \in Definers(q) : OnlyAbout(D[d].allow, D[d].about) /\ Determines(D[d].allow, D[d].sets)
      /\ \A i \in DOMAIN s : OnlyAbout(s[i].allow, About(s[i]))
      /\ \A i \in DOMAIN s : (s[i].kind = "assume" /\ s[i].bare) => set \cap About(s[i]) = {}
      /\ \A k \in DOMAIN c : c[k].end \notin set

\* The order of the program: no symbol is set twice or after it is used.  The steps of
\* an equation need not stand in that order, as they stand partition by partition.
InOrder(q, order) ==
  LET D == DefinerAt(q)
  IN  /\ \A d \in Definers(q) : \E k \in DOMAIN order : order[k] = d
      /\ \A j, k \in DOMAIN order :
            j < k => D[order[k]].sets \cap D[order[j]].about = {}

StaticSingleAssignment ==
  \A q \in DOMAIN Equations :
    Constrained(q) /\ \E order \in Seq(Definers(q)) : InOrder(q, order)
=============================================================================
