-------------------------- MODULE CallTreePrograms --------------------------
(***************************************************************************)
(* What the incremental checker reasons about: a program unrolled to its   *)
(* call tree, the bodies of the calls, and the summaries of the calls.     *)
(*                                                                         *)
(* A call (call_tree_nodet) is a number: its position in the vector        *)
(* subst_scenariot::functions, a pre-order walk of the tree, without       *)
(* position 0 (__CPROVER_initialize, never checked).  main is position 1.  *)
(*                                                                         *)
(* What a call may do is a value of Val.  A body is a set of paths; a path *)
(* makes some of the calls of the body and, if those calls did what the    *)
(* path expects, does one thing itself.  A summary is a formula in         *)
(* disjunctive form over atoms, an atom being the set of values it allows; *)
(* the two questions Houdini asks of a formula (is it an And, is it an Or) *)
(* are questions about its shape.                                          *)
(***************************************************************************)
EXTENDS Integers, FiniteSets

CONSTANTS
  NumCalls,   \* the calls of the tree are 1..NumCalls
  Parent,     \* the caller of each call; 0 is the entry point, caller of main
  Fn,         \* function names
  FnOf,       \* the function each call calls
  Val,        \* the behaviours of a call
  Safe,       \* the behaviours of main that violate no assertion
  Versions    \* the revisions of the program: each gives every call a body

Call == 1 .. NumCalls
Main == 1
Children(n) == {c \in Call : Parent[c] = n}

Path(n) == [calls : UNION {[S -> Val] : S \in SUBSET Children(n)}, out : Val]

ASSUME CallsAssumption  == NumCalls \in Nat \ {0}
ASSUME ParentAssumption == /\ Parent \in [Call -> Nat]
                           /\ \A c \in Call : Parent[c] < c
                           /\ \A c \in Call : Parent[c] = 0 => c = Main
ASSUME FnAssumption     == FnOf \in [Call -> Fn]
ASSUME SafeAssumption   == Safe \subseteq Val
ASSUME VersionAssumption ==
  \A v \in Versions, n \in Call : v[n] \subseteq Path(n)

(***************************************************************************)
(* Bodies.                                                                 *)
(***************************************************************************)
\* What each call may do.
Env == [Call -> SUBSET Val]

\* What the body of n may do when its calls do what X allows.
Post(v, n, X) ==
  {p.out : p \in {q \in v[n] : \A c \in DOMAIN q.calls : q.calls[c] \in X[c]}}

\* X allows at least what the program can do.
Closed(v, X) == \A n \in Call : Post(v, n, X) \subseteq X[n]

\* What the calls of revision v really do: the least closed environment.
Concrete(v) ==
  [n \in Call |-> {b \in Val : \A X \in Env : Closed(v, X) => b \in X[n]}]

\* No assertion of revision v can be violated.
IsSafe(v) == Concrete(v)[Main] \subseteq Safe

(***************************************************************************)
(* Formulas.                                                               *)
(***************************************************************************)
Atom    == SUBSET Val
Cube    == SUBSET Atom
Formula == SUBSET Cube

Models(f) == {b \in Val : \E cube \in f : \A a \in cube : b \in a}

\* logic->isAnd, logic->isOr: a formula with one argument is that argument.
IsConjunctive(f) == \E cube \in f : f = {cube} /\ \E a, b \in cube : a # b
IsDisjunctive(f) == \E c, d \in f : c # d

\* Logic::varsubstitute of atoms by true, wherever they occur.
Without(f, atoms) == {cube \ atoms : cube \in f}

\* The constants true and false.
IsConstant(f) == f = {{}} \/ f = {}
=============================================================================
