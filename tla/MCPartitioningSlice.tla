-------------------------- MODULE MCPartitioningSlice --------------------------
(***************************************************************************)
(* Equations of a small program for PartitioningSlice:                     *)
(*                                                                         *)
(*   x := h(in);  p := not x or not in;  r := f(p);  assume(..);           *)
(*   g := in;  y := g ? r or x : 1;  assert(g => y or x)                   *)
(*                                                                         *)
(* where f is represented by its body, by a summary or by a stub, and may  *)
(* assert (p => r) itself.  s and e are the callstart and callend of the   *)
(* call, err is its error symbol, g is a branch condition.                 *)
(***************************************************************************)
EXTENDS PartitioningSlice, TLC

LOCAL INSTANCE SequencesExt

MCSymbol == {"in", "x", "p", "r", "g", "y", "s", "e", "err"}
MCValue  == {0, 1}

\* The assignments in which t has a value of rel, for the values of the symbols from.
Where(P(_)) == {a \in Assignment : P(a)}

Assign(t, from, rel) ==
  [kind |-> "assign", lhs |-> t, guard |-> {}, uses |-> {from}, bare |-> FALSE,
   allow |-> Where(LAMBDA a : a[t] = rel[a[from]])]

\* A phi function: what t is where two branches meet.
Phi(t, g, from) ==
  [kind |-> "assign", lhs |-> t, guard |-> {}, uses |-> {g, from}, bare |-> FALSE,
   allow |-> Where(LAMBDA a : a[t] = IF a[g] = 1 THEN a[from] ELSE 1)]

Assumed(from) ==
  [kind |-> "assume", lhs |-> NoSymbol, guard |-> {}, uses |-> {from}, bare |-> FALSE,
   allow |-> Where(LAMBDA a : a[from] = 1)]

\* Violated when its guard holds and target is 0.
Asserted(g, target) ==
  [kind |-> "assert", lhs |-> NoSymbol, guard |-> {g}, uses |-> {g, target},
   bare |-> FALSE, allow |-> Where(LAMBDA a : a[g] = 1 /\ a[target] = 0)]

\* assume(callend), at the call.
CallEnd ==
  [kind |-> "assume", lhs |-> NoSymbol, guard |-> {}, uses |-> {"e"}, bare |-> TRUE,
   allow |-> Where(LAMBDA a : a["e"] = 1)]

Id == 0 :> 0 @@ 1 :> 1
Not == 0 :> 1 @@ 1 :> 0

\* What f may return for 0 and for 1: its body, which may assert something, computes
\* one value, a summary may allow several, a stub allows all.
CallsOfF ==
  [rep : {"body"}, asserts : BOOLEAN, of0 : {{0}, {1}}, of1 : {{0}, {1}}]
    \cup [rep : {"summary"}, asserts : {FALSE},
          of0 : {{0}, {1}, {0, 1}}, of1 : {{0}, {1}, {0, 1}}]
    \cup [rep : {"stub"}, asserts : {FALSE}, of0 : {{0, 1}}, of1 : {{0, 1}}]

Returns(f, v) == IF v = 0 THEN f.of0 ELSE f.of1

Body(f) ==
  [kind |-> "assign", lhs |-> "r", guard |-> {}, uses |-> {"p"}, bare |-> FALSE,
   allow |-> Where(LAMBDA a : a["r"] \in Returns(f, a["p"]))]

TheCall(f) ==
  [rep |-> f.rep, start |-> "s", end |-> "e", errors |-> IF f.asserts THEN {"err"} ELSE {},
   args |-> {"p"}, outs |-> {"r"},
   allow |-> Where(LAMBDA a : a["e"] = 1 => a["r"] \in Returns(f, a["p"]))]

\* Everything that the equations differ in.  No assumption stands after an assertion.
Choice ==
  {c \in [hx : {Id, Not}, from : {"x", "in"}, f : CallsOfF,
          assumed : {"nothing", "in", "x", "r"}, read : {"r", "x"}, target : {"y", "x"}] :
     /\ c.f.asserts => c.assumed = "nothing"
     /\ c.from = "in" => c.hx = Id
     /\ c.target = "x" => c.read = "r"}

Made(c) ==
  [steps |-> <<Assign("x", "in", c.hx), Assign("p", c.from, Not), CallEnd>>
             \o (IF c.f.rep = "body" THEN <<Body(c.f)>> ELSE << >>)
             \o (IF c.f.asserts THEN <<Asserted("p", "r")>> ELSE << >>)
             \o <<Assign("g", "in", Id)>>
             \o (IF c.assumed = "nothing" THEN << >>
                 ELSE <<Assumed(c.assumed)>>)
             \o <<Phi("y", "g", c.read), Asserted("g", c.target)>>,
   calls |-> <<TheCall(c.f)>>]

MCEquations == [c \in Choice |-> Made(c)]

\* The equations are in static single assignment form: a summary stands for the body
\* of f, which is the fourth step.
ProgramOrder(q) ==
  LET At(d) == IF d[1] = "step" THEN 2 * d[2] ELSE 7
  IN  SetToSortSeq(Definers(q), LAMBDA d, e : At(d) < At(e))

ASSUME EquationsAreStaticSingleAssignment ==
  \A q \in DOMAIN Equations :
     /\ Constrained(q)
     /\ ProgramOrder(q) \in Seq(Definers(q)) /\ InOrder(q, ProgramOrder(q))
=============================================================================
