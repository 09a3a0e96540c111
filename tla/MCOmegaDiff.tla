----------------------------- MODULE MCOmegaDiff -----------------------------
(***************************************************************************)
(* Small programs for OmegaDiff: main calls f and g, g may call f, in      *)
(* several orders and numbers, so that revisions add, remove and swap      *)
(* calls of the same function on two levels.                               *)
(***************************************************************************)
EXTENDS OmegaDiff

Do(t)         == [text |-> t, call |-> NoCall, rest |-> "-"]
Jump(t, to)   == [text |-> t, call |-> NoCall, rest |-> to]
CallOf(f)     == [text |-> "call", call |-> f, rest |-> "-"]
Function(t, b) == [type |-> t, body |-> b]

Program(init, main, g, f) ==
  [n \in {"start", "init", "main", "f", "g"} |->
     CASE n = "start" -> Function("int", <<CallOf("init"), CallOf("main")>>)
       [] n = "init"  -> Function("void", init)
       [] n = "main"  -> Function("int", main)
       [] n = "g"     -> g
       [] n = "f"     -> f]

Mains == {<<CallOf("f"), CallOf("g"), Do("assert")>>,
          <<CallOf("g"), Do("x"), CallOf("f")>>,
          <<CallOf("g")>>,
          <<CallOf("f"), Do("x"), CallOf("f"), CallOf("g")>>}
Gs    == {Function("int", <<CallOf("f"), Do("y")>>),
          Function("int", << >>)}
Fs    == {Function("int", <<Do("x"), Do("y"), Do("x")>>),
          Function("int", <<Do("y"), Do("x"), Do("x")>>),
          Function("long", <<Do("x")>>)}

MCRevisions == {Program(<<Do("g = 0")>>, m, g, f) : m \in Mains, g \in Gs, f \in Fs}

\* Revisions that differ in what is not compared only: the initial value of a
\* global, the target of a jump.
SilentRevisions ==
  {Program(<<Do(i)>>, <<CallOf("f"), CallOf("g")>>, Function("int", << >>),
           Function("int", <<Jump("if (c) goto", to), Do("x"), Do("y")>>)) :
     i \in {"g = 0", "g = 1"}, to \in {"2", "3"}}

\* Their entry points and initialisers make the same calls, as the theorem about
\* ResultExact requires.
ASSUME RevisionsAlike == StartAlike
=============================================================================
