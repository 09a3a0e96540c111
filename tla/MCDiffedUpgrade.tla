--------------------------- MODULE MCDiffedUpgrade ---------------------------
(***************************************************************************)
(* Upgrades to programs in which main calls g, and g calls f.              *)
(***************************************************************************)
EXTENDS DiffedUpgrade, TLC

MCParent == <<0, 1, 2>>
MCFnOf   == <<"main", "g", "f">>
MCVal    == 1 .. 2
MCSafe   == {1}
MCLang   == { {}, {{}}, {{{1}}}, {{{2}}} }

Do(t)     == [text |-> t, call |-> NoCall, rest |-> "-"]
CallOf(f) == [text |-> "call", call |-> f, rest |-> "-"]

\* A function that makes no call; one that computes its result from its only call;
\* one that does so from the second of two.
Leaf(t, S)     == [type |-> "int", body |-> <<Do(t)>>,
                   does |-> {[in |-> << >>, out |-> b] : b \in S}]
Via(f, t, g)   == [type |-> "int", body |-> <<CallOf(f), Do(t)>>,
                   does |-> {[in |-> <<a>>, out |-> g[a]] : a \in MCVal}]
ViaSecond(e, f) == [type |-> "int", body |-> <<CallOf(e), CallOf(f), Do("return")>>,
                   does |-> {[in |-> <<a, b>>, out |-> b] : a, b \in MCVal}]
Long(fn)       == [fn EXCEPT !.type = "long"]

Id == <<1, 2>>

Program(fns) ==
  fns @@ "start" :> [type |-> "int", body |-> <<CallOf("init"), CallOf("main")>>,
                     does |-> {}]
      @@ "init" :> Leaf("g = 0", {1})

Fs == {Leaf("return 1", {1}), Leaf("return 2", {2}), Leaf("return nondet", {1, 2}),
       Long(Leaf("return 1", {1}))}
Gs == {Via("f", "return f", Id), Via("f", "return 3 - f", <<2, 1>>)}

MCNew == {Program("main" :> Via("g", "return g", Id) @@ "g" :> g @@ "f" :> f) :
            g \in Gs, f \in Fs}

\* The old revisions: the same calls, f called by main instead of g, no call of f,
\* and one more function.
MCVersions == {VersionOf(r) : r \in MCNew}

MCOld ==
  MCNew \cup
  {Program("main" :> ViaSecond("f", "g") @@ "g" :> Leaf("return 1", {1}) @@ "f" :> f) :
     f \in Fs} \cup
  {Program("main" :> Via("g", "return g", Id) @@ "g" :> Leaf("return 1", {1})),
   Program("main" :> ViaSecond("h", "g") @@ "h" :> Leaf("return 2", {2})
           @@ "g" :> Via("f", "return f", Id) @@ "f" :> Leaf("return 1", {1}))}

MCRevisions == MCOld \cup MCNew
ASSUME MCOnceCalled == \A r \in MCRevisions : CalledOnce(r)

\* f called twice: by h, whose call is removed, and by g.
HomonymOld ==
  {Program("main" :> ViaSecond("h", "g") @@ "h" :> Via("f", "return 0", <<1, 1>>)
           @@ "g" :> Via("f", "return f", Id) @@ "f" :> Leaf("return 1", {1}))}
HomonymRevisions == HomonymOld \cup MCNew
=============================================================================
