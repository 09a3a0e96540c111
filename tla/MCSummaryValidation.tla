------------------------ MODULE MCSummaryValidation ------------------------
(***************************************************************************)
(* Small programs for SummaryValidation: three calls in a chain            *)
(* (main - 2 - 3) over three behaviours, and four calls (main - 2,         *)
(* main - 3 - 4), of which 2 and 4 call one function, over two.            *)
(***************************************************************************)
EXTENDS SummaryValidation, TLC

MCVal  == 1 .. 3
MCSafe == {1, 2}

ChainParent == <<0, 1, 2>>
OwnFn       == <<"main", "f", "g">>

\* Interpolants of every set of behaviours, in every shape Houdini tells apart:
\* constants, atoms, an And, an Or, an Or with an And inside.
MCLang == { {},
            {{}},
            {{{1, 2}, {1, 3}}},
            {{{1, 2}, {2, 3}}},
            {{{3}}},
            {{{1, 2}}},
            {{{2}}, {{3}}},
            {{{1}}, {{1, 3}, {2, 3}}} }

\* A body that makes no call, and one that computes its result from that of c.
Leaf(S)       == {[calls |-> << >>, out |-> b] : b \in S}
Through(c, g) == {[calls |-> c :> a, out |-> g[a]] : a \in MCVal}

Id       == <<1, 2, 3>>
Saturate == <<1, 2, 2>>
Cycle    == <<2, 3, 1>>

ChainVersions ==
  {<<Through(2, g), Through(3, h), Leaf(S)>> :
     g \in {Id}, h \in {Id, Saturate, Cycle}, S \in {{1}, {1, 2}, {3}}}

-----------------------------------------------------------------------------
TreeParent == <<0, 1, 1, 3>>
TreeFn     == <<"main", "f", "g", "f">>
TreeVal    == 1 .. 2
TreeSafe   == {1}
TreeLang   == { {}, {{}}, {{{1}}}, {{{2}}} }

\* main goes wrong (2) if 2 or 3 does, or only if both do; 2 may go wrong; 3 does
\* what 4 does, which is well, or the contrary.
Either == (<<1, 1>> :> 1) @@ (<<1, 2>> :> 2) @@ (<<2, 1>> :> 2) @@ (<<2, 2>> :> 2)
Together == (<<1, 1>> :> 1) @@ (<<1, 2>> :> 1) @@ (<<2, 1>> :> 1) @@ (<<2, 2>> :> 2)
OfFour(h) == {[calls |-> 4 :> a, out |-> h[a]] : a \in TreeVal}
OfTwoAndThree(g) == {[calls |-> 2 :> a @@ 3 :> b, out |-> g[<<a, b>>]] :
                       a \in TreeVal, b \in TreeVal}
TreeVersions ==
  {<<OfTwoAndThree(g), Leaf({1, 2}), OfFour(h), Leaf({1})>> :
     g \in {Either, Together}, h \in {<<1, 2>>, <<2, 1>>}}
=============================================================================
