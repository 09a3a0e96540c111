--------------------------- MODULE MCUpgradeCycle ---------------------------
(***************************************************************************)
(* A small program for UpgradeCycle: three calls in a chain                *)
(* (main - 2 - 3), each of which does well (1) or goes wrong (2).          *)
(***************************************************************************)
EXTENDS UpgradeCycle, TLC

MCVal  == 1 .. 2
MCSafe == {1}
MCLang == { {}, {{}}, {{{1}}}, {{{2}}} }

ChainParent == <<0, 1, 2>>
OwnFn       == <<"main", "f", "g">>

Leaf(S)       == {[calls |-> << >>, out |-> b] : b \in S}
Through(c, g) == {[calls |-> c :> a, out |-> g[a]] : a \in MCVal}

\* main passes on what 2 does, or does well whatever that is; 2 passes on what 3
\* does, or the contrary.
ChainVersions ==
  {<<Through(2, g), Through(3, h), Leaf(S)>> :
     g \in {<<1, 2>>, <<1, 1>>}, h \in {<<1, 2>>, <<2, 1>>}, S \in {{1}, {2}}}
=============================================================================
