------------------------------ MODULE OmegaDiff ------------------------------
(***************************************************************************)
(* upprover/diff.cpp: the syntactic comparison of two revisions, which     *)
(* carries the entries of __omega over from the calls of the old revision  *)
(* to those of the new one.                                                *)
(*                                                                         *)
(* Both revisions are unrolled to their calls, in pre-order.  A new call   *)
(* takes the entry, and with it the summary, of the first old call of the  *)
(* same function that no earlier new call took.  It is preserved when the  *)
(* two bodies, rendered as text, are equal; an unpreserved one is compared *)
(* along a longest common subsequence to find the calls that were added.   *)
(*                                                                         *)
(* A revision gives each function an interface and a body.  An instruction *)
(* has a text, the function it calls if it is a call, and the detail that  *)
(* cmd_str does not print: the target of a jump, the element an assignment *)
(* writes, a constant that is not an integer.                              *)
(***************************************************************************)
EXTENDS Integers, Sequences, FiniteSets, SequencesExt, FiniteSetsExt

CONSTANTS
  Revisions,    \* sets of functions: name -> [type, body]
  Entry,        \* the entry point, never compared itself
  Initializer,  \* __CPROVER_initialize, which Entry calls first
  NoCall,       \* in place of the callee of an instruction that is no call
  Depth         \* the longest chain of calls below Entry

\* The functions that the calls of a body call.
Callees(body) ==
  FlattenSeq([p \in DOMAIN body |->
                IF body[p].call = NoCall THEN << >> ELSE <<body[p].call>>])

ASSUME DepthAssumption == Depth \in Nat

ASSUME RevisionsAssumption ==
  \A r \in Revisions :
     /\ {Entry, Initializer} \subseteq DOMAIN r
     /\ \A f \in DOMAIN r : /\ r[f].body \in Seq(ToSet(r[f].body))
                           /\ Callees(r[f].body) \in Seq(DOMAIN r)
     /\ Callees(r[Entry].body) # << >> /\ Callees(r[Entry].body)[1] = Initializer

VARIABLES
  old, new,                     \* the two revisions
  functions_old, functions_new, \* their calls, in pre-order
  untouched,                    \* functions_new[i].second
  callhistory_old,              \* the entries of __omega, as read
  callhistory_new,              \* and as they will be written
  locs_visited,                 \* the old calls that were matched
  at,                           \* the new call to be compared next
  result                        \* what do_diff returned

inputs == <<old, new, functions_old, functions_new, callhistory_old>>
diffVars == <<inputs, untouched, callhistory_new, locs_visited, at, result>>

-----------------------------------------------------------------------------
(***************************************************************************)
(* collect_functions: the calls of a revision below Entry, in pre-order,   *)
(* each with its depth in the call tree.                                   *)
(***************************************************************************)
Unrolled(r) ==
  LET below[d \in 0 .. Depth] ==
        [f \in DOMAIN r |->
           FlattenSeq([k \in DOMAIN Callees(r[f].body) |->
              LET g == Callees(r[f].body)[k]
              IN  <<[fn |-> g, depth |-> Depth - d]>>
                  \o (IF d = 0 THEN << >> ELSE below[d - 1][g])])]
  IN  below[Depth][Entry]

Node == [fn : UNION {DOMAIN r : r \in Revisions}, depth : Nat]

\* No function calls itself, and Depth is enough to unroll a revision.
ASSUME UnrolledAssumption ==
  \A r \in Revisions : \A c \in ToSet(Unrolled(r)) :
     c.depth = Depth => Callees(r[c.fn].body) = << >>

\* calltree: the calls that the body of call n makes; the k-th of them.
Below(calls, n) ==
  {m \in n + 1 .. Len(calls) : /\ calls[m].depth = calls[n].depth + 1
                               /\ \A k \in n + 1 .. m : calls[k].depth > calls[n].depth}
Location(calls, n, k) ==
  CHOOSE m \in Below(calls, n) : Cardinality({j \in Below(calls, n) : j <= m}) = k

-----------------------------------------------------------------------------
(***************************************************************************)
(* The comparison of two bodies.                                           *)
(***************************************************************************)
\* cmd_str, form.
Text(body) == [p \in DOMAIN body |-> <<body[p].call, body[p].text>>]

\* A variant with a bug: the longer of two candidates is not looked for.
Common_First(a, b) ==
  LET lcs[p \in (0 .. Len(a)) \X (0 .. Len(b))] ==
        IF p[1] = 0 \/ p[2] = 0 THEN << >>
        ELSE IF a[p[1]] = b[p[2]] THEN Append(lcs[<<p[1] - 1, p[2] - 1>>], a[p[1]])
        ELSE lcs[<<p[1], p[2] - 1>>]
  IN  lcs[<<Len(a), Len(b)>>]

\* The common subsequence compare_str_vecs computes.
Common(a, b) ==
  LET lcs[p \in (0 .. Len(a)) \X (0 .. Len(b))] ==
        IF p[1] = 0 \/ p[2] = 0 THEN << >>
        ELSE IF a[p[1]] = b[p[2]] THEN Append(lcs[<<p[1] - 1, p[2] - 1>>], a[p[1]])
        ELSE LET up   == lcs[<<p[1] - 1, p[2]>>]
                 left == lcs[<<p[1], p[2] - 1>>]
             IN  IF Len(up) > Len(left) THEN up ELSE left
  IN  lcs[<<Len(a), Len(b)>>]

\* A variant with a bug: instructions added to the old body are not noticed.
Same_OldInNew(a, b) == Len(Common(a, b)) = Len(a)

Same(a, b) == Len(a) = Len(b) /\ Len(Common(a, b)) = Len(a)

\* do_proper_diff: the instructions of b it passes over before the last common
\* one is reached.
Added(a, b) ==
  LET c == Common(a, b)
      match[k \in 0 .. Len(c)] ==
        IF k = 0 THEN 0
        ELSE Min({p \in match[k - 1] + 1 .. Len(b) : b[p] = c[k]})
  IN  {p \in 1 .. match[Len(c)] : \A k \in DOMAIN c : match[k] # p}

-----------------------------------------------------------------------------
\* A variant with a bug: -1 is written for "no summary".
Stub_MinusOne == [fn |-> Initializer, prec |-> "INLINE", preserved |-> FALSE,
                  edge |-> TRUE, sum |-> -1]

\* stub_new_summs.
Stub == [fn |-> Initializer, prec |-> "INLINE", preserved |-> FALSE, edge |-> TRUE,
         sum |-> 0]

\* What the previous check left: the calls of S have a summary each.  The location
\* and the assertion flag of an entry are left out: restore_call_info does not read
\* the one, and the other is computed anew before it is used.
Omega(calls, S, other) ==
  [n \in DOMAIN calls |->
     [fn |-> calls[n].fn, prec |-> IF n \in S THEN "SUMMARY" ELSE other,
      preserved |-> FALSE, edge |-> FALSE,
      sum |-> IF n \in S THEN Cardinality({k \in S : k <= n}) ELSE 0]]

StartDiff(omega) ==
  /\ functions_old = Unrolled(old)
  /\ functions_new = Unrolled(new)
  /\ untouched = [n \in DOMAIN functions_new |-> FALSE]
  /\ callhistory_old = omega
  /\ callhistory_new = [n \in DOMAIN functions_new |-> Stub]
  /\ locs_visited = {} /\ at = 1 /\ result = "none"

DiffInit ==
  /\ old \in Revisions /\ new \in Revisions
  /\ \E S \in SUBSET (3 .. Len(Unrolled(old))), other \in {"HAVOC", "INLINE"} :
        StartDiff(Omega(Unrolled(old), S, other))

-----------------------------------------------------------------------------
(***************************************************************************)
(* do_diff, one new call after the other.                                  *)
(***************************************************************************)
Diffing == result = "none" /\ at \in DOMAIN functions_new

CurrentFn == functions_new[at].fn

\* do_proper_diff: the calls whose edge it marks as not preserved.
AddedCalls ==
  LET body == new[CurrentFn].body
  IN  {Location(functions_new, at, Len(Callees(SubSeq(body, 1, p)))) :
         p \in {q \in Added(Text(old[CurrentFn].body), Text(body)) :
                 body[q].call # NoCall}}

\* A variant with a bug: an old call can be matched more than once.
Unmatched_Any == {o \in DOMAIN functions_old : functions_old[o].fn = CurrentFn}

\* The old calls the current one can be matched with.
Unmatched ==
  {o \in DOMAIN functions_old \ locs_visited : functions_old[o].fn = CurrentFn}

\* get_call_tree_node_id: o is the first of them.
Matched(o) == o \in Unmatched /\ \A p \in Unmatched : o <= p

\* The current call gets entry e, and the calls of added lose their edge.
Write(e, added) ==
  /\ callhistory_new' = [n \in DOMAIN callhistory_new |->
       IF n = at THEN e
       ELSE [callhistory_new[n] EXCEPT !.edge = @ /\ n \notin added]]
  /\ at' = at + 1

\* No old call is left for the new one.
NewCall ==
  /\ Diffing /\ Unmatched = {}
  /\ Write([Stub EXCEPT !.fn = CurrentFn, !.edge = FALSE], {})
  /\ UNCHANGED <<inputs, untouched, locs_visited, result>>

\* base_type_eq.
SameInterface(f) == old[f].type = new[f].type

\* Only the precision is reset: the entry keeps the summary of the old call.
InterfaceChanged(o) ==
  /\ Diffing /\ Matched(o) /\ ~ SameInterface(CurrentFn)
  /\ locs_visited' = locs_visited \cup {o}
  /\ Write([callhistory_old[o] EXCEPT !.prec = "INLINE", !.preserved = FALSE,
                                      !.edge = FALSE], {})
  /\ UNCHANGED <<inputs, untouched, result>>

\* A variant with a bug: the bodies are not compared, only their lengths.
Preserved_SameLength ==
  at = 1 \/ Len(Text(old[CurrentFn].body)) = Len(Text(new[CurrentFn].body))

\* The first call is that of Initializer, whose body is not compared.
Preserved == at = 1 \/ Same(Text(old[CurrentFn].body), Text(new[CurrentFn].body))

\* The entry of the matched call is copied, but for the edge.
Compared(o) ==
  /\ Diffing /\ Matched(o) /\ SameInterface(CurrentFn)
  /\ locs_visited' = locs_visited \cup {o}
  /\ Write([callhistory_old[o] EXCEPT !.edge = callhistory_new[at].edge,
                                      !.preserved = Preserved],
           IF Preserved THEN {} ELSE AddedCalls)
  /\ untouched' = [untouched EXCEPT ![at] = Preserved]
  /\ UNCHANGED <<inputs, result>>

\* A variant with a bug: the last call does not count.
Tested_ButOne == 2 .. Len(functions_old) - 1

\* The calls whose flags the result is the conjunction of: as many as there are
\* old calls.
Tested == 2 .. Len(functions_old)

\* junk: what is read past the end of functions_new.
Report ==
  /\ result = "none" /\ at \notin DOMAIN functions_new
  /\ \E junk \in BOOLEAN :
        result' = IF \A n \in Tested : IF n \in DOMAIN functions_new THEN untouched[n]
                                       ELSE junk
                  THEN "identical" ELSE "changed"
  /\ UNCHANGED <<inputs, untouched, callhistory_new, locs_visited, at>>

DiffNext == \/ NewCall \/ Report
            \/ \E o \in DOMAIN functions_old : InterfaceChanged(o) \/ Compared(o)

DiffSpec == DiffInit /\ [][DiffNext]_diffVars

-----------------------------------------------------------------------------
(***************************************************************************)
(* Properties.                                                             *)
(***************************************************************************)
Entries(calls) ==
  [DOMAIN calls -> [fn : UNION {DOMAIN r : r \in Revisions},
                    prec : {"HAVOC", "SUMMARY", "INLINE"},
                    preserved : BOOLEAN, edge : BOOLEAN, sum : Nat]]

DiffTypeOK ==
  /\ {old, new} \subseteq Revisions
  /\ callhistory_old \in Entries(functions_old)
  /\ callhistory_new \in Entries(functions_new)
  /\ untouched \in [DOMAIN functions_new -> BOOLEAN]
  /\ locs_visited \subseteq DOMAIN functions_old
  /\ at \in Nat \ {0}
  /\ result \in {"none", "identical", "changed"}

\* No summary goes to two calls or to a call of another function, however often a
\* function is called before and after: what summary_validation takes for granted
\* when it removes or replaces the summary of one call.
SummariesNotShared ==
  \A m \in 1 .. at - 1 :
     callhistory_new[m].sum # 0 =>
       /\ \A n \in 1 .. at - 1 : callhistory_new[n].sum = callhistory_new[m].sum => n = m
       /\ \E o \in DOMAIN callhistory_old :
             /\ callhistory_old[o].sum = callhistory_new[m].sum
             /\ callhistory_old[o].fn = functions_new[m].fn

\* The two revisions make the same calls, and each function called has the same
\* interface and text; the initialiser is not looked at.
SameText ==
  /\ functions_old = functions_new
  /\ \A n \in 2 .. Len(functions_new) :
        LET f == functions_new[n].fn
        IN  SameInterface(f) /\ Text(old[f].body) = Text(new[f].body)

\* The entry point and the initialiser, which are not compared, make the same calls in
\* all revisions.  In C the first calls the second and then main, and the second
\* only assigns to globals.
StartAlike ==
  \A r, s \in Revisions : \A f \in {Entry, Initializer} :
     Callees(r[f].body) = Callees(s[f].body)

\* do_diff returns true exactly of revisions with the same text, whatever the number
\* of their calls and whatever it reads past the end of the flags.
ResultExact == result # "none" => (result = "identical" <=> SameText)

\* The sequences that are left when elements of s are removed.
Subsequences(s) ==
  {[k \in 1 .. Cardinality(P) |-> s[CHOOSE p \in P : Cardinality({q \in P : q <= p}) = k]] :
     P \in SUBSET DOMAIN s}

\* compare_str_vecs finds a common subsequence of the two bodies, so that
\* do_proper_diff stays within them, and none is longer.
CommonIsLongest ==
  (Diffing /\ CurrentFn \in DOMAIN old) =>
    LET a == Text(old[CurrentFn].body)
        b == Text(new[CurrentFn].body)
        common == Subsequences(a) \cap Subsequences(b)
    IN  Common(a, b) \in common /\ \A s \in common : Len(s) <= Len(Common(a, b))

\* "The program models are identical" is only reported of revisions that are.
IdenticalIsIdentical ==
  result = "identical" =>
    \A n \in DOMAIN functions_new : LET f == functions_new[n].fn IN old[f] = new[f]
=============================================================================
