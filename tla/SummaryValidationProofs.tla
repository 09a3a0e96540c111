---------------------- MODULE SummaryValidationProofs ----------------------
(***************************************************************************)
(* Proofs about SummaryValidation, for every call tree, every revision,    *)
(* every logic and every interpolator.                                     *)
(*                                                                         *)
(* The verdict is sound because the environment Concrete(ver), what the    *)
(* calls of the new revision really do, stays below three things: the      *)
(* summaries of the calls already passed, what is asserted in the solver,  *)
(* and, for calls whose caller is not marked, the environment of the proof *)
(* of the previous revision.                                               *)
(***************************************************************************)
EXTENDS SummaryValidation, FiniteSetTheorems, TLAPS

(***************************************************************************)
(* Environments.                                                           *)
(***************************************************************************)
\* A body that may rely on less does less.
LEMMA PostMonotone ==
  ASSUME NEW v, NEW n, NEW X, NEW Y,
         \A q \in v[n] : \A c \in DOMAIN q.calls : X[c] \subseteq Y[c]
  PROVE  Post(v, n, X) \subseteq Post(v, n, Y)
BY DEF Post

\* The least closed environment is an environment, and closed.
LEMMA ConcreteIsEnv ==
  ASSUME NEW v PROVE Concrete(v) \in Env
BY DEF Concrete, Env

LEMMA ConcreteLeast ==
  ASSUME NEW v, NEW X \in Env, Closed(v, X), NEW n \in Call
  PROVE  Concrete(v)[n] \subseteq X[n]
BY DEF Concrete

LEMMA PathCalls ==
  ASSUME NEW v \in Versions, NEW n \in Call, NEW q \in v[n]
  PROVE  /\ q.out \in Val
         /\ DOMAIN q.calls \subseteq Children(n)
<1>1. q \in Path(n)
  BY VersionAssumption
<1> QED
  BY <1>1 DEF Path

LEMMA ConcreteClosed ==
  ASSUME NEW v \in Versions PROVE Closed(v, Concrete(v))
<1> SUFFICES ASSUME NEW n \in Call, NEW b \in Post(v, n, Concrete(v))
             PROVE  b \in Concrete(v)[n]
  BY DEF Closed
<1>1. b \in Val
  BY PathCalls DEF Post
<1>2. ASSUME NEW X \in Env, Closed(v, X) PROVE b \in X[n]
  <2>1. \A q \in v[n] : \A c \in DOMAIN q.calls : Concrete(v)[c] \subseteq X[c]
    BY <1>2, ConcreteLeast, PathCalls DEF Children
  <2>2. b \in Post(v, n, X)
    BY <2>1, PostMonotone
  <2> QED
    BY <2>2, <1>2 DEF Closed
<1> QED
  BY <1>1, <1>2 DEF Concrete

\* The rule behind every query and every skipped check: if X allows at least what
\* the abstract calls of P do, and the bodies of the calls of I keep X, then X
\* allows at least what the calls of P do.
LEMMA RelativelyClosed ==
  ASSUME NEW v \in Versions, NEW X \in Env, NEW P \in SUBSET Call, NEW I \in SUBSET P,
         \A m \in I : Children(m) \subseteq P,
         \A m \in P \ I : Concrete(v)[m] \subseteq X[m],
         \A m \in I : Concrete(v)[m] \cap Post(v, m, X) \subseteq X[m]
  PROVE  \A m \in P : Concrete(v)[m] \subseteq X[m]
<1> DEFINE C == Concrete(v)
           G == [m \in Call |-> IF m \in P THEN C[m] \cap X[m] ELSE C[m]]
<1>1. C \in Env /\ G \in Env
  BY ConcreteIsEnv DEF Env
<1>2. \A m \in Call : G[m] \subseteq C[m]
  OBVIOUS
<1>3. \A m \in Call : Post(v, m, G) \subseteq C[m]
  <2> TAKE m \in Call
  <2>1. \A q \in v[m] : \A c \in DOMAIN q.calls : G[c] \subseteq C[c]
    BY <1>2, PathCalls DEF Children
  <2>2. Post(v, m, G) \subseteq Post(v, m, C)
    BY <2>1, PostMonotone
  <2> QED
    BY <2>2, ConcreteClosed DEF Closed
<1>4. \A m \in I : Post(v, m, G) \subseteq Post(v, m, X)
  <2> TAKE m \in I
  <2>1. \A q \in v[m] : \A c \in DOMAIN q.calls : G[c] \subseteq X[c]
    BY PathCalls DEF Children
  <2> QED
    BY <2>1, PostMonotone
<1>5. \A m \in Call : Post(v, m, G) \subseteq G[m]
  <2> TAKE m \in Call
  <2>1. CASE m \notin P
    BY <2>1, <1>3
  <2>2. CASE m \in P \ I
    BY <2>2, <1>3
  <2>3. CASE m \in I
    BY <2>3, <1>3, <1>4
  <2> QED
    BY <2>1, <2>2, <2>3
<1>6. Closed(v, G)
  BY <1>5 DEF Closed
<1>7. \A m \in Call : C[m] \subseteq G[m]
  BY <1>1, <1>6, ConcreteLeast
<1> QED
  BY <1>7

-----------------------------------------------------------------------------
(***************************************************************************)
(* Call trees and summary ids.                                             *)
(***************************************************************************)
LEMMA CallFacts ==
  /\ Main \in Call /\ Call \subseteq Nat /\ IsFiniteSet(Call)
  /\ \A n \in Call : n # Main => Parent[n] \in Call /\ Parent[n] < n
  /\ \A n \in Call : \A c \in Children(n) : c \in Call /\ c > n /\ c # Main /\ Parent[c] = n
<1>1. Main \in Call /\ Call \subseteq Nat
  BY CallsAssumption DEF Main, Call
<1>2. IsFiniteSet(Call)
  BY CallsAssumption, FS_Interval DEF Call
<1>3. \A n \in Call : n # Main => Parent[n] \in Call /\ Parent[n] < n
  BY CallsAssumption, ParentAssumption DEF Call, Main
<1>4. \A n \in Call : \A c \in Children(n) : c \in Call /\ c > n /\ c # Main /\ Parent[c] = n
  BY CallsAssumption, ParentAssumption DEF Call, Main, Children
<1> QED
  BY <1>1, <1>2, <1>3, <1>4

\* The partitions of a query lie in the subtree of its root, and contain the calls
\* of every body that is expanded.
LEMMA PartitionFacts ==
  ASSUME NEW n \in Call
  PROVE  /\ n \in Partitions(n) /\ Partitions(n) \subseteq Call
         /\ \A m \in Partitions(n) : m >= n
         /\ \A m \in Partitions(n) : Expanded(n, m) => Children(m) \subseteq Partitions(n)
<1>1. n \in Partitions(n) /\ Partitions(n) \subseteq Call
  BY DEF Partitions
<1>2. \A m \in Partitions(n) : m >= n
  <2> DEFINE S == {k \in Call : k >= n}
  <2>1. S \in SUBSET Call /\ n \in S
    BY CallFacts
  <2>2. \A k \in Call : (Parent[k] \in S /\ Expanded(n, Parent[k])) => k \in S
    BY CallFacts, ParentAssumption DEF Call
  <2> QED
    BY <2>1, <2>2 DEF Partitions
<1>3. ASSUME NEW m \in Partitions(n), Expanded(n, m), NEW c \in Children(m)
      PROVE  c \in Partitions(n)
  BY <1>1, <1>3 DEF Partitions, Children
<1> QED
  BY <1>1, <1>2, <1>3

\* Summaries generated together get different ids, none of them in use.
LEMMA NumberedFacts ==
  ASSUME NEW S \in SUBSET Call, NEW first \in Nat \ {0}
  PROVE  /\ Numbered(S, first) \in [S -> Nat \ {0}]
         /\ \A n \in S : /\ Numbered(S, first)[n] >= first
                        /\ Numbered(S, first)[n] < first + Cardinality(S)
         /\ \A m, n \in S : Numbered(S, first)[m] = Numbered(S, first)[n] => m = n
         /\ Cardinality(S) \in Nat
<1> DEFINE L(n) == {k \in S : k < n}
<1>0. S \subseteq Nat
  BY CallFacts
<1>1. IsFiniteSet(S) /\ Cardinality(S) \in Nat
  BY CallFacts, FS_Subset, FS_CardinalityType
<1>2. \A n \in S : IsFiniteSet(L(n)) /\ Cardinality(L(n)) \in Nat
  <2> TAKE n \in S
  <2>1. L(n) \subseteq S
    OBVIOUS
  <2> QED
    BY <1>1, <2>1, FS_Subset, FS_CardinalityType
<1>3. \A n \in S : Cardinality(L(n)) < Cardinality(S)
  <2> TAKE n \in S
  <2>1. L(n) \subseteq S /\ L(n) # S
    BY CallFacts
  <2>2. Cardinality(L(n)) <= Cardinality(S) /\ Cardinality(L(n)) # Cardinality(S)
    BY <1>1, <2>1, FS_Subset
  <2> QED
    BY <1>1, <1>2, <2>2
<1>4. ASSUME NEW m \in S, NEW n \in S, m < n
      PROVE  Cardinality(L(m)) < Cardinality(L(n))
  <2>1. L(m) \subseteq L(n) /\ L(m) # L(n)
    <3>1. L(m) \subseteq L(n)
      <4>1. \A k \in S : k < m => k < n
        BY <1>0, <1>4
      <4> QED
        BY <4>1
    <3>2. m \in L(n) /\ m \notin L(m)
      BY <1>4, CallFacts
    <3> QED
      BY <3>1, <3>2
  <2>2. Cardinality(L(m)) <= Cardinality(L(n)) /\ Cardinality(L(m)) # Cardinality(L(n))
    BY <1>2, <2>1, FS_Subset
  <2> QED
    BY <1>2, <2>2
<1>5. \A m, n \in S : m < n \/ n < m \/ m = n
  BY <1>0
<1>6. \A n \in S : Numbered(S, first)[n] = first + Cardinality(L(n))
  BY DEF Numbered
<1> HIDE DEF L
<1>7. ASSUME NEW m \in S, NEW n \in S, Numbered(S, first)[m] = Numbered(S, first)[n]
      PROVE  m = n
  <2>1. Cardinality(L(m)) = Cardinality(L(n))
    BY <1>2, <1>6, <1>7
  <2>2. ~ (m < n) /\ ~ (n < m)
    BY <1>2, <1>4, <2>1
  <2> QED
    BY <1>5, <2>2
<1>8. ASSUME NEW n \in S
      PROVE  /\ Numbered(S, first)[n] \in Nat \ {0}
             /\ Numbered(S, first)[n] >= first
             /\ Numbered(S, first)[n] < first + Cardinality(S)
  BY <1>1, <1>2, <1>3, <1>6
<1>9. Numbered(S, first) \in [S -> Nat \ {0}]
  BY <1>8 DEF Numbered
<1> QED
  BY <1>1, <1>7, <1>8, <1>9

\* What PlusAll leaves alone and what it adds.
LEMMA PlusAllFacts ==
  ASSUME NEW st, NEW ids, NEW fla, NEW x,
         \A n \in DOMAIN ids : ids[n] \notin DOMAIN st,
         \A m, n \in DOMAIN ids : ids[m] = ids[n] => m = n
  PROVE  /\ \A k : k \in DOMAIN PlusAll(st, ids, fla, x)
                    <=> k \in DOMAIN st \/ \E n \in DOMAIN ids : k = ids[n]
         /\ \A k \in DOMAIN st : PlusAll(st, ids, fla, x)[k] = st[k]
         /\ \A n \in DOMAIN ids :
              PlusAll(st, ids, fla, x)[ids[n]] = [fn |-> FnOf[n], fla |-> fla[n], indexed |-> x]
<1> DEFINE S == DOMAIN ids
<1>1. \A k : k \in DOMAIN PlusAll(st, ids, fla, x) <=> k \in DOMAIN st \/ \E n \in S : k = ids[n]
  BY DEF PlusAll
<1>2. \A k \in DOMAIN st : PlusAll(st, ids, fla, x)[k] = st[k]
  BY DEF PlusAll
<1>3. ASSUME NEW n \in S
      PROVE  PlusAll(st, ids, fla, x)[ids[n]] = [fn |-> FnOf[n], fla |-> fla[n], indexed |-> x]
  <2> DEFINE c == CHOOSE m \in S : ids[m] = ids[n]
  <2>1. c = n
    OBVIOUS
  <2> HIDE DEF c
  <2>2. PlusAll(st, ids, fla, x)[ids[n]] = [fn |-> FnOf[c], fla |-> fla[c], indexed |-> x]
    BY DEF PlusAll, c
  <2> QED
    BY <2>1, <2>2
<1> QED
  BY <1>1, <1>2, <1>3

-----------------------------------------------------------------------------
Own == {"full", "conjunct", "disjunct"}

\* Which queries run in which phase, and of which call.
Control ==
  /\ phase \in {"pick", "done"} <=> task = "none"
  /\ phase = "done" => cur = 0
  /\ task # "none" => cur \in Call
  /\ phase = "prepare" => task \in Own
  /\ phase = "repair" => task \in {"conjunct", "disjunct"}
  /\ task = "main" => cur = Main
  /\ task \in Own => cur # Main

\* Every id a call holds is that of a live summary of its function that no other
\* call holds; symex finds a summary wherever it looks for one.
Owned ==
  /\ \A n \in Call : sumID[n] # 0 => /\ sumID[n] \in DOMAIN store
                                     /\ store[sumID[n]].fn = FnOf[n]
  /\ \A m, n \in Call : (sumID[m] = sumID[n] /\ sumID[m] # 0) => m = n
  /\ \A n \in Call : prec[n] = "SUMMARY" => sumID[n] # 0
  /\ sumID[Main] = 0

\* The call under check: it has the summary that is checked, and is inlined.
Candidate ==
  /\ (task \in Own /\ phase \in {"prepare", "solve"}) => sumID[cur] # 0
  /\ (task \in Own /\ phase = "answer" /\ (holds \/ task # "full")) => sumID[cur] # 0
  /\ (task \in Own /\ phase \in {"solve", "answer", "repair"}) => prec[cur] = "INLINE"

-----------------------------------------------------------------------------
\* The queries are sound: whatever was refined, repaired or generated before, what
\* is asserted in the solver over-approximates, and so does a conclusion that holds.
AssertedSound == \A n \in Call : Concrete(ver)[n] \subseteq asserted[n]

AnswerSound == (phase = "answer" /\ holds) => Concrete(ver)[cur] \subseteq Goal

ConjunctsSound ==
  task = "conjunct" => /\ phase # "repair" => \E a \in Atom : SummaryOf(cur) = {{a}}
                       /\ \A a \in houdini.valid : Concrete(ver)[cur] \subseteq a

QueriesSound == SummariesSound /\ AssertedSound /\ AnswerSound /\ ConjunctsSound

\* E, the proof of the previous revision, still explains the calls that have not
\* been checked, and the passed calls whose caller is not marked.
Prior(E) ==
  /\ \A n \in preserved : Post(ver, n, E) \subseteq E[n]
  /\ Main \in preserved => E[Main] \subseteq Safe
  /\ \A n \in Call : (n < cur \/ (n = cur /\ task \in {"none", "full"}))
                     => (sumID[n] # 0 => E[n] = Models(SummaryOf(n)))
  /\ \A n \in Call : (n > cur /\ n # Main /\ Parent[n] \notin marked)
                     => Concrete(ver)[n] \subseteq E[n]
  /\ task \in {"conjunct", "disjunct"} => Parent[cur] \in marked

Verdict ==
  /\ (cur = 0 /\ validated) => IsSafe(ver)
  /\ (cur = 0 /\ ~ validated) => ~ IsSafe(ver)
  /\ (task = "none" /\ ~ validated /\ cur # 0)
       => \E n \in Call : n <= cur /\ MustCheck(n)
  /\ (task = "main" /\ phase = "answer" /\ ~ holds) => ~ IsSafe(ver)

IInv == TypeOK /\ Control /\ Owned /\ Candidate /\ QueriesSound /\ (\E E \in Env : Prior(E))
        /\ Verdict

-----------------------------------------------------------------------------
(***************************************************************************)
(* Types, and which query runs when.                                       *)
(***************************************************************************)
\* The store operations keep the store typed.
LEMMA StoreOperations ==
  ASSUME TypeOK
  PROVE  /\ \A ids : /\ DOMAIN Minus(store, ids) = DOMAIN store \ ids
                     /\ \A k \in DOMAIN store \ ids : Minus(store, ids)[k] = store[k]
                     /\ Minus(store, ids) \in [DOMAIN store \ ids -> StoredSummary]
         /\ \A fn \in Fn, f \in Formula :
              /\ DOMAIN Plus(store, maxID, fn, f) = DOMAIN store \cup {maxID}
              /\ \A k \in DOMAIN store : Plus(store, maxID, fn, f)[k] = store[k]
              /\ Plus(store, maxID, fn, f)[maxID] = [fn |-> fn, fla |-> f, indexed |-> TRUE]
              /\ Plus(store, maxID, fn, f)
                   \in [DOMAIN store \cup {maxID} -> StoredSummary]
<1> USE DEF TypeOK
<1>1. maxID \notin DOMAIN store
  OBVIOUS
<1>2. ASSUME NEW ids
      PROVE  /\ DOMAIN Minus(store, ids) = DOMAIN store \ ids
             /\ \A k \in DOMAIN store \ ids : Minus(store, ids)[k] = store[k]
             /\ Minus(store, ids) \in [DOMAIN store \ ids -> StoredSummary]
  BY DEF Minus
<1>3. ASSUME NEW fn \in Fn, NEW f \in Formula
      PROVE  /\ DOMAIN Plus(store, maxID, fn, f) = DOMAIN store \cup {maxID}
             /\ \A k \in DOMAIN store : Plus(store, maxID, fn, f)[k] = store[k]
             /\ Plus(store, maxID, fn, f)[maxID] = [fn |-> fn, fla |-> f, indexed |-> TRUE]
             /\ Plus(store, maxID, fn, f)
                   \in [DOMAIN store \cup {maxID} -> StoredSummary]
  BY <1>1, <1>3 DEF Plus, StoredSummary
<1> QED
  BY <1>2, <1>3

LEMMA NoRepairType == NoRepair \in Repair
<1>1. {} \in Formula /\ {} \in SUBSET Atom /\ {} \in SUBSET Cube
  BY DEF Formula
<1> QED
  BY <1>1, Zenon DEF NoRepair, Repair

LEMMA CallDoneType ==
  ASSUME TypeOK, cur \in Call, NEW ok \in BOOLEAN, CallDone(ok)
  PROVE  /\ marked' \subseteq Call /\ cur' \in 0 .. NumCalls /\ validated' \in BOOLEAN
         /\ phase' \in Phase /\ task' \in Task /\ holds' \in BOOLEAN
         /\ asserted' \in Env /\ houdini' \in Repair
<1>1. NotAsserted \in Env
  BY DEF NotAsserted, Env
<1>2. NoRepair \in Repair
  BY NoRepairType
<1>3. Marked \subseteq Call
  BY CallFacts DEF TypeOK, Marked
<1>4. cur - 1 \in 0 .. NumCalls
  BY CallsAssumption DEF Call
<1> QED
  BY <1>1, <1>2, <1>3, <1>4 DEF TypeOK, CallDone, Phase, Task

\* Detaching the summary of cur, as every branch of validate_node that drops it does.
LEMMA Detached ==
  ASSUME TypeOK, cur \in Call, store' = Minus(store, {sumID[cur]}), maxID' = maxID,
         DropID(cur, sumID[cur])
  PROVE  /\ sumID' = [sumID EXCEPT ![cur] = 0]
         /\ prec' = [prec EXCEPT ![cur] = "INLINE"]
         /\ sumID' \in [Call -> Nat] /\ prec' \in [Call -> Precision]
         /\ DOMAIN store' \subseteq 1 .. (maxID' - 1)
         /\ store' \in [DOMAIN store' -> StoredSummary]
<1>1. sumID' = [sumID EXCEPT ![cur] = 0] /\ prec' = [prec EXCEPT ![cur] = "INLINE"]
  BY DEF DropID
<1>2. sumID' \in [Call -> Nat] /\ prec' \in [Call -> Precision]
  BY <1>1 DEF TypeOK, Precision
<1>3. DOMAIN store' = DOMAIN store \ {sumID[cur]}
  BY StoreOperations
<1>4. store' \in [DOMAIN store' -> StoredSummary]
  BY <1>3, StoreOperations
<1> QED
  BY <1>1, <1>2, <1>3, <1>4 DEF TypeOK

\* Attaching a candidate or a weakened summary to cur.
LEMMA Attached ==
  ASSUME TypeOK, cur \in Call, NEW f \in Formula, Attach(f)
  PROVE  /\ sumID' \in [Call -> Nat] /\ maxID' \in Nat \ {0}
         /\ DOMAIN store' \subseteq 1 .. (maxID' - 1)
         /\ store' \in [DOMAIN store' -> StoredSummary]
         /\ DOMAIN store' = DOMAIN store \cup {maxID}
         /\ \A k \in DOMAIN store : store'[k] = store[k]
         /\ store'[maxID] = [fn |-> FnOf[cur], fla |-> f, indexed |-> TRUE]
         /\ sumID' = [sumID EXCEPT ![cur] = maxID]
         /\ maxID \notin DOMAIN store
<1>1. FnOf[cur] \in Fn
  BY FnAssumption
<1>2. store' = Plus(store, maxID, FnOf[cur], f) /\ maxID' = maxID + 1
      /\ sumID' = [sumID EXCEPT ![cur] = maxID]
  BY DEF Attach
<1>3. DOMAIN store' = DOMAIN store \cup {maxID}
  BY <1>1, <1>2, StoreOperations
<1>4. store' \in [DOMAIN store' -> StoredSummary]
  BY <1>1, <1>2, <1>3, StoreOperations
<1>5. store'[maxID] = [fn |-> FnOf[cur], fla |-> f, indexed |-> TRUE]
      /\ \A k \in DOMAIN store : store'[k] = store[k]
  BY <1>1, <1>2, StoreOperations
<1> QED
  BY <1>2, <1>3, <1>4, <1>5 DEF TypeOK

\* The calls that get a new summary from a proof, and the ids of the summaries.
New(itp)   == {m \in Inlined(cur) : ~ Trivial(itp[m])}
NewID(itp) == Numbered(New(itp), maxID)

\* The interpolants of a proof, stored.
LEMMA Generated ==
  ASSUME TypeOK, cur \in Call, NEW itp \in [Inlined(cur) -> Lang], Proved(itp)
  PROVE  /\ New(itp) \subseteq Inlined(cur) /\ Inlined(cur) \subseteq Call
         /\ \A m \in Inlined(cur) : m > cur
         /\ \A m \in New(itp) : NewID(itp)[m] \in Nat \ {0} /\ NewID(itp)[m] \notin DOMAIN store
         /\ \A m, n \in New(itp) : NewID(itp)[m] = NewID(itp)[n] => m = n
         /\ DOMAIN store' = DOMAIN store \cup {NewID(itp)[m] : m \in New(itp)}
         /\ \A k \in DOMAIN store : store'[k] = store[k]
         /\ \A m \in New(itp) : store'[NewID(itp)[m]] = [fn |-> FnOf[m], fla |-> itp[m], indexed |-> TRUE]
         /\ store' \in [DOMAIN store' -> StoredSummary]
         /\ DOMAIN store' \subseteq 1 .. (maxID' - 1) /\ maxID' \in Nat \ {0}
         /\ sumID' = [m \in Call |-> IF m \in New(itp) THEN NewID(itp)[m] ELSE sumID[m]]
         /\ prec'  = [m \in Call |-> IF m \in New(itp) THEN "SUMMARY" ELSE prec[m]]
<1> DEFINE new == New(itp)
           id  == NewID(itp)
           yes == TRUE
<1>1. /\ store' = PlusAll(store, id, itp, yes) /\ maxID' = maxID + Cardinality(new)
      /\ sumID' = [m \in Call |-> IF m \in new THEN id[m] ELSE sumID[m]]
      /\ prec'  = [m \in Call |-> IF m \in new THEN "SUMMARY" ELSE prec[m]]
  BY DEF Proved, New, NewID
<1>2. new \subseteq Inlined(cur) /\ Inlined(cur) \subseteq Call
  BY PartitionFacts DEF Inlined, New
<1>3. \A m \in Inlined(cur) : m > cur
  <2>1. \A m \in Inlined(cur) : m >= cur /\ m # cur
    BY PartitionFacts DEF Inlined
  <2>2. cur \in Nat /\ Inlined(cur) \subseteq Nat
    BY <1>2, CallFacts
  <2> QED
    BY <2>1, <2>2
<1>4. /\ id \in [new -> Nat \ {0}]
      /\ \A m \in new : id[m] >= maxID /\ id[m] < maxID + Cardinality(new)
      /\ \A m, n \in new : id[m] = id[n] => m = n
      /\ Cardinality(new) \in Nat
  <2>1. maxID \in Nat \ {0} /\ new \in SUBSET Call
    BY <1>2 DEF TypeOK
  <2>2. /\ Numbered(new, maxID) \in [new -> Nat \ {0}]
        /\ \A n \in new : /\ Numbered(new, maxID)[n] >= maxID
                         /\ Numbered(new, maxID)[n] < maxID + Cardinality(new)
        /\ \A m, n \in new : Numbered(new, maxID)[m] = Numbered(new, maxID)[n] => m = n
        /\ Cardinality(new) \in Nat
    BY <2>1, NumberedFacts
  <2> QED
    BY <2>2 DEF NewID
<1> HIDE DEF new, id, yes
<1>5. \A m \in new : id[m] \in Nat \ {0} /\ id[m] \notin DOMAIN store
  BY <1>4 DEF TypeOK
<1>6. /\ DOMAIN store' = DOMAIN store \cup {id[m] : m \in new}
      /\ \A k \in DOMAIN store : store'[k] = store[k]
      /\ \A m \in new : store'[id[m]] = [fn |-> FnOf[m], fla |-> itp[m], indexed |-> yes]
  <2>1. DOMAIN id = new
    BY <1>4
  <2>2. \A m \in DOMAIN id : id[m] \notin DOMAIN store
    BY <1>5, <2>1
  <2>3. \A m, n \in DOMAIN id : id[m] = id[n] => m = n
    BY <1>4, <2>1
  <2>4. \A k : k \in DOMAIN PlusAll(store, id, itp, yes)
                <=> k \in DOMAIN store \/ \E m \in DOMAIN id : k = id[m]
    BY ONLY <2>2, <2>3, PlusAllFacts
  <2>5. \A k \in DOMAIN store : PlusAll(store, id, itp, yes)[k] = store[k]
    BY <2>2, <2>3, PlusAllFacts
  <2>6. \A m \in DOMAIN id :
          PlusAll(store, id, itp, yes)[id[m]] = [fn |-> FnOf[m], fla |-> itp[m], indexed |-> yes]
    BY <2>2, <2>3, PlusAllFacts
  <2>7. DOMAIN store' = DOMAIN store \cup {id[m] : m \in new}
    BY <1>1, <2>1, <2>4
  <2> QED
    BY <1>1, <2>1, <2>5, <2>6, <2>7
<1>7. \A m \in new : [fn |-> FnOf[m], fla |-> itp[m], indexed |-> yes] \in StoredSummary
  BY <1>2, FnAssumption, LangAssumption DEF StoredSummary, yes
<1>8. store' \in [DOMAIN store' -> StoredSummary]
  <2>1. \A k \in DOMAIN store' : store'[k] \in StoredSummary
    <3>1. \A k \in DOMAIN store : store[k] \in StoredSummary
      BY DEF TypeOK
    <3>2. ASSUME NEW k \in DOMAIN store' PROVE store'[k] \in StoredSummary
      <4>1. CASE k \in DOMAIN store
        BY <4>1, <3>1, <1>6
      <4>2. CASE k \notin DOMAIN store
        <5>1. PICK m \in new : k = id[m]
          BY <4>2, <1>6
        <5>2. store'[k] = [fn |-> FnOf[m], fla |-> itp[m], indexed |-> yes]
          BY <5>1, <1>6
        <5> QED
          BY <5>2, <1>7
      <4> QED
        BY <4>1, <4>2
    <3> QED
      BY <3>2
  <2>2. store' = [k \in DOMAIN store' |-> store'[k]]
    BY <1>1 DEF PlusAll
  <2> QED
    BY <2>1, <2>2
<1>9. DOMAIN store' \subseteq 1 .. (maxID' - 1) /\ maxID' \in Nat \ {0}
  <2>1. maxID \in Nat \ {0} /\ maxID' \in Nat \ {0} /\ maxID' >= maxID
    BY <1>1, <1>4 DEF TypeOK
  <2>2. \A m \in new : id[m] \in 1 .. (maxID' - 1)
    BY <1>1, <1>4, <2>1
  <2>3. DOMAIN store \subseteq 1 .. (maxID' - 1)
    BY <2>1 DEF TypeOK
  <2> QED
    BY <1>6, <2>1, <2>2, <2>3
<1> QED
  BY <1>1, <1>2, <1>3, <1>4, <1>5, <1>6, <1>8, <1>9 DEF new, id, yes

\* The type invariant is kept by every step.
LEMMA TypeStep ==
  ASSUME TypeOK, Control, [Next]_vars,
         (phase = "answer" /\ task = "conjunct") => Has(store, sumID[cur])
  PROVE  TypeOK'
<1>1. CASE UNCHANGED vars
  BY <1>1 DEF vars, TypeOK, callTree, summaries, traversal, query
<1>2. CASE Skip
  BY <1>2, CallFacts, CallsAssumption DEF Skip, Call, TypeOK, callTree, summaries, traversal, query
<1>3. CASE Conclude
  BY <1>3 DEF Conclude, Phase, TypeOK, callTree, summaries, traversal, query
<1>4. CASE AssertionsAnswered
  <2>1. cur \in Call
    BY <1>4 DEF Control, AssertionsAnswered
  <2>2. cur - 1 \in 0 .. NumCalls
    BY <2>1, CallsAssumption DEF Call
  <2> QED
    BY <1>4, <2>2 DEF AssertionsAnswered, Phase, Task, TypeOK, callTree, summaries, traversal, query
<1>5. CASE NoSummary
  <2>1. cur \in Call
    BY <1>5, CallsAssumption DEF Control, Call, NoSummary, TypeOK
  <2>2. CallDone(FALSE)
    BY <1>5 DEF NoSummary
  <2> QED
    BY <1>5, <2>1, <2>2, CallDoneType DEF NoSummary, TypeOK, callTree, summaries, traversal, query
<1>6. CASE BeginFull
  BY <1>6 DEF BeginFull, Phase, Task, TypeOK, callTree, summaries, traversal, query
<1>7. CASE Prepared
  <2>1. NotAsserted \in Env
    BY DEF NotAsserted, Env
  <2> QED
    BY <1>7, <2>1 DEF Prepared, Phase, Precision, TypeOK, callTree, summaries, traversal, query
<1>8. CASE Unusable
  <2>1. cur \in Call
    BY <1>8 DEF Control, Unusable, Answered
  <2> QED
    BY <1>8, <2>1, Detached DEF Unusable, Phase, TypeOK, callTree, summaries, traversal, query
<1>9. ASSUME NEW U \in SUBSET Abstract(cur), Refine(U) PROVE TypeOK'
  <2> DEFINE gone == {m \in U : sumID[m] # 0}
  <2>1. /\ store' = Minus(store, {sumID[m] : m \in gone}) /\ maxID' = maxID
        /\ repaired' = repaired \ {FnOf[m] : m \in gone}
    BY <1>9 DEF Refine, StillRepaired
  <2> HIDE DEF gone
  <2>2. /\ DOMAIN store' \subseteq 1 .. (maxID' - 1)
        /\ store' \in [DOMAIN store' -> StoredSummary]
    <3>1. DOMAIN store' = DOMAIN store \ {sumID[m] : m \in gone}
      BY <2>1, StoreOperations
    <3>2. store' \in [DOMAIN store' -> StoredSummary]
      BY <2>1, <3>1, StoreOperations
    <3> QED
      BY <2>1, <3>1, <3>2 DEF TypeOK
  <2>3. asserted' \in Env
    BY <1>9 DEF Refine, Abstraction, Env, TypeOK
  <2>4. sumID' \in [Call -> Nat] /\ prec' \in [Call -> Precision]
    BY <1>9 DEF Refine, Precision, TypeOK
  <2> QED
    BY <1>9, <2>1, <2>2, <2>3, <2>4 DEF Refine, TypeOK, callTree, summaries, traversal, query
<1>10. CASE Refuted
  BY <1>10 DEF Refuted, Phase, TypeOK, callTree, summaries, traversal, query
<1>11. ASSUME NEW itp \in [Inlined(cur) -> Lang], Proved(itp) PROVE TypeOK'
  <2>1. cur \in Call
    BY <1>11 DEF Control, Proved
  <2>3. \A m \in New(itp) : NewID(itp)[m] \in Nat
    BY <1>11, <2>1, Generated
  <2>4. store' \in [DOMAIN store' -> StoredSummary]
    BY <1>11, <2>1, Generated
  <2>5. DOMAIN store' \subseteq 1 .. (maxID' - 1) /\ maxID' \in Nat \ {0}
    BY <1>11, <2>1, Generated
  <2>6. /\ sumID' = [m \in Call |-> IF m \in New(itp) THEN NewID(itp)[m] ELSE sumID[m]]
        /\ prec'  = [m \in Call |-> IF m \in New(itp) THEN "SUMMARY" ELSE prec[m]]
    BY <1>11 DEF Proved, New, NewID
  <2>7. sumID' \in [Call -> Nat] /\ prec' \in [Call -> Precision]
    BY <2>3, <2>6 DEF TypeOK, Precision
  <2> QED
    BY <1>11, <2>4, <2>5, <2>7 DEF Proved, Phase, TypeOK, callTree, summaries, traversal, query
<1>12. CASE Valid
  <2>1. cur \in Call
    BY <1>12, CallsAssumption DEF Control, Call, Valid, TypeOK, Answered
  <2>2. CallDone(TRUE)
    BY <1>12 DEF Valid
  <2>3. prec' \in [Call -> Precision]
    BY <1>12 DEF Valid, TypeOK, Precision
  <2> QED
    BY <1>12, <2>1, <2>2, CallDoneType, <2>3 DEF Valid, TypeOK, callTree, summaries, traversal, query
<1>13. CASE InvalidKept
  <2>1. cur \in Call
    BY <1>13, CallsAssumption DEF Control, Call, InvalidKept, TypeOK, Answered
  <2>2. CallDone(FALSE)
    BY <1>13 DEF InvalidKept
  <2> QED
    BY <1>13, <2>1, <2>2, CallDoneType DEF InvalidKept, TypeOK, callTree, summaries, traversal, query
<1>14. CASE InvalidDropped
  <2>1. cur \in Call
    BY <1>14, CallsAssumption DEF Control, Call, InvalidDropped, TypeOK, Answered
  <2>2. CallDone(FALSE)
    BY <1>14 DEF InvalidDropped
  <2> QED
    BY <1>14, <2>1, <2>2, CallDoneType, Detached DEF InvalidDropped, TypeOK, callTree, summaries, traversal, query
<1>15. CASE InvalidWeakened
  <2>1. cur \in Call /\ sumID[cur] \in DOMAIN store
    BY <1>15 DEF Control, InvalidWeakened, Exists, Answered
  <2>2. SummaryOf(cur) \in Formula
    BY <2>1 DEF SummaryOf, TypeOK, StoredSummary
  <2>3. houdini' \in Repair
    <3>1. UNION SummaryOf(cur) \in SUBSET Atom /\ SummaryOf(cur) \in SUBSET Cube
      BY <2>2 DEF Formula, Cube
    <3> DEFINE f == SummaryOf(cur)
    <3>2. houdini' = [NoRepair EXCEPT
                       !.full = f,
                       !.conjuncts = IF IsConjunctive(f) THEN UNION f ELSE {},
                       !.disjuncts = IF IsConjunctive(f) THEN {}
                                     ELSE {c \in f : IsConjunctive({c})}]
      BY <1>15 DEF InvalidWeakened
    <3>3. {c \in f : IsConjunctive({c})} \in SUBSET Cube
      BY <3>1
    <3> HIDE DEF f
    <3> QED
      BY <2>2, <3>1, <3>2, <3>3, NoRepairType DEF Repair, f
  <2>4. marked' \subseteq Call
    BY <1>15, CallFacts, <2>1 DEF InvalidWeakened, Marked, TypeOK
  <2> QED
    BY <1>15, <2>1, <2>3, <2>4, Detached DEF InvalidWeakened, Phase, Task, TypeOK, callTree, summaries, traversal, query
<1>16. ASSUME NEW a \in Atom, TryConjunct(a) PROVE TypeOK'
  <2>1. cur \in Call
    BY <1>16 DEF Control, TryConjunct
  <2>2. {{a}} \in Formula
    BY <1>16 DEF Formula, Cube
  <2>3. Attach({{a}})
    BY <1>16 DEF TryConjunct, Try
  <2>4. houdini' \in Repair
    BY <1>16 DEF TryConjunct, TypeOK, Repair
  <2> QED
    BY <1>16, <2>1, <2>2, <2>3, <2>4, Attached DEF TryConjunct, Try, Phase, TypeOK, callTree, summaries, traversal, query
<1>17. CASE ConjunctAnswered
  <2>1. cur \in Call /\ sumID[cur] \in DOMAIN store
    BY <1>17 DEF Control, ConjunctAnswered, Has
  <2>2. SummaryOf(cur) \in Formula
    BY <2>1 DEF SummaryOf, TypeOK, StoredSummary
  <2>3. Passed \in SUBSET Atom
    BY <2>2 DEF Passed, Formula, Cube
  <2>4. houdini' \in Repair
    BY <1>17, <2>3 DEF ConjunctAnswered, TypeOK, Repair
  <2> QED
    BY <1>17, <2>1, <2>4, Detached DEF ConjunctAnswered, Phase, TypeOK, callTree, summaries, traversal, query
<1>18. CASE Weaken
  <2>1. cur \in Call /\ CallDone(TRUE)
    BY <1>18 DEF Control, Weaken
  <2>2. {houdini.valid} \in Formula
    BY DEF TypeOK, Repair, Formula, Cube
  <2>3. Attach({houdini.valid})
    BY <1>18 DEF Weaken
  <2>4. repaired' \subseteq Fn /\ prec' \in [Call -> Precision]
    BY <1>18, <2>1, FnAssumption DEF Weaken, TypeOK, Precision
  <2> QED
    BY <1>18, <2>1, <2>2, <2>3, <2>4, Attached, CallDoneType DEF Weaken, TypeOK, callTree, summaries, traversal, query
<1>19. ASSUME NEW c \in Cube, NextDisjunct(c) PROVE TypeOK'
  <2>1. houdini' \in Repair
    BY <1>19 DEF NextDisjunct, TypeOK, Repair, Cube
  <2> QED
    BY <1>19, <2>1 DEF NextDisjunct, TypeOK, callTree, summaries, traversal, query
<1>20. ASSUME NEW a \in Atom, TryDrop(a) PROVE TypeOK'
  <2>1. cur \in Call
    BY <1>20 DEF Control, TryDrop
  <2>2. Without(houdini.full, houdini.dropped \cup {a}) \in Formula
    BY DEF TypeOK, Repair, Without, Formula, Cube
  <2>3. Attach(Without(houdini.full, houdini.dropped \cup {a}))
    BY <1>20 DEF TryDrop, Try
  <2>4. houdini' \in Repair
    BY <1>20 DEF TryDrop, TypeOK, Repair
  <2> QED
    BY <1>20, <2>1, <2>2, <2>3, <2>4, Attached DEF TryDrop, Try, Phase, TypeOK, callTree, summaries, traversal, query
<1>21. CASE DisjunctValid
  <2>1. cur \in Call
    BY <1>21, CallsAssumption DEF Control, Call, DisjunctValid, TypeOK, Answered
  <2>2. CallDone(TRUE)
    BY <1>21 DEF DisjunctValid
  <2>3. prec' \in [Call -> Precision] /\ repaired' \subseteq Fn
    BY <1>21, <2>1, FnAssumption DEF DisjunctValid, TypeOK, Precision
  <2> QED
    BY <1>21, <2>1, <2>2, CallDoneType, <2>3 DEF DisjunctValid, TypeOK, callTree, summaries, traversal, query
<1>22. CASE DisjunctInvalid
  <2>1. cur \in Call
    BY <1>22 DEF Control, DisjunctInvalid, Answered
  <2> QED
    BY <1>22, <2>1, Detached DEF DisjunctInvalid, Phase, TypeOK, callTree, summaries, traversal, query
<1>23. CASE GiveUp
  <2>1. cur \in Call
    BY <1>23, CallsAssumption DEF Control, Call, GiveUp, TypeOK
  <2>2. CallDone(FALSE)
    BY <1>23 DEF GiveUp
  <2>3. prec' \in [Call -> Precision]
    BY <1>23 DEF GiveUp, TypeOK, Precision
  <2> QED
    BY <1>23, <2>1, <2>2, CallDoneType, <2>3 DEF GiveUp, TypeOK, callTree, summaries, traversal, query
<1>24. CASE Unknown
  <2>1. NotAsserted \in Env
    BY DEF NotAsserted, Env
  <2> QED
    BY <1>24, <2>1 DEF Unknown, Phase, Precision, TypeOK, callTree, summaries, traversal, query
<1> QED
  BY <1>1, <1>2, <1>3, <1>4, <1>5, <1>6, <1>7, <1>8, <1>9, <1>10, <1>11, <1>12, <1>13, <1>14, <1>15, <1>16, <1>17, <1>18, <1>19, <1>20, <1>21, <1>22, <1>23, <1>24
  DEF Next, Traverse, Check, Judge, Houdini

\* Every step leaves a phase with the query that belongs to it.
LEMMA ControlStep ==
  ASSUME TypeOK, Control, sumID[Main] = 0, [Next]_vars
  PROVE  Control'
<1>1. CASE UNCHANGED vars
  BY <1>1 DEF vars, Control, callTree, summaries, traversal, query
<1>2. CASE Skip
  BY <1>2, CallFacts, CallsAssumption DEF Skip, Control, Own, Call, Main, TypeOK, callTree, summaries, traversal, query
<1>3. CASE Conclude
  BY <1>3, CallFacts, CallsAssumption DEF Conclude, Control, Own, Call, Main, TypeOK, callTree, summaries, traversal, query
<1>4. CASE AssertionsAnswered
  BY <1>4, CallFacts, CallsAssumption DEF AssertionsAnswered, Control, Own, Call, Main, TypeOK, callTree, summaries, traversal, query
<1>5. CASE NoSummary
  BY <1>5, CallFacts, CallsAssumption DEF NoSummary, CallDone, Control, Own, Call, Main, TypeOK, callTree, summaries, traversal, query
<1>6. CASE BeginFull
  BY <1>6, CallFacts, CallsAssumption DEF BeginFull, Control, Own, Call, Main, TypeOK, callTree, summaries, traversal, query
<1>7. CASE Prepared
  BY <1>7, CallFacts, CallsAssumption DEF Prepared, Control, Own, Call, Main, TypeOK, callTree, summaries, traversal, query
<1>8. CASE Unusable
  BY <1>8, CallFacts, CallsAssumption DEF Unusable, Control, Own, Call, Main, TypeOK, callTree, summaries, traversal, query
<1>9. ASSUME NEW U \in SUBSET Abstract(cur), Refine(U) PROVE Control'
  BY <1>9, CallFacts, CallsAssumption DEF Refine, Control, Own, Call, Main, TypeOK, callTree, summaries, traversal, query
<1>10. CASE Refuted
  BY <1>10, CallFacts, CallsAssumption DEF Refuted, Control, Own, Call, Main, TypeOK, callTree, summaries, traversal, query
<1>11. ASSUME NEW itp \in [Inlined(cur) -> Lang], Proved(itp) PROVE Control'
  BY <1>11, CallFacts, CallsAssumption DEF Proved, Control, Own, Call, Main, TypeOK, callTree, summaries, traversal, query
<1>12. CASE Valid
  BY <1>12, CallFacts, CallsAssumption DEF Valid, Answered, CallDone, Control, Own, Call, Main, TypeOK, callTree, summaries, traversal, query
<1>13. CASE InvalidKept
  BY <1>13, CallFacts, CallsAssumption DEF InvalidKept, Answered, CallDone, Control, Own, Call, Main, TypeOK, callTree, summaries, traversal, query
<1>14. CASE InvalidDropped
  BY <1>14, CallFacts, CallsAssumption DEF InvalidDropped, Answered, CallDone, Control, Own, Call, Main, TypeOK, callTree, summaries, traversal, query
<1>15. CASE InvalidWeakened
  BY <1>15, CallFacts, CallsAssumption DEF InvalidWeakened, Answered, Control, Own, Call, Main, TypeOK, callTree, summaries, traversal, query
<1>16. ASSUME NEW a \in Atom, TryConjunct(a) PROVE Control'
  BY <1>16, CallFacts, CallsAssumption DEF TryConjunct, Try, Control, Own, Call, Main, TypeOK, callTree, summaries, traversal, query
<1>17. CASE ConjunctAnswered
  BY <1>17, CallFacts, CallsAssumption DEF ConjunctAnswered, Control, Own, Call, Main, TypeOK, callTree, summaries, traversal, query
<1>18. CASE Weaken
  BY <1>18, CallFacts, CallsAssumption DEF Weaken, CallDone, Control, Own, Call, Main, TypeOK, callTree, summaries, traversal, query
<1>19. ASSUME NEW c \in Cube, NextDisjunct(c) PROVE Control'
  BY <1>19, CallFacts, CallsAssumption DEF NextDisjunct, Control, Own, Call, Main, TypeOK, callTree, summaries, traversal, query
<1>20. ASSUME NEW a \in Atom, TryDrop(a) PROVE Control'
  BY <1>20, CallFacts, CallsAssumption DEF TryDrop, Try, Control, Own, Call, Main, TypeOK, callTree, summaries, traversal, query
<1>21. CASE DisjunctValid
  BY <1>21, CallFacts, CallsAssumption DEF DisjunctValid, Answered, CallDone, Control, Own, Call, Main, TypeOK, callTree, summaries, traversal, query
<1>22. CASE DisjunctInvalid
  BY <1>22, CallFacts, CallsAssumption DEF DisjunctInvalid, Answered, Control, Own, Call, Main, TypeOK, callTree, summaries, traversal, query
<1>23. CASE GiveUp
  BY <1>23, CallFacts, CallsAssumption DEF GiveUp, CallDone, Control, Own, Call, Main, TypeOK, callTree, summaries, traversal, query
<1>24. CASE Unknown
  BY <1>24, CallFacts, CallsAssumption DEF Unknown, Control, Own, Call, Main, TypeOK, callTree, summaries, traversal, query
<1> QED
  BY <1>1, <1>2, <1>3, <1>4, <1>5, <1>6, <1>7, <1>8, <1>9, <1>10, <1>11, <1>12, <1>13, <1>14, <1>15, <1>16, <1>17, <1>18, <1>19, <1>20, <1>21, <1>22, <1>23, <1>24
  DEF Next, Traverse, Check, Judge, Houdini


-----------------------------------------------------------------------------
(***************************************************************************)
(* Who owns which summary.                                                 *)
(***************************************************************************)
LEMMA DetachOwned ==
  ASSUME TypeOK, Owned, cur \in Call, store' = Minus(store, {sumID[cur]}), maxID' = maxID,
         DropID(cur, sumID[cur])
  PROVE  Owned'
<1>1. /\ sumID' = [sumID EXCEPT ![cur] = 0]
      /\ prec' = [prec EXCEPT ![cur] = "INLINE"]
  BY DEF DropID
<1>2. /\ DOMAIN store' = DOMAIN store \ {sumID[cur]}
      /\ \A k \in DOMAIN store' : store'[k] = store[k]
  BY DEF Minus
<1>3. \A n \in Call : /\ sumID'[n] = IF n = cur THEN 0 ELSE sumID[n]
                     /\ prec'[n] = IF n = cur THEN "INLINE" ELSE prec[n]
  BY <1>1 DEF TypeOK
<1>4. \A n \in Call : sumID'[n] # 0 => /\ sumID'[n] \in DOMAIN store'
                                     /\ store'[sumID'[n]].fn = FnOf[n]
  BY <1>2, <1>3 DEF Owned
<1> QED
  BY <1>3, <1>4, CallFacts DEF Owned

LEMMA AttachOwned ==
  ASSUME TypeOK, Owned, cur \in Call, cur # Main, NEW f \in Formula, Attach(f),
         \/ UNCHANGED prec
         \/ prec' = [prec EXCEPT ![cur] = "SUMMARY"]
  PROVE  Owned'
<1>1. /\ DOMAIN store' = DOMAIN store \cup {maxID}
      /\ \A k \in DOMAIN store : store'[k] = store[k]
      /\ store'[maxID] = [fn |-> FnOf[cur], fla |-> f, indexed |-> TRUE]
      /\ sumID' = [sumID EXCEPT ![cur] = maxID]
      /\ maxID \notin DOMAIN store
  BY Attached
<1>2. maxID # 0
  BY DEF TypeOK
<1> QED
  BY <1>1, <1>2, CallFacts DEF Owned, TypeOK

\* Summaries stay with the calls they were made for.

LEMMA OwnedStep ==
  ASSUME TypeOK, Control, Owned, Candidate, [Next]_vars
  PROVE  Owned'
<1>1. CASE UNCHANGED vars
  BY <1>1 DEF vars, Owned, callTree, summaries, traversal, query
<1>2. CASE Skip
  BY <1>2 DEF Skip, Owned, callTree, summaries, traversal, query
<1>3. CASE Conclude
  BY <1>3 DEF Conclude, Owned, callTree, summaries, traversal, query
<1>4. CASE AssertionsAnswered
  BY <1>4 DEF AssertionsAnswered, Owned, callTree, summaries, traversal, query
<1>5. CASE NoSummary
  BY <1>5 DEF NoSummary, Owned, callTree, summaries, traversal, query
<1>6. CASE BeginFull
  BY <1>6 DEF BeginFull, Owned, callTree, summaries, traversal, query
<1>7. CASE Prepared
  BY <1>7 DEF Prepared, Owned, callTree, summaries, traversal, query, TypeOK
<1>8. CASE Unusable
  <2>1. cur \in Call
    BY <1>8 DEF Unusable, Control, Answered
  <2> QED
    BY <1>8, <2>1, DetachOwned DEF Unusable
<1>9. ASSUME NEW U \in SUBSET Abstract(cur), Refine(U) PROVE Owned'
  <2> DEFINE gone == {m \in U : sumID[m] # 0}
             ids  == {sumID[m] : m \in gone}
  <2>1. /\ store' = Minus(store, ids)
        /\ sumID' = [m \in Call |-> IF m \in U THEN 0 ELSE sumID[m]]
        /\ prec'  = [m \in Call |-> IF m \in U \/ (m = cur /\ gone # {})
                                    THEN "INLINE" ELSE prec[m]]
    BY <1>9 DEF Refine
  <2>2. \A n \in Call \ U : sumID[n] # 0 => sumID[n] \notin ids
    <3>1. U \subseteq Call
      BY PartitionFacts, <1>9 DEF Abstract, Control, Refine
    <3> QED
      BY <3>1 DEF Owned
  <2> HIDE DEF gone, ids
  <2>3. /\ DOMAIN store' = DOMAIN store \ ids
        /\ \A k \in DOMAIN store' : store'[k] = store[k]
    BY <2>1 DEF Minus
  <2> QED
    BY <2>1, <2>2, <2>3, CallFacts DEF Owned, TypeOK
<1>10. CASE Refuted
  BY <1>10 DEF Refuted, Owned, callTree, summaries, traversal, query
<1>11. ASSUME NEW itp \in [Inlined(cur) -> Lang], Proved(itp) PROVE Owned'
  <2>1. cur \in Call
    BY <1>11 DEF Control, Proved
  <2>2. /\ sumID' = [m \in Call |-> IF m \in New(itp) THEN NewID(itp)[m] ELSE sumID[m]]
        /\ prec'  = [m \in Call |-> IF m \in New(itp) THEN "SUMMARY" ELSE prec[m]]
    BY <1>11 DEF Proved, New, NewID
  <2>3. \A m \in New(itp) : NewID(itp)[m] \in Nat \ {0} /\ NewID(itp)[m] \notin DOMAIN store
    BY <1>11, <2>1, Generated
  <2>4. \A m, n \in New(itp) : NewID(itp)[m] = NewID(itp)[n] => m = n
    BY <1>11, <2>1, Generated
  <2>5. DOMAIN store' = DOMAIN store \cup {NewID(itp)[m] : m \in New(itp)}
    BY <1>11, <2>1, Generated
  <2>6. \A k \in DOMAIN store : store'[k] = store[k]
    BY <1>11, <2>1, Generated
  <2>7. \A m \in New(itp) : store'[NewID(itp)[m]] = [fn |-> FnOf[m], fla |-> itp[m], indexed |-> TRUE]
    BY <1>11, <2>1, Generated
  <2>8. New(itp) \subseteq Call /\ \A m \in New(itp) : m > cur
    BY <1>11, <2>1, Generated
  <2>9. Main \notin New(itp)
    BY <2>1, <2>8, CallFacts DEF Main, Call
  <2>10. \A n \in Call : sumID'[n] # 0 => /\ sumID'[n] \in DOMAIN store'
                                        /\ store'[sumID'[n]].fn = FnOf[n]
    <3> TAKE n \in Call
    <3>1. CASE n \in New(itp)
      <4>1. sumID'[n] = NewID(itp)[n] /\ NewID(itp)[n] \in DOMAIN store'
        BY <3>1, <2>2, <2>5
      <4>2. store'[NewID(itp)[n]] = [fn |-> FnOf[n], fla |-> itp[n], indexed |-> TRUE]
        BY <3>1, <2>7
      <4> QED
        BY <4>1, <4>2
    <3>2. CASE n \notin New(itp)
      BY <3>2, <2>2, <2>5, <2>6 DEF Owned
    <3> QED
      BY <3>1, <3>2
  <2>11. \A m, n \in Call : (sumID'[m] = sumID'[n] /\ sumID'[m] # 0) => m = n
    BY <2>2, <2>3, <2>4 DEF Owned
  <2>12. \A n \in Call : prec'[n] = "SUMMARY" => sumID'[n] # 0
    BY <2>2, <2>3 DEF Owned, TypeOK
  <2>13. sumID'[Main] = 0
    BY <2>2, <2>9, CallFacts DEF Owned
  <2> QED
    BY <2>10, <2>11, <2>12, <2>13 DEF Owned
<1>12. CASE Valid
  <2>1. sumID[cur] # 0
    BY <1>12 DEF Valid, Answered, Candidate, Own
  <2> QED
    BY <1>12, <2>1 DEF Valid, TypeOK, Owned, callTree, summaries, traversal, query
<1>13. CASE InvalidKept
  BY <1>13 DEF InvalidKept, Owned, callTree, summaries, traversal, query
<1>14. CASE InvalidDropped
  <2>1. cur \in Call
    BY <1>14 DEF InvalidDropped, Control, Answered
  <2> QED
    BY <1>14, <2>1, DetachOwned DEF InvalidDropped
<1>15. CASE InvalidWeakened
  <2>1. cur \in Call
    BY <1>15 DEF InvalidWeakened, Control, Answered
  <2> QED
    BY <1>15, <2>1, DetachOwned DEF InvalidWeakened
<1>16. ASSUME NEW a \in Atom, TryConjunct(a) PROVE Owned'
  <2>1. cur \in Call /\ cur # Main
    BY <1>16 DEF Control, TryConjunct, Own
  <2>2. {{a}} \in Formula
    BY <1>16 DEF Formula, Cube
  <2> QED
    BY <1>16, <2>1, <2>2, AttachOwned DEF TryConjunct, Try
<1>17. CASE ConjunctAnswered
  <2>1. cur \in Call
    BY <1>17 DEF ConjunctAnswered, Control, Answered
  <2> QED
    BY <1>17, <2>1, DetachOwned DEF ConjunctAnswered
<1>18. CASE Weaken
  <2>1. cur \in Call /\ cur # Main
    BY <1>18 DEF Control, Weaken, Own
  <2>2. {houdini.valid} \in Formula
    BY DEF TypeOK, Repair, Formula, Cube
  <2> QED
    BY <1>18, <2>1, <2>2, AttachOwned DEF Weaken
<1>19. ASSUME NEW c \in Cube, NextDisjunct(c) PROVE Owned'
  BY <1>19 DEF NextDisjunct, Owned, callTree, summaries, traversal, query
<1>20. ASSUME NEW a \in Atom, TryDrop(a) PROVE Owned'
  <2>1. cur \in Call /\ cur # Main
    BY <1>20 DEF Control, TryDrop, Own
  <2>2. Without(houdini.full, houdini.dropped \cup {a}) \in Formula
    BY DEF TypeOK, Repair, Without, Formula, Cube
  <2> QED
    BY <1>20, <2>1, <2>2, AttachOwned DEF TryDrop, Try
<1>21. CASE DisjunctValid
  <2>1. sumID[cur] # 0
    BY <1>21 DEF DisjunctValid, Answered, Candidate, Own
  <2> QED
    BY <1>21, <2>1 DEF DisjunctValid, TypeOK, Owned, callTree, summaries, traversal, query
<1>22. CASE DisjunctInvalid
  <2>1. cur \in Call
    BY <1>22 DEF DisjunctInvalid, Control, Answered
  <2> QED
    BY <1>22, <2>1, DetachOwned DEF DisjunctInvalid
<1>23. CASE GiveUp
  BY <1>23 DEF GiveUp, Owned, callTree, summaries, traversal, query, TypeOK
<1>24. CASE Unknown
  BY <1>24 DEF Unknown, Owned, callTree, summaries, traversal, query, TypeOK
<1> QED
  BY <1>1, <1>2, <1>3, <1>4, <1>5, <1>6, <1>7, <1>8, <1>9, <1>10, <1>11, <1>12, <1>13, <1>14, <1>15, <1>16, <1>17, <1>18, <1>19, <1>20, <1>21, <1>22, <1>23, <1>24
  DEF Next, Traverse, Check, Judge, Houdini


\* The call under check keeps the summary that is checked until it is answered.
LEMMA CandidateStep ==
  ASSUME TypeOK, Control, Candidate, [Next]_vars
  PROVE  Candidate'
<1>1. CASE UNCHANGED vars
  BY <1>1 DEF vars, Candidate, Own, callTree, summaries, traversal, query
<1>2. CASE Skip
  BY <1>2 DEF Skip, Candidate, Own, callTree, summaries, traversal, query
<1>3. CASE Conclude
  BY <1>3 DEF Conclude, Candidate, Own, callTree, summaries, traversal, query
<1>4. CASE AssertionsAnswered
  BY <1>4 DEF AssertionsAnswered, Candidate, Own, callTree, summaries, traversal, query
<1>5. CASE NoSummary
  BY <1>5 DEF NoSummary, CallDone, Candidate, Own, callTree, summaries, traversal, query
<1>6. CASE BeginFull
  BY <1>6 DEF BeginFull, Candidate, Own, callTree, summaries, traversal, query
<1>7. CASE Prepared
  BY <1>7 DEF Prepared, Control, TypeOK, Candidate, Own, callTree, summaries, traversal, query
<1>8. CASE Unusable
  <2>1. cur \in Call
    BY <1>8 DEF Unusable, Control, Answered
  <2>2. prec' = [prec EXCEPT ![cur] = "INLINE"]
    BY <1>8 DEF Unusable, DropID
  <2> QED
    BY <1>8, <2>1, <2>2 DEF Unusable, TypeOK, Answered, Candidate, Own, callTree, summaries, traversal, query
<1>9. ASSUME NEW U \in SUBSET Abstract(cur), Refine(U) PROVE Candidate'
  <2>1. cur \in Call /\ cur \notin U
    BY <1>9 DEF Refine, Control, Abstract, Expanded
  <2>2. sumID'[cur] = sumID[cur]
    BY <1>9, <2>1 DEF Refine
  <2>3. prec[cur] = "INLINE" => prec'[cur] = "INLINE"
    BY <1>9, <2>1 DEF Refine
  <2> QED
    BY <1>9, <2>2, <2>3 DEF Refine, Candidate, Own, callTree, summaries, traversal, query
<1>10. CASE Refuted
  BY <1>10 DEF Refuted, Candidate, Own, callTree, summaries, traversal, query
<1>11. ASSUME NEW itp \in [Inlined(cur) -> Lang], Proved(itp) PROVE Candidate'
  <2>1. cur \in Call /\ cur \notin Inlined(cur)
    BY <1>11 DEF Proved, Control, Inlined
  <2>2. sumID'[cur] = sumID[cur] /\ prec'[cur] = prec[cur]
    BY <1>11, <2>1 DEF Proved
  <2> QED
    BY <1>11, <2>2 DEF Proved, Candidate, Own, callTree, summaries, traversal, query
<1>12. CASE Valid
  BY <1>12 DEF Valid, CallDone, Candidate, Own, callTree, summaries, traversal, query
<1>13. CASE InvalidKept
  BY <1>13 DEF InvalidKept, CallDone, Candidate, Own, callTree, summaries, traversal, query
<1>14. CASE InvalidDropped
  BY <1>14 DEF InvalidDropped, CallDone, Candidate, Own, callTree, summaries, traversal, query
<1>15. CASE InvalidWeakened
  <2>1. cur \in Call
    BY <1>15 DEF InvalidWeakened, Control, Answered
  <2>2. prec' = [prec EXCEPT ![cur] = "INLINE"]
    BY <1>15 DEF InvalidWeakened, DropID
  <2> QED
    BY <1>15, <2>1, <2>2 DEF InvalidWeakened, TypeOK, Answered, Candidate, Own, callTree, summaries, traversal, query
<1>16. ASSUME NEW a \in Atom, TryConjunct(a) PROVE Candidate'
  <2>1. cur \in Call /\ sumID' = [sumID EXCEPT ![cur] = maxID]
    BY <1>16 DEF TryConjunct, Control, Try, Attach
  <2> QED
    BY <1>16, <2>1 DEF TryConjunct, Try, TypeOK, Candidate, Own, callTree, summaries, traversal, query
<1>17. CASE ConjunctAnswered
  <2>1. cur \in Call
    BY <1>17 DEF ConjunctAnswered, Control, Answered
  <2>2. prec' = [prec EXCEPT ![cur] = "INLINE"]
    BY <1>17 DEF ConjunctAnswered, DropID
  <2> QED
    BY <1>17, <2>1, <2>2 DEF ConjunctAnswered, TypeOK, Answered, Candidate, Own, callTree, summaries, traversal, query
<1>18. CASE Weaken
  BY <1>18 DEF Weaken, CallDone, Candidate, Own, callTree, summaries, traversal, query
<1>19. ASSUME NEW c \in Cube, NextDisjunct(c) PROVE Candidate'
  BY <1>19 DEF NextDisjunct, Candidate, Own, callTree, summaries, traversal, query
<1>20. ASSUME NEW a \in Atom, TryDrop(a) PROVE Candidate'
  <2>1. cur \in Call /\ sumID' = [sumID EXCEPT ![cur] = maxID]
    BY <1>20 DEF TryDrop, Control, Try, Attach
  <2> QED
    BY <1>20, <2>1 DEF TryDrop, Try, TypeOK, Candidate, Own, callTree, summaries, traversal, query
<1>21. CASE DisjunctValid
  BY <1>21 DEF DisjunctValid, CallDone, Candidate, Own, callTree, summaries, traversal, query
<1>22. CASE DisjunctInvalid
  <2>1. cur \in Call
    BY <1>22 DEF DisjunctInvalid, Control, Answered
  <2>2. prec' = [prec EXCEPT ![cur] = "INLINE"]
    BY <1>22 DEF DisjunctInvalid, DropID
  <2> QED
    BY <1>22, <2>1, <2>2 DEF DisjunctInvalid, TypeOK, Answered, Candidate, Own, callTree, summaries, traversal, query
<1>23. CASE GiveUp
  BY <1>23 DEF GiveUp, CallDone, Candidate, Own, callTree, summaries, traversal, query
<1>24. CASE Unknown
  BY <1>24 DEF Unknown, Control, TypeOK, Candidate, Own, callTree, summaries, traversal, query
<1> QED
  BY <1>1, <1>2, <1>3, <1>4, <1>5, <1>6, <1>7, <1>8, <1>9, <1>10, <1>11, <1>12, <1>13, <1>14, <1>15, <1>16, <1>17, <1>18, <1>19, <1>20, <1>21, <1>22, <1>23, <1>24
  DEF Next, Traverse, Check, Judge, Houdini

-----------------------------------------------------------------------------
(***************************************************************************)
(* What a step leaves alone.                                               *)
(***************************************************************************)
\* The step neither replaces nor removes the summary of n.
Untouched(n) == /\ sumID'[n] = sumID[n]
                /\ sumID[n] # 0 => store'[sumID[n]] = store[sumID[n]]

LEMMA DetachFrame ==
  ASSUME TypeOK, Owned, cur \in Call, store' = Minus(store, {sumID[cur]}), maxID' = maxID,
         DropID(cur, sumID[cur])
  PROVE  \A n \in Call \ {cur} : Untouched(n) /\ prec'[n] = prec[n]
<1>1. \A n \in Call \ {cur} : sumID'[n] = sumID[n] /\ prec'[n] = prec[n]
  BY DEF DropID, TypeOK
<1>2. \A n \in Call \ {cur} : sumID[n] # 0 => sumID[n] \in DOMAIN store \ {sumID[cur]}
  BY DEF Owned
<1> QED
  BY <1>1, <1>2 DEF Untouched, Minus

LEMMA AttachFrame ==
  ASSUME TypeOK, Owned, cur \in Call, NEW f \in Formula, Attach(f)
  PROVE  /\ \A n \in Call \ {cur} : Untouched(n)
         /\ store'[sumID'[cur]].fla = f
<1>1. /\ \A k \in DOMAIN store : store'[k] = store[k]
      /\ store'[maxID] = [fn |-> FnOf[cur], fla |-> f, indexed |-> TRUE]
      /\ sumID' = [sumID EXCEPT ![cur] = maxID]
  BY Attached
<1>2. \A n \in Call \ {cur} : sumID'[n] = sumID[n]
  BY <1>1 DEF TypeOK
<1>3. sumID'[cur] = maxID
  BY <1>1 DEF TypeOK
<1> QED
  BY <1>1, <1>2, <1>3 DEF Owned, Untouched

LEMMA RefineFrame ==
  ASSUME TypeOK, Owned, cur \in Call, NEW U \in SUBSET Abstract(cur), Refine(U)
  PROVE  /\ U \subseteq Call /\ \A m \in U : m > cur
         /\ \A n \in Call \ U : Untouched(n) /\ (n # cur => prec'[n] = prec[n])
         /\ \A n \in U : prec'[n] = "INLINE"
<1> DEFINE ids == {sumID[m] : m \in {k \in U : sumID[k] # 0}}
<1>1. U \subseteq Call
  BY PartitionFacts DEF Abstract
<1>2. \A m \in U : m > cur
  <2>1. \A m \in U : m >= cur /\ m # cur
    BY PartitionFacts DEF Abstract, Expanded
  <2> QED
    BY <1>1, <2>1, CallFacts
<1>3. /\ store' = Minus(store, ids)
      /\ \A n \in Call \ U : sumID'[n] = sumID[n] /\ (n # cur => prec'[n] = prec[n])
      /\ \A n \in Call : n \in U => prec'[n] = "INLINE"
  BY DEF Refine
<1>4. \A n \in Call \ U : sumID[n] # 0 => sumID[n] \in DOMAIN store \ ids
  BY <1>1 DEF Owned
<1> HIDE DEF ids
<1>5. \A k \in DOMAIN store \ ids : store'[k] = store[k]
  BY <1>3 DEF Minus
<1> QED
  BY <1>1, <1>2, <1>3, <1>4, <1>5 DEF Untouched

LEMMA ProvedFrame ==
  ASSUME TypeOK, Owned, cur \in Call, NEW itp \in [Inlined(cur) -> Lang], Proved(itp)
  PROVE  /\ \A n \in Call \ New(itp) : Untouched(n) /\ prec'[n] = prec[n]
         /\ \A n \in New(itp) : store'[sumID'[n]].fla = itp[n]
         /\ New(itp) \subseteq Inlined(cur) /\ Inlined(cur) \subseteq Call
         /\ \A m \in Inlined(cur) : m > cur
<1>1. /\ sumID' = [m \in Call |-> IF m \in New(itp) THEN NewID(itp)[m] ELSE sumID[m]]
      /\ prec'  = [m \in Call |-> IF m \in New(itp) THEN "SUMMARY" ELSE prec[m]]
  BY DEF Proved, New, NewID
<1>2. New(itp) \subseteq Inlined(cur) /\ Inlined(cur) \subseteq Call
  BY Generated
<1>3. \A k \in DOMAIN store : store'[k] = store[k]
  BY Generated
<1>4. ASSUME NEW n \in New(itp) PROVE store'[sumID'[n]].fla = itp[n]
  <2>1. store'[NewID(itp)[n]] = [fn |-> FnOf[n], fla |-> itp[n], indexed |-> TRUE]
    BY Generated
  <2>2. sumID'[n] = NewID(itp)[n]
    BY <1>1, <1>2
  <2> QED
    BY <2>1, <2>2
<1>5. \A n \in Call \ New(itp) : Untouched(n) /\ prec'[n] = prec[n]
  BY <1>1, <1>3 DEF Untouched, Owned
<1>6. \A m \in Inlined(cur) : m > cur
  BY Generated
<1> QED
  BY <1>2, <1>4, <1>5, <1>6


\* A step of the traversal at cur touches the summaries of cur and of calls already
\* passed; among the latter, only a proof makes a call a summarized one.
Framed ==
  /\ ver' = ver /\ preserved' = preserved
  /\ \A n \in Call : n < cur => Untouched(n)
  /\ \A n \in Call : (n > cur /\ prec'[n] = "SUMMARY")
        => \/ prec[n] = "SUMMARY" /\ Untouched(n)
           \/ \E itp \in [Inlined(cur) -> Lang] : Proved(itp) /\ n \in New(itp)

LEMMA FrameStep ==
  ASSUME TypeOK, Control, Owned, [Next]_vars
  PROVE  Framed
<1>1. CASE UNCHANGED vars
  BY <1>1 DEF vars, Framed, Untouched, callTree, summaries, traversal, query
<1>2. CASE Skip
  BY <1>2 DEF Skip, Framed, Untouched, callTree, summaries, traversal, query
<1>3. CASE Conclude
  BY <1>3 DEF Conclude, Framed, Untouched, callTree, summaries, traversal, query
<1>4. CASE AssertionsAnswered
  BY <1>4 DEF AssertionsAnswered, Framed, Untouched, callTree, summaries, traversal, query
<1>5. CASE NoSummary
  BY <1>5 DEF NoSummary, Framed, Untouched, callTree, summaries, traversal, query
<1>6. CASE BeginFull
  BY <1>6 DEF BeginFull, Framed, Untouched, callTree, summaries, traversal, query
<1>7. CASE Prepared
  <2>1. cur \in Call /\ \A n \in Call : n # cur => prec'[n] = prec[n]
    BY <1>7 DEF Prepared, Answered, Control, TypeOK
  <2> QED
    BY <1>7, <2>1, CallFacts DEF Prepared, Framed, Untouched, callTree, summaries, traversal, query
<1>8. CASE Unusable
  <2>1. cur \in Call
    BY <1>8 DEF Unusable, Control, Answered
  <2>2. \A n \in Call \ {cur} : Untouched(n) /\ prec'[n] = prec[n]
    BY <1>8, <2>1, DetachFrame DEF Unusable
  <2> QED
    BY <1>8, <2>1, <2>2, CallFacts DEF Unusable, Framed
<1>9. ASSUME NEW U \in SUBSET Abstract(cur), Refine(U) PROVE Framed
  <2>1. cur \in Call
    BY <1>9 DEF Control, Refine
  <2>2. /\ U \subseteq Call /\ \A m \in U : m > cur
        /\ \A n \in Call \ U : Untouched(n) /\ (n # cur => prec'[n] = prec[n])
        /\ \A n \in U : prec'[n] = "INLINE"
    BY <1>9, <2>1, RefineFrame
  <2>3. \A n \in Call : n < cur => Untouched(n)
    BY <2>1, <2>2, CallFacts
  <2>4. \A n \in Call : (n > cur /\ prec'[n] = "SUMMARY")
                        => prec[n] = "SUMMARY" /\ Untouched(n)
    BY <2>1, <2>2, CallFacts
  <2>5. ver' = ver /\ preserved' = preserved
    BY <1>9 DEF Refine
  <2> QED
    BY ONLY <2>3, <2>4, <2>5 DEF Framed
<1>10. CASE Refuted
  BY <1>10 DEF Refuted, Framed, Untouched, callTree, summaries, traversal, query
<1>11. ASSUME NEW itp \in [Inlined(cur) -> Lang], Proved(itp) PROVE Framed
  <2>1. cur \in Call
    BY <1>11 DEF Control, Proved
  <2>2. /\ \A n \in Call \ New(itp) : Untouched(n) /\ prec'[n] = prec[n]
        /\ \A n \in New(itp) : n > cur
    BY <1>11, <2>1, ProvedFrame
  <2>3. \A n \in Call : n < cur => Untouched(n)
    BY <2>1, <2>2, CallFacts
  <2>4. \A n \in Call : (n > cur /\ prec'[n] = "SUMMARY" /\ n \notin New(itp))
                        => prec[n] = "SUMMARY" /\ Untouched(n)
    BY <2>2
  <2>5. ver' = ver /\ preserved' = preserved
    BY <1>11 DEF Proved
  <2>6. \A n \in New(itp) : \E i \in [Inlined(cur) -> Lang] : Proved(i) /\ n \in New(i)
    BY <1>11
  <2> QED
    BY ONLY <2>3, <2>4, <2>5, <2>6 DEF Framed
<1>12. CASE Valid
  <2>1. cur \in Call /\ \A n \in Call : n # cur => prec'[n] = prec[n]
    BY <1>12 DEF Valid, Answered, Control, TypeOK
  <2> QED
    BY <1>12, <2>1, CallFacts DEF Valid, Framed, Untouched, callTree, summaries, traversal, query
<1>13. CASE InvalidKept
  BY <1>13 DEF InvalidKept, Framed, Untouched, callTree, summaries, traversal, query
<1>14. CASE InvalidDropped
  <2>1. cur \in Call
    BY <1>14 DEF InvalidDropped, Control, Answered
  <2>2. \A n \in Call \ {cur} : Untouched(n) /\ prec'[n] = prec[n]
    BY <1>14, <2>1, DetachFrame DEF InvalidDropped
  <2> QED
    BY <1>14, <2>1, <2>2, CallFacts DEF InvalidDropped, Framed
<1>15. CASE InvalidWeakened
  <2>1. cur \in Call
    BY <1>15 DEF InvalidWeakened, Control, Answered
  <2>2. \A n \in Call \ {cur} : Untouched(n) /\ prec'[n] = prec[n]
    BY <1>15, <2>1, DetachFrame DEF InvalidWeakened
  <2> QED
    BY <1>15, <2>1, <2>2, CallFacts DEF InvalidWeakened, Framed
<1>16. ASSUME NEW a \in Atom, TryConjunct(a) PROVE Framed
  <2>1. cur \in Call /\ \A n \in Call : n # cur => prec'[n] = prec[n]
    BY <1>16 DEF Control, TryConjunct, Try, TypeOK
  <2>2. {{a}} \in Formula
    BY <1>16 DEF Formula, Cube
  <2>3. \A n \in Call \ {cur} : Untouched(n)
    BY <1>16, <2>1, <2>2, AttachFrame DEF TryConjunct, Try
  <2> QED
    BY <1>16, <2>1, <2>3, CallFacts DEF TryConjunct, Try, Framed
<1>17. CASE ConjunctAnswered
  <2>1. cur \in Call
    BY <1>17 DEF ConjunctAnswered, Control, Answered
  <2>2. \A n \in Call \ {cur} : Untouched(n) /\ prec'[n] = prec[n]
    BY <1>17, <2>1, DetachFrame DEF ConjunctAnswered
  <2> QED
    BY <1>17, <2>1, <2>2, CallFacts DEF ConjunctAnswered, Framed
<1>18. CASE Weaken
  <2>1. cur \in Call /\ \A n \in Call : n # cur => prec'[n] = prec[n]
    BY <1>18 DEF Control, Weaken, TypeOK
  <2>2. {houdini.valid} \in Formula
    BY DEF TypeOK, Repair, Formula, Cube
  <2>3. \A n \in Call \ {cur} : Untouched(n)
    BY <1>18, <2>1, <2>2, AttachFrame DEF Weaken
  <2> QED
    BY <1>18, <2>1, <2>3, CallFacts DEF Weaken, Framed
<1>19. ASSUME NEW c \in Cube, NextDisjunct(c) PROVE Framed
  BY <1>19 DEF NextDisjunct, Framed, Untouched, callTree, summaries, traversal, query
<1>20. ASSUME NEW a \in Atom, TryDrop(a) PROVE Framed
  <2>1. cur \in Call /\ \A n \in Call : n # cur => prec'[n] = prec[n]
    BY <1>20 DEF Control, TryDrop, Try, TypeOK
  <2>2. Without(houdini.full, houdini.dropped \cup {a}) \in Formula
    BY DEF TypeOK, Repair, Without, Formula, Cube
  <2>3. \A n \in Call \ {cur} : Untouched(n)
    BY <1>20, <2>1, <2>2, AttachFrame DEF TryDrop, Try
  <2> QED
    BY <1>20, <2>1, <2>3, CallFacts DEF TryDrop, Try, Framed
<1>21. CASE DisjunctValid
  <2>1. cur \in Call /\ \A n \in Call : n # cur => prec'[n] = prec[n]
    BY <1>21 DEF DisjunctValid, Answered, Control, TypeOK
  <2> QED
    BY <1>21, <2>1, CallFacts DEF DisjunctValid, Framed, Untouched, callTree, summaries, traversal, query
<1>22. CASE DisjunctInvalid
  <2>1. cur \in Call
    BY <1>22 DEF DisjunctInvalid, Control, Answered
  <2>2. \A n \in Call \ {cur} : Untouched(n) /\ prec'[n] = prec[n]
    BY <1>22, <2>1, DetachFrame DEF DisjunctInvalid
  <2> QED
    BY <1>22, <2>1, <2>2, CallFacts DEF DisjunctInvalid, Framed
<1>23. CASE GiveUp
  <2>1. cur \in Call /\ \A n \in Call : n # cur => prec'[n] = prec[n]
    BY <1>23 DEF GiveUp, Answered, Control, TypeOK
  <2> QED
    BY <1>23, <2>1, CallFacts DEF GiveUp, Framed, Untouched, callTree, summaries, traversal, query
<1>24. CASE Unknown
  <2>1. cur \in Call /\ \A n \in Call : n # cur => prec'[n] = prec[n]
    BY <1>24 DEF Unknown, Answered, Control, TypeOK
  <2> QED
    BY <1>24, <2>1, CallFacts DEF Unknown, Framed, Untouched, callTree, summaries, traversal, query
<1> QED
  BY <1>1, <1>2, <1>3, <1>4, <1>5, <1>6, <1>7, <1>8, <1>9, <1>10, <1>11, <1>12, <1>13, <1>14, <1>15, <1>16, <1>17, <1>18, <1>19, <1>20, <1>21, <1>22, <1>23, <1>24
  DEF Next, Traverse, Check, Judge, Houdini

-----------------------------------------------------------------------------
(***************************************************************************)
(* What the new revision really does stays below what is claimed of it.    *)
(***************************************************************************)
\* A proof the solver finds holds of the new revision: its conclusion, and every
\* interpolant.
LEMMA ProofSound ==
  ASSUME ver \in Versions, asserted \in Env, cur \in Call,
         \A m \in Call : Concrete(ver)[m] \subseteq asserted[m],
         \A m \in Abstract(cur) : Concrete(ver)[m] \subseteq Abstraction(m),
         NEW itp \in [Inlined(cur) -> Lang], Proved(itp)
  PROVE  /\ \A m \in Inlined(cur) : Concrete(ver)[m] \subseteq Models(itp[m])
         /\ Concrete(ver)[cur] \subseteq Goal
<1> DEFINE Y == [m \in Inlined(cur) |-> Models(itp[m])]
           X == QueryEnv(Y, Abstract(cur))
           P == Partitions(cur)
           I == Inlined(cur) \cup {cur}
<1>1. cur \in P /\ P \subseteq Call /\ \A m \in P : m >= cur
  BY PartitionFacts
<1>2. I \in SUBSET P /\ cur \notin Inlined(cur)
  BY <1>1 DEF Inlined
<1>3. /\ X \in [Call -> {X[m] : m \in Call}]
      /\ X[cur] = Goal
      /\ \A m \in Inlined(cur) : X[m] = Models(itp[m])
      /\ \A m \in P \ I : X[m] = Abstraction(m)
  <2>1. \A m \in Call : X[m] = CASE m = cur           -> Goal
                               [] m \in Inlined(cur) -> Y[m]
                               [] m \in Abstract(cur) -> Abstraction(m)
                               [] OTHER              -> {}
    BY DEF QueryEnv
  <2>2. X \in [Call -> {X[m] : m \in Call}]
    BY DEF QueryEnv
  <2>3. \A m \in P \ I : m \in Abstract(cur)
    BY DEF Abstract, Inlined, Expanded
  <2>a. /\ Inlined(cur) \subseteq Call
        /\ cur \notin Inlined(cur) /\ cur \notin Abstract(cur)
        /\ Inlined(cur) \cap Abstract(cur) = {}
    BY <1>1 DEF Inlined, Abstract, Expanded
  <2> HIDE DEF X, I, P
  <2>4. X[cur] = Goal
    BY <2>1, <2>a
  <2>5. \A m \in Inlined(cur) : X[m] = Models(itp[m])
    BY <2>1, <2>a
  <2>6. ASSUME NEW m \in P \ I PROVE X[m] = Abstraction(m)
    <3>1. m \in Call /\ m # cur /\ m \notin Inlined(cur)
      BY <1>1 DEF I
    <3> QED
      BY <2>1, <2>3, <2>a, <3>1
  <2> QED
    BY <2>2, <2>4, <2>5, <2>6
<1>4. \A m \in Call : X[m] \in SUBSET Val
  <2>1. Goal \subseteq Val
    BY SafeAssumption DEF Goal, Models
  <2>2. \A m \in Inlined(cur) : Y[m] \subseteq Val
    BY DEF Models
  <2>3. \A m \in Call : Abstraction(m) \subseteq Val
    BY DEF Abstraction, Env
  <2> QED
    BY <2>1, <2>2, <2>3 DEF QueryEnv
<1>5. X \in Env
  BY <1>3, <1>4 DEF Env
<1>6. \A m \in I : Children(m) \subseteq P
  <2>1. \A m \in I : Expanded(cur, m)
    BY DEF Inlined, Expanded
  <2> QED
    BY <1>2, <2>1, PartitionFacts
<1>7. ASSUME NEW m \in P \ I PROVE Concrete(ver)[m] \subseteq X[m]
  <2>1. m \in Abstract(cur)
    BY DEF Abstract, Inlined, Expanded
  <2> QED
    BY <1>3, <2>1
<1>8. ASSUME NEW m \in I PROVE Concrete(ver)[m] \cap Post(ver, m, X) \subseteq X[m]
  <2>1. Expansion(m, X) \subseteq X[m]
    BY DEF Proved, Proof
  <2>2. Concrete(ver)[m] \subseteq asserted[m]
    BY <1>1, <1>2
  <2> QED
    BY <2>1, <2>2 DEF Expansion
<1>9. ver \in Versions /\ P \in SUBSET Call
  BY <1>1
<1> HIDE DEF X, P, I
<1>10. \A m \in P : Concrete(ver)[m] \subseteq X[m]
  BY ONLY <1>2, <1>5, <1>6, <1>7, <1>8, <1>9, RelativelyClosed
<1>11. Concrete(ver)[cur] \subseteq Goal
  BY <1>1, <1>3, <1>10
<1>12. \A m \in Inlined(cur) : m \in P
  BY DEF Inlined, P
<1> QED
  BY <1>3, <1>10, <1>11, <1>12

LEMMA QuerySound ==
  ASSUME TypeOK, Control, Owned, QueriesSound, cur \in Call,
         NEW itp \in [Inlined(cur) -> Lang], Proved(itp)
  PROVE  /\ \A m \in Inlined(cur) : Concrete(ver)[m] \subseteq Models(itp[m])
         /\ Concrete(ver)[cur] \subseteq Goal
<1>1. ASSUME NEW m \in Abstract(cur) PROVE Concrete(ver)[m] \subseteq Abstraction(m)
  <2>1. m \in Call /\ m >= cur /\ m # cur
    BY PartitionFacts DEF Abstract, Expanded
  <2>2. m > cur
    BY <2>1, CallFacts
  <2>3. Concrete(ver)[m] \subseteq asserted[m] /\ Concrete(ver)[m] \subseteq Val
    BY <2>1, ConcreteIsEnv DEF QueriesSound, AssertedSound, Env
  <2>4. prec[m] = "SUMMARY" => Concrete(ver)[m] \subseteq Models(SummaryOf(m))
    BY <2>1, <2>2 DEF QueriesSound, SummariesSound
  <2> QED
    BY <2>3, <2>4 DEF Abstraction
<1>2. \A m \in Call : Concrete(ver)[m] \subseteq asserted[m]
  BY DEF QueriesSound, AssertedSound
<1>3. ver \in Versions /\ asserted \in Env
  BY DEF TypeOK
<1> QED
  BY <1>1, <1>2, <1>3, ProofSound

\* A call that is skipped does what the proof of the previous revision says.
LEMMA SkipSound ==
  ASSUME TypeOK, NEW E \in Env, Prior(E), Skip
  PROVE  Concrete(ver)[cur] \subseteq E[cur]
<1>1. cur \in Call /\ cur \in preserved /\ cur \notin marked
  BY DEF Skip, MustCheck, TypeOK, Call
<1> DEFINE I == {cur}
           P == I \cup Children(cur)
<1>2. P \in SUBSET Call /\ I \in SUBSET P
  BY <1>1, CallFacts
<1>3. \A m \in I : Children(m) \subseteq P
  OBVIOUS
<1>4. \A m \in P \ I : Concrete(ver)[m] \subseteq E[m]
  BY <1>1, CallFacts DEF Prior
<1>5. \A m \in I : Concrete(ver)[m] \cap Post(ver, m, E) \subseteq E[m]
  BY <1>1 DEF Prior
<1>6. ver \in Versions /\ E \in Env
  BY DEF TypeOK
<1> HIDE DEF P, I
<1>7. \A m \in P : Concrete(ver)[m] \subseteq E[m]
  BY ONLY <1>2, <1>3, <1>4, <1>5, <1>6, RelativelyClosed
<1> QED
  BY <1>7 DEF P, I

LEMMA AssertedStep ==
  ASSUME TypeOK, Control, Owned, QueriesSound, [Next]_vars
  PROVE  AssertedSound'
<1>1. ver' = ver
  BY FrameStep DEF Framed
<1>2. CASE asserted' = asserted
  BY <1>1, <1>2 DEF QueriesSound, AssertedSound
<1>3. CASE asserted' = NotAsserted
  BY <1>1, <1>3, ConcreteIsEnv DEF AssertedSound, NotAsserted, Env
<1>4. ASSUME NEW U \in SUBSET Abstract(cur), Refine(U) PROVE AssertedSound'
  <2>1. cur \in Call
    BY <1>4 DEF Control, Refine
  <2>2. ASSUME NEW m \in Summarized(cur)
        PROVE  Concrete(ver)[m] \subseteq Abstraction(m)
    <3>1. m \in Call /\ m >= cur /\ m # cur /\ prec[m] = "SUMMARY"
      BY <2>1, PartitionFacts DEF Summarized, Abstract, Expanded
    <3>2. m > cur
      BY <2>1, <3>1, CallFacts
    <3>3. Concrete(ver)[m] \subseteq asserted[m]
      BY <3>1 DEF QueriesSound, AssertedSound
    <3>4. Concrete(ver)[m] \subseteq Models(SummaryOf(m))
      BY <3>1, <3>2 DEF QueriesSound, SummariesSound
    <3> QED
      BY <3>1, <3>3, <3>4 DEF Abstraction
  <2>3. asserted' = [m \in Call |->
                       IF m \in Summarized(cur) THEN Abstraction(m) ELSE asserted[m]]
    BY <1>4 DEF Refine
  <2>4. \A m \in Call : Concrete(ver)[m] \subseteq asserted[m]
    BY DEF QueriesSound, AssertedSound
  <2>5. \A m \in Call : Concrete(ver)[m] \subseteq asserted'[m]
    BY <2>2, <2>3, <2>4
  <2> QED
    BY <1>1, <2>5 DEF AssertedSound
<1>5. \/ asserted' = asserted \/ asserted' = NotAsserted
      \/ \E U \in SUBSET Abstract(cur) : Refine(U)
  <2>1. \A ok : CallDone(ok) => asserted' = asserted \/ asserted' = NotAsserted
    BY DEF CallDone
  <2>2. CASE UNCHANGED vars
    BY <2>2 DEF vars, query
  <2>3. CASE Traverse
    BY <2>1, <2>3 DEF Traverse, Skip, NoSummary, BeginFull, AssertionsAnswered, Conclude, query
  <2>4. CASE Check
    BY <2>4 DEF Check, Prepared, Unusable, Unknown, Refuted, Proved
  <2>5. CASE Judge
    BY <2>1, <2>5 DEF Judge, Valid, InvalidKept, InvalidDropped, InvalidWeakened
  <2>6. CASE Houdini
    BY <2>1, <2>6 DEF Houdini, TryConjunct, TryDrop, Try, NextDisjunct, ConjunctAnswered,
                      Weaken, DisjunctValid, DisjunctInvalid, GiveUp, query
  <2> QED
    BY <2>2, <2>3, <2>4, <2>5, <2>6 DEF Next
<1> QED
  BY <1>2, <1>3, <1>4, <1>5

LEMMA AnswerStep ==
  ASSUME TypeOK, Control, Owned, Candidate, QueriesSound, [Next]_vars
  PROVE  AnswerSound'
<1>1. ver' = ver
  BY FrameStep DEF Framed
<1>2. CASE UNCHANGED vars
  BY <1>2 DEF vars, query, callTree, summaries, traversal, QueriesSound, AnswerSound, Goal, SummaryOf
<1>3. CASE ~ (phase' = "answer" /\ holds')
  BY <1>3 DEF AnswerSound
<1>4. ASSUME NEW itp \in [Inlined(cur) -> Lang], Proved(itp) PROVE AnswerSound'
  <2>1. cur \in Call
    BY <1>4 DEF Control, Proved
  <2>2. Concrete(ver)[cur] \subseteq Goal
    BY <1>4, <2>1, QuerySound
  <2>3. cur' = cur /\ task' = task /\ (task = "main" \/ task \in Own)
    BY <1>4 DEF Proved, traversal, Control, TypeOK, Task, Own
  <2>4. Untouched(cur)
    <3>1. cur \notin New(itp)
      BY DEF New, Inlined
    <3> QED
      BY <1>4, <2>1, <3>1, ProvedFrame
  <2>5. CASE task = "main"
    BY <1>1, <2>2, <2>3, <2>5 DEF AnswerSound, Goal
  <2>6. CASE task # "main"
    <3>1. SummaryOf(cur)' = SummaryOf(cur)
      BY <1>4, <2>3, <2>4, <2>6 DEF Untouched, SummaryOf, Candidate, Proved
    <3> QED
      BY <1>1, <2>2, <2>3, <2>6, <3>1 DEF AnswerSound, Goal, Models
  <2> QED
    BY <2>5, <2>6
<1>5. \/ ~ (phase' = "answer" /\ holds')
      \/ UNCHANGED vars
      \/ \E itp \in [Inlined(cur) -> Lang] : Proved(itp)
  <2>1. \A ok : CallDone(ok) => holds' = FALSE
    BY DEF CallDone
  <2>3. CASE Traverse
    BY <2>1, <2>3 DEF Traverse, Skip, NoSummary, BeginFull, AssertionsAnswered, Conclude, query
  <2>4. CASE Check
    BY <2>4 DEF Check, Prepared, Unusable, Unknown, Refuted, Refine
  <2>5. CASE Judge
    BY <2>1, <2>5 DEF Judge, Valid, InvalidKept, InvalidDropped, InvalidWeakened
  <2>6. CASE Houdini
    BY <2>1, <2>6 DEF Houdini, TryConjunct, TryDrop, Try, NextDisjunct, ConjunctAnswered,
                      Weaken, DisjunctValid, DisjunctInvalid, GiveUp, query
  <2> QED
    BY <2>3, <2>4, <2>5, <2>6 DEF Next
<1> QED
  BY <1>2, <1>3, <1>4, <1>5


\* A query that is under way does not change the summary it checks.
LEMMA CandidateKept ==
  ASSUME TypeOK, Control, Owned, Candidate, task \in Own,
         Prepared \/ Unknown \/ Refuted \/ (\E U \in SUBSET Abstract(cur) : Refine(U))
           \/ (\E itp \in [Inlined(cur) -> Lang] : Proved(itp))
  PROVE  cur \in Call /\ cur' = cur /\ task' = task /\ houdini' = houdini
         /\ SummaryOf(cur)' = SummaryOf(cur)
<1>1. cur \in Call /\ sumID[cur] # 0
  BY DEF Control, Own, Candidate, Prepared, Unknown, Refuted, Refine, Proved
<1>2. cur' = cur /\ task' = task /\ houdini' = houdini
  BY DEF Prepared, Unknown, Refuted, Refine, Proved, traversal
<1>3. Untouched(cur)
  <2>1. CASE Prepared \/ Unknown \/ Refuted
    BY <2>1 DEF Prepared, Unknown, Refuted, Untouched, callTree, summaries
  <2>2. ASSUME NEW U \in SUBSET Abstract(cur), Refine(U) PROVE Untouched(cur)
    <3>1. cur \notin U
      BY DEF Abstract, Expanded
    <3> QED
      BY <1>1, <2>2, <3>1, RefineFrame
  <2>3. ASSUME NEW itp \in [Inlined(cur) -> Lang], Proved(itp) PROVE Untouched(cur)
    <3>1. cur \notin New(itp)
      BY DEF New, Inlined
    <3> QED
      BY <1>1, <2>3, <3>1, ProvedFrame
  <2> QED
    BY <2>1, <2>2, <2>3
<1> QED
  BY <1>1, <1>2, <1>3 DEF Untouched, SummaryOf

LEMMA ConjunctsStep ==
  ASSUME TypeOK, Control, Owned, Candidate, QueriesSound, [Next]_vars
  PROVE  ConjunctsSound'
<1>1. ver' = ver
  BY FrameStep DEF Framed
<1>2. CASE UNCHANGED vars
  BY <1>2 DEF vars, query, callTree, summaries, traversal, QueriesSound, ConjunctsSound, SummaryOf
<1>3. CASE task' # "conjunct"
  BY <1>3 DEF ConjunctsSound
<1>4. CASE InvalidWeakened
  BY <1>4 DEF InvalidWeakened, NoRepair, ConjunctsSound
<1>5. ASSUME NEW a \in Atom, TryConjunct(a) PROVE ConjunctsSound'
  <2>1. cur \in Call /\ cur' = cur /\ task = "conjunct" /\ {{a}} \in Formula
    BY <1>5 DEF Control, TryConjunct, Try, traversal, Formula, Cube
  <2>2. SummaryOf(cur)' = {{a}}
    BY <1>5, <2>1, AttachFrame DEF TryConjunct, Try, SummaryOf
  <2>3. houdini'.valid = houdini.valid
    BY <1>5 DEF TryConjunct, TypeOK, Repair
  <2> QED
    BY <1>1, <1>5, <2>1, <2>2, <2>3 DEF ConjunctsSound, QueriesSound
<1>6. CASE Prepared \/ Unknown \/ Refuted \/ (\E U \in SUBSET Abstract(cur) : Refine(U))
             \/ (\E itp \in [Inlined(cur) -> Lang] : Proved(itp))
  <2>1. CASE task = "conjunct"
    <3>1. cur' = cur /\ houdini' = houdini /\ SummaryOf(cur)' = SummaryOf(cur)
      BY <1>6, <2>1, CandidateKept DEF Own
    <3>2. phase # "repair"
      BY <1>6 DEF Prepared, Unknown, Refuted, Refine, Proved
    <3> QED
      BY <1>1, <2>1, <3>1, <3>2 DEF ConjunctsSound, QueriesSound
  <2>2. CASE task # "conjunct"
    BY <1>6, <2>2 DEF Prepared, Unknown, Refuted, Refine, Proved, ConjunctsSound
  <2> QED
    BY <2>1, <2>2
<1>7. CASE ConjunctAnswered
  <2>1. PICK a \in Atom : SummaryOf(cur) = {{a}}
    BY <1>7 DEF ConjunctAnswered, QueriesSound, ConjunctsSound
  <2>2. \A b \in Passed : b = a /\ holds
    BY <2>1 DEF Passed
  <2>3. holds => Concrete(ver)[cur] \subseteq a
    <3>1. Models({{a}}) \subseteq a
      BY DEF Models
    <3> QED
      BY <1>7, <2>1, <3>1 DEF ConjunctAnswered, QueriesSound, AnswerSound, Goal
  <2>4. cur' = cur /\ phase' = "repair" /\ houdini'.valid = houdini.valid \cup Passed
    BY <1>7 DEF ConjunctAnswered, traversal, TypeOK, Repair
  <2>5. \A b \in houdini.valid : Concrete(ver)[cur] \subseteq b
    BY <1>7 DEF ConjunctAnswered, QueriesSound, ConjunctsSound
  <2> QED
    BY <1>1, <2>2, <2>3, <2>4, <2>5 DEF ConjunctsSound
<1>8. \/ task' # "conjunct" \/ InvalidWeakened \/ ConjunctAnswered \/ UNCHANGED vars
      \/ \E a \in Atom : TryConjunct(a)
      \/ Prepared \/ Unknown \/ Refuted \/ (\E U \in SUBSET Abstract(cur) : Refine(U))
      \/ (\E itp \in [Inlined(cur) -> Lang] : Proved(itp))
  <2>1. \A ok : CallDone(ok) => task' # "conjunct"
    BY DEF CallDone
  <2>3. CASE Traverse
    BY <2>1, <2>3 DEF Traverse, Skip, NoSummary, BeginFull, AssertionsAnswered, Conclude,
                      query, Control
  <2>4. CASE Check
    BY <2>4 DEF Check, Unusable
  <2>5. CASE Judge
    BY <2>1, <2>5 DEF Judge, Valid, InvalidKept, InvalidDropped
  <2>6. CASE Houdini
    BY <2>1, <2>6 DEF Houdini, TryDrop, Try, NextDisjunct, Weaken, DisjunctValid,
                      DisjunctInvalid, GiveUp, query, Answered
  <2> QED
    BY <2>3, <2>4, <2>5, <2>6 DEF Next
<1> QED
  BY <1>2, <1>3, <1>4, <1>5, <1>6, <1>7, <1>8

\* The traversal only ever moves on by one call, and these are its ways to do so.
LEMMA CursorStep ==
  ASSUME TypeOK, Control, [Next]_vars
  PROVE  \/ cur' = cur
         \/ cur' = cur - 1 /\ cur \in Call
            /\ (\/ Skip \/ AssertionsAnswered \/ NoSummary \/ Valid \/ InvalidKept
                \/ InvalidDropped \/ Weaken \/ DisjunctValid \/ GiveUp)
<1>1. \A ok : CallDone(ok) => cur' = cur \/ cur' = cur - 1
  BY DEF CallDone
<1>2. cur \in Call \/ cur = 0
  BY CallsAssumption DEF TypeOK, Call
<1>3. CASE UNCHANGED vars
  BY <1>3 DEF vars, traversal
<1>4. CASE Traverse
  <2>1. cur > 0 => cur \in Call
    BY <1>2
  <2>2. CASE Skip
    BY <2>1, <2>2 DEF Skip
  <2>3. CASE NoSummary
    BY <1>1, <2>1, <2>3 DEF NoSummary
  <2>4. CASE AssertionsAnswered
    BY <2>4 DEF AssertionsAnswered, Control
  <2>5. CASE BeginFull \/ Conclude
    BY <2>5 DEF BeginFull, Conclude, traversal
  <2> QED
    BY <1>4, <2>2, <2>3, <2>4, <2>5 DEF Traverse
<1>5. CASE Check
  BY <1>5 DEF Check, Prepared, Unusable, Unknown, Refuted, Refine, Proved, traversal
<1>6. CASE Judge
  BY <1>1, <1>6 DEF Judge, Valid, InvalidKept, InvalidDropped, InvalidWeakened, Answered,
                    Control
<1>7. CASE Houdini
  BY <1>1, <1>7 DEF Houdini, TryConjunct, TryDrop, Try, NextDisjunct, ConjunctAnswered,
                    Weaken, DisjunctValid, DisjunctInvalid, GiveUp, traversal, Answered,
                    Control
<1> QED
  BY <1>3, <1>4, <1>5, <1>6, <1>7 DEF Next

LEMMA SummariesStep ==
  ASSUME TypeOK, Control, Owned, Candidate, QueriesSound, NEW E \in Env, Prior(E), [Next]_vars
  PROVE  SummariesSound'
<1>1. Framed /\ ver' = ver
  BY FrameStep DEF Framed
<1>2. ASSUME NEW n \in Call, n > cur, prec'[n] = "SUMMARY"
      PROVE  Concrete(ver)[n] \subseteq Models(SummaryOf(n)')
  <2>1. CASE prec[n] = "SUMMARY" /\ Untouched(n)
    <3>1. sumID[n] # 0
      BY <2>1 DEF Owned
    <3>2. SummaryOf(n)' = SummaryOf(n)
      BY <2>1, <3>1 DEF SummaryOf, Untouched
    <3> QED
      BY <1>2, <2>1, <3>2 DEF QueriesSound, SummariesSound
  <2>2. ASSUME NEW itp \in [Inlined(cur) -> Lang], Proved(itp), n \in New(itp)
        PROVE  Concrete(ver)[n] \subseteq Models(SummaryOf(n)')
    <3>1. cur \in Call
      BY <2>2 DEF Control, Proved
    <3>2. n \in Inlined(cur) /\ SummaryOf(n)' = itp[n]
      BY <2>2, <3>1, ProvedFrame DEF SummaryOf
    <3> QED
      BY <2>2, <3>1, <3>2, QuerySound
  <2> QED
    BY <1>1, <1>2, <2>1, <2>2 DEF Framed
<1>3. ASSUME cur \in Call, prec'[cur] = "SUMMARY",
             \/ Skip \/ AssertionsAnswered \/ NoSummary \/ Valid \/ InvalidKept
             \/ InvalidDropped \/ Weaken \/ DisjunctValid \/ GiveUp
      PROVE  Concrete(ver)[cur] \subseteq Models(store'[sumID'[cur]].fla)
  <2>1. CASE Skip
    <3>1. prec[cur] = "SUMMARY" /\ store' = store /\ sumID' = sumID /\ task = "none"
      BY <1>3, <2>1 DEF Skip, callTree, summaries, Control
    <3>2. sumID[cur] # 0
      BY <1>3, <3>1 DEF Owned
    <3>3. E[cur] = Models(SummaryOf(cur))
      BY <1>3, <3>1, <3>2 DEF Prior
    <3> QED
      BY <2>1, <3>1, <3>3, SkipSound DEF SummaryOf
  <2>2. CASE AssertionsAnswered
    BY <1>3, <2>2 DEF AssertionsAnswered, Control, Owned, callTree
  <2>3. CASE NoSummary
    BY <1>3, <2>3 DEF NoSummary, Owned, callTree
  <2>4. CASE Valid
    BY <2>4 DEF Valid, Answered, QueriesSound, AnswerSound, Goal, SummaryOf, summaries
  <2>5. CASE InvalidKept
    BY <1>3, <2>5 DEF InvalidKept, Answered, Candidate, Own, callTree
  <2>6. CASE InvalidDropped
    BY <1>3, <2>6 DEF InvalidDropped, DropID, TypeOK
  <2>7. CASE Weaken
    <3>1. {houdini.valid} \in Formula
      BY DEF TypeOK, Repair, Formula, Cube
    <3>2. store'[sumID'[cur]].fla = {houdini.valid}
      BY <1>3, <2>7, <3>1, AttachFrame DEF Weaken
    <3>3. \A a \in houdini.valid : Concrete(ver)[cur] \subseteq a
      BY <2>7 DEF Weaken, QueriesSound, ConjunctsSound
    <3>4. Concrete(ver)[cur] \subseteq Val
      BY <1>3, ConcreteIsEnv DEF Env
    <3> QED
      BY <3>2, <3>3, <3>4 DEF Models
  <2>8. CASE DisjunctValid
    BY <2>8 DEF DisjunctValid, Answered, QueriesSound, AnswerSound, Goal, SummaryOf, summaries
  <2>9. CASE GiveUp
    BY <1>3, <2>9 DEF GiveUp, TypeOK
  <2> QED
    BY <1>3, <2>1, <2>2, <2>3, <2>4, <2>5, <2>6, <2>7, <2>8, <2>9
<1>4. CASE cur' = cur
  BY <1>1, <1>2, <1>4 DEF SummariesSound
<1>5. CASE cur' # cur
  <2>1. cur \in Call /\ cur' = cur - 1
    BY <1>5, CursorStep
  <2>2. \A n \in Call : n > cur' => n > cur \/ n = cur
    BY <2>1, CallFacts
  <2>3. prec'[cur] = "SUMMARY" => Concrete(ver)[cur] \subseteq Models(store'[sumID'[cur]].fla)
    BY <1>3, <1>5, CursorStep
  <2>4. \A n \in Call : SummaryOf(n)' = store'[sumID'[n]].fla
    BY DEF SummaryOf
  <2> QED
    BY <1>1, <1>2, <2>2, <2>3, <2>4 DEF SummariesSound
<1> QED
  BY <1>4, <1>5


(***************************************************************************)
(* The proof of the previous revision, as far as it is still relied on.    *)
(***************************************************************************)
\* Marks are never taken back, and a call that fails marks its caller.
LEMMA MarkStep ==
  ASSUME TypeOK, Control, [Next]_vars
  PROVE  /\ marked \subseteq marked'
         /\ task' \in {"conjunct", "disjunct"}
              => cur' = cur /\ (task' = task \/ Parent[cur] \in marked')
<1>1. ASSUME NEW ok \in BOOLEAN, CallDone(ok)
      PROVE  /\ marked \subseteq marked'
             /\ task' \notin {"conjunct", "disjunct"}
  BY <1>1 DEF CallDone, Marked
<1>2. CASE UNCHANGED vars
  BY <1>2 DEF vars, traversal, query
<1>3. CASE Traverse
  <2>1. CASE Skip
    BY <2>1 DEF Skip, query, Control
  <2>2. CASE NoSummary
    BY <1>1, <2>2 DEF NoSummary
  <2>3. CASE AssertionsAnswered \/ BeginFull \/ Conclude
    BY <2>3 DEF BeginFull, Conclude, AssertionsAnswered, traversal, Control
  <2> QED
    BY <1>3, <2>1, <2>2, <2>3 DEF Traverse
<1>4. CASE Check
  BY <1>4 DEF Check, Prepared, Unusable, Unknown, Refuted, Refine, Proved, traversal
<1>5. CASE Judge
  <2>1. CASE Valid \/ InvalidKept \/ InvalidDropped
    BY <1>1, <2>1 DEF Valid, InvalidKept, InvalidDropped
  <2>2. CASE InvalidWeakened
    BY <2>2 DEF InvalidWeakened, Marked, Answered, Control, Own
  <2> QED
    BY <1>5, <2>1, <2>2 DEF Judge
<1>6. CASE Houdini
  <2>1. CASE Weaken \/ DisjunctValid \/ GiveUp
    BY <1>1, <2>1 DEF Weaken, DisjunctValid, GiveUp
  <2>2. CASE \/ \E a \in Atom : TryConjunct(a) \/ TryDrop(a)
             \/ \E c \in Cube : NextDisjunct(c)
             \/ ConjunctAnswered \/ DisjunctInvalid
    BY <2>2 DEF TryConjunct, TryDrop, Try, NextDisjunct, ConjunctAnswered,
                DisjunctInvalid, traversal, query
  <2> QED
    BY <1>6, <2>1, <2>2 DEF Houdini
<1> QED
  BY <1>2, <1>3, <1>4, <1>5, <1>6 DEF Next

\* Until its own summary is found invalid, the call under check keeps it.
LEMMA FullKeptStep ==
  ASSUME TypeOK, Control, Owned, Candidate, [Next]_vars, cur \in Call, cur' = cur,
         task' \in {"none", "full"}
  PROVE  /\ task \in {"none", "full"}
         /\ Untouched(cur) \/ sumID'[cur] = 0
<1>1. \A ok : CallDone(ok) => cur' # cur \/ task' = "main"
  BY CallFacts DEF CallDone
<1>2. CASE UNCHANGED vars
  BY <1>2 DEF vars, query, callTree, summaries, Untouched
<1>3. CASE Traverse
  <2>1. CASE BeginFull
    BY <2>1 DEF BeginFull, Control, callTree, summaries, Untouched
  <2>a. cur > 0 /\ cur - 1 # cur
    BY CallFacts DEF Call
  <2>2. ~ (Skip \/ NoSummary \/ AssertionsAnswered \/ Conclude)
    <3>1. ~ NoSummary
      BY <1>1 DEF NoSummary
    <3>2. ~ (Skip \/ AssertionsAnswered \/ Conclude)
      BY <2>a DEF Skip, AssertionsAnswered, Conclude
    <3> QED
      BY <3>1, <3>2
  <2> QED
    BY <1>3, <2>1, <2>2 DEF Traverse
<1>4. CASE Check
  <2>1. CASE Unusable
    BY <2>1 DEF Unusable, DropID, TypeOK
  <2>2. CASE Prepared \/ Unknown \/ Refuted
    BY <2>2 DEF Prepared, Unknown, Refuted, callTree, summaries, Untouched
  <2>3. ASSUME NEW U \in SUBSET Abstract(cur), Refine(U)
        PROVE  task' = task /\ Untouched(cur)
    <3>1. cur \notin U
      BY DEF Abstract, Expanded
    <3> QED
      BY <2>3, <3>1, RefineFrame DEF Refine
  <2>4. ASSUME NEW itp \in [Inlined(cur) -> Lang], Proved(itp)
        PROVE  task' = task /\ Untouched(cur)
    <3>1. cur \notin New(itp)
      BY DEF New, Inlined
    <3> QED
      BY <2>4, <3>1, ProvedFrame DEF Proved
  <2>5. (Unusable \/ Unknown \/ Prepared \/ Refuted) => task' = task
    BY DEF Unusable, Unknown, Prepared, Refuted
  <2> QED
    BY <1>4, <2>1, <2>2, <2>3, <2>4, <2>5 DEF Check
<1>5. CASE Judge
  <2>1. ~ (Valid \/ InvalidKept \/ InvalidDropped)
    BY <1>1 DEF Valid, InvalidKept, InvalidDropped
  <2>2. ~ InvalidWeakened
    BY DEF InvalidWeakened
  <2> QED
    BY <1>5, <2>1, <2>2 DEF Judge
<1>6. CASE Houdini
  <2>1. ~ (Weaken \/ DisjunctValid \/ GiveUp)
    BY <1>1 DEF Weaken, DisjunctValid, GiveUp
  <2>2. ~ (\E a \in Atom : TryConjunct(a) \/ TryDrop(a))
    BY DEF TryConjunct, TryDrop, Try
  <2>3. ~ (\E c \in Cube : NextDisjunct(c))
    BY DEF NextDisjunct, query
  <2>4. ~ (ConjunctAnswered \/ DisjunctInvalid)
    BY DEF ConjunctAnswered, DisjunctInvalid, Answered
  <2> QED
    BY <1>6, <2>1, <2>2, <2>3, <2>4 DEF Houdini
<1> QED
  BY <1>2, <1>3, <1>4, <1>5, <1>6 DEF Next

LEMMA PriorStep ==
  ASSUME TypeOK, Control, Owned, Candidate, QueriesSound, NEW E \in Env, Prior(E), [Next]_vars
  PROVE  Prior(E)'
<1>1. Framed /\ ver' = ver /\ preserved' = preserved
  BY FrameStep DEF Framed
<1>2. cur' = cur \/ (cur' = cur - 1 /\ cur \in Call)
  BY CursorStep
<1>3. /\ \A n \in preserved : Post(ver, n, E) \subseteq E[n]
      /\ Main \in preserved => E[Main] \subseteq Safe
  BY DEF Prior
<1>4. ASSUME NEW n \in Call, n < cur' \/ (n = cur' /\ task' \in {"none", "full"}),
             sumID'[n] # 0
      PROVE  E[n] = Models(SummaryOf(n)')
  <2>1. Untouched(n) => SummaryOf(n)' = store'[sumID[n]].fla
    BY DEF SummaryOf, Untouched
  <2>2. Untouched(n) => SummaryOf(n)' = SummaryOf(n) /\ sumID[n] # 0
    BY <1>4, <2>1 DEF SummaryOf, Untouched
  <2>3. CASE n < cur
    BY <1>1, <2>2, <2>3 DEF Framed, Prior
  <2>4. CASE ~ (n < cur)
    <3>1. n = cur /\ cur' = cur /\ task' \in {"none", "full"}
      BY <1>2, <1>4, <2>4, CallFacts DEF TypeOK
    <3>2. task \in {"none", "full"} /\ Untouched(n)
      BY <1>4, <3>1, FullKeptStep
    <3> QED
      BY <2>2, <3>1, <3>2 DEF Prior
  <2> QED
    BY <2>3, <2>4
<1>5. ASSUME NEW n \in Call, n > cur', n # Main, Parent[n] \notin marked'
      PROVE  Concrete(ver)[n] \subseteq E[n]
  <2>1. Parent[n] \notin marked
    BY <1>5, MarkStep
  <2>2. CASE n > cur
    BY <1>5, <2>1, <2>2 DEF Prior
  <2>3. CASE ~ (n > cur)
    <3>1. n = cur /\ cur' = cur - 1 /\ cur \in Call
      BY <1>2, <1>5, <2>3, CallFacts DEF TypeOK
    <3>2. cur' # cur
      BY <3>1, CallFacts
    <3>3. Skip \/ AssertionsAnswered \/ NoSummary \/ Valid \/ InvalidKept
          \/ InvalidDropped \/ Weaken \/ DisjunctValid \/ GiveUp
      BY <3>2, CursorStep
    <3>4. CASE Skip
      BY <3>1, <3>4, SkipSound
    <3>5. CASE AssertionsAnswered
      BY <1>5, <3>1, <3>5 DEF AssertionsAnswered, Control
    <3>6. CASE NoSummary \/ InvalidKept \/ InvalidDropped \/ GiveUp
      <4>1. CallDone(FALSE)
        BY <3>6 DEF NoSummary, InvalidKept, InvalidDropped, GiveUp
      <4> QED
        BY <1>5, <3>1, <4>1 DEF CallDone, Marked
    <3>7. CASE Valid
      <4>1. task = "full" /\ phase = "answer" /\ holds
        BY <3>7 DEF Valid, Answered
      <4>2. sumID[cur] # 0
        BY <4>1 DEF Candidate, Own
      <4>3. E[cur] = Models(SummaryOf(cur))
        BY <3>1, <4>1, <4>2 DEF Prior
      <4>4. Concrete(ver)[cur] \subseteq Models(SummaryOf(cur))
        BY <4>1 DEF QueriesSound, AnswerSound, Goal
      <4> QED
        BY <3>1, <4>3, <4>4
    <3>8. CASE Weaken \/ DisjunctValid
      BY <2>1, <3>1, <3>8 DEF Weaken, DisjunctValid, Answered, Prior
    <3> QED
      BY <3>3, <3>4, <3>5, <3>6, <3>7, <3>8
  <2> QED
    BY <2>2, <2>3
<1>6. task' \in {"conjunct", "disjunct"} => Parent[cur'] \in marked'
  BY MarkStep DEF Prior
<1> QED
  BY <1>1, <1>3, <1>4, <1>5, <1>6 DEF Prior

-----------------------------------------------------------------------------
(***************************************************************************)
(* The verdict.                                                            *)
(***************************************************************************)
\* A model of the whole program that no refinement rules out is an execution that
\* violates an assertion.
LEMMA RefutedUnsafe ==
  ASSUME ver \in Versions, cur = Main, task = "main", Counterexample({})
  PROVE  ~ IsSafe(ver)
<1> SUFFICES ASSUME IsSafe(ver) PROVE FALSE
  OBVIOUS
<1> DEFINE C == Concrete(ver)
           Y == [m \in Inlined(cur) |-> C[m]]
           X == QueryEnv(Y, {})
<1>1. C \in Env /\ Closed(ver, C) /\ C[Main] \subseteq Safe
  BY ConcreteIsEnv, ConcreteClosed DEF IsSafe
<1>2. Inlined(cur) \subseteq Call /\ cur \in Call /\ cur \notin Inlined(cur)
  BY CallFacts, PartitionFacts DEF Inlined
<1>3. Y \in [Inlined(cur) -> SUBSET Val]
  BY <1>1, <1>2 DEF Env
<1>4. \A m \in Call : X[m] = CASE m = cur            -> Goal
                              [] m \in Inlined(cur) -> Y[m]
                              [] m \in {}           -> Abstraction(m)
                              [] OTHER              -> {}
  BY DEF QueryEnv
<1> HIDE DEF X, C
<1>5. /\ X[cur] = Safe
      /\ \A m \in Inlined(cur) : X[m] = C[m]
      /\ \A m \in Call : m # cur => X[m] \subseteq C[m]
  BY <1>2, <1>4 DEF Goal
<1>6. ASSUME NEW m \in Inlined(cur) \cup {cur} PROVE Expansion(m, X) \subseteq X[m]
  <2>1. m \in Call
    BY <1>2
  <2>2. \A q \in ver[m] : \A c \in DOMAIN q.calls : X[c] \subseteq C[c]
    BY <1>5, <2>1, PathCalls, CallFacts
  <2>3. Post(ver, m, X) \subseteq Post(ver, m, C)
    BY <2>2, PostMonotone
  <2>4. Post(ver, m, C) \subseteq C[m]
    BY <1>1, <2>1 DEF Closed
  <2>5. C[m] \subseteq X[m]
    BY <1>1, <1>5
  <2> QED
    BY <2>3, <2>4, <2>5 DEF Expansion
<1>7. Proof(Y, {})
  BY <1>6 DEF Proof, X
<1> QED
  BY <1>3, <1>7 DEF Counterexample

\* The traversal reaches its end by skipping main or by checking the assertions.
LEMMA LastStep ==
  ASSUME TypeOK, Control, [Next]_vars, cur # 0, cur' = 0
  PROVE  cur = Main /\ (Skip \/ AssertionsAnswered)
<1>1. cur' = cur - 1 /\ cur \in Call
      /\ (\/ Skip \/ AssertionsAnswered \/ NoSummary \/ Valid \/ InvalidKept
          \/ InvalidDropped \/ Weaken \/ DisjunctValid \/ GiveUp)
  BY CursorStep
<1>2. cur = Main
  BY <1>1, CallFacts DEF Main
<1>3. task \notin Own
  BY <1>2 DEF Control
<1>4. ~ (Valid \/ InvalidKept \/ InvalidDropped \/ Weaken \/ DisjunctValid)
  BY <1>3 DEF Valid, InvalidKept, InvalidDropped, Weaken, DisjunctValid, Answered, Own
<1>5. ~ NoSummary /\ ~ GiveUp
  <2>1. ~ CallDone(FALSE)
    BY <1>1, <1>2, CallFacts DEF CallDone
  <2> QED
    BY <2>1 DEF NoSummary, GiveUp
<1> QED
  BY <1>1, <1>2, <1>4, <1>5

LEMMA VerdictStep ==
  ASSUME TypeOK, Control, Owned, Candidate, QueriesSound, NEW E \in Env, Prior(E), Verdict,
         [Next]_vars
  PROVE  Verdict'
<1>1. ver' = ver /\ preserved' = preserved
  BY FrameStep DEF Framed
<1>2. cur' = 0 => (validated' <=> IsSafe(ver))
  <2>1. CASE cur = 0
    <3>1. task = "none" /\ ~ (cur > 0)
      BY <2>1, CallFacts DEF Control, Call
    <3>2. ~ (Answered("full", TRUE) \/ Answered("full", FALSE) \/ Answered("disjunct", TRUE)
             \/ Answered("disjunct", FALSE))
      BY <3>1 DEF Answered
    <3>3. validated' = validated
      <4>1. CASE UNCHANGED vars
        BY <4>1 DEF vars, traversal
      <4>2. CASE Traverse
        BY <3>1, <4>2 DEF Traverse, Skip, NoSummary, BeginFull, AssertionsAnswered,
                          Conclude, traversal
      <4>3. CASE Check
        BY <4>3 DEF Check, Prepared, Unusable, Unknown, Refuted, Refine, Proved, traversal
      <4>4. ~ Judge
        BY <3>2 DEF Judge, Valid, InvalidKept, InvalidDropped, InvalidWeakened
      <4>5. CASE Houdini
        <5>1. phase # "repair"
          BY <3>1 DEF Control
        <5> QED
          BY <3>2, <4>5, <5>1 DEF Houdini, TryConjunct, TryDrop, NextDisjunct,
             ConjunctAnswered, Weaken, DisjunctValid, DisjunctInvalid, GiveUp, traversal
      <4> QED
        BY <4>1, <4>2, <4>3, <4>4, <4>5 DEF Next
    <3> QED
      BY <2>1, <3>3 DEF Verdict, TypeOK
  <2>2. CASE cur # 0 /\ cur' = 0
    <3>1. cur = Main /\ (Skip \/ AssertionsAnswered)
      BY <2>2, LastStep
    <3>2. CASE Skip
      <4>1. Main \in preserved /\ Concrete(ver)[Main] \subseteq E[Main]
        BY <3>1, <3>2, SkipSound DEF Skip, MustCheck
      <4>2. IsSafe(ver)
        BY <4>1 DEF Prior, IsSafe
      <4>3. \A n \in Call : n <= cur => n = cur
        BY <3>1 DEF Main, Call
      <4>4. validated /\ validated' = validated
        BY <2>2, <3>2, <4>3 DEF Skip, Verdict, Control
      <4> QED
        BY <4>2, <4>4
    <3>3. CASE AssertionsAnswered
      <4>1. task = "main" /\ phase = "answer" /\ validated' = holds
        BY <3>3 DEF AssertionsAnswered
      <4>2. holds => IsSafe(ver)
        BY <3>1, <4>1 DEF QueriesSound, AnswerSound, Goal, IsSafe
      <4>3. ~ holds => ~ IsSafe(ver)
        BY <4>1 DEF Verdict
      <4> QED
        BY <4>1, <4>2, <4>3
    <3> QED
      BY <3>1, <3>2, <3>3
  <2> QED
    BY <2>1, <2>2
<1>3. ASSUME task' = "none", ~ validated', cur' # 0
      PROVE  \E n \in Call : n <= cur' /\ MustCheck(n)'
  <2>1. CASE UNCHANGED vars
    BY <1>3, <2>1 DEF vars, query, traversal, Verdict, MustCheck
  <2>2. CASE Skip
    <3>1. PICK n \in Call : n <= cur /\ MustCheck(n)
      BY <1>3, <2>2 DEF Skip, Verdict, Control
    <3>2. n # cur
      BY <2>2, <3>1 DEF Skip
    <3>3. n <= cur'
      BY <2>2, <3>1, <3>2, CallFacts DEF Skip, TypeOK
    <3> QED
      BY <2>2, <3>1, <3>3 DEF Skip, MustCheck
  <2>3. ASSUME CallDone(FALSE), cur \in Call
        PROVE  \E n \in Call : n <= cur' /\ MustCheck(n)'
    <3>1. cur # Main /\ cur' = cur - 1 /\ marked' = marked \cup {Parent[cur]}
      BY <1>3, <2>3 DEF CallDone, Marked
    <3>a. Parent[cur] \in Call /\ Parent[cur] < cur
      BY <2>3, <3>1, CallFacts
    <3>b. Parent[cur] \in Nat /\ cur \in Nat
      BY <2>3, <3>a, CallFacts
    <3>2. Parent[cur] \in Call /\ Parent[cur] <= cur'
      BY <3>1, <3>a, <3>b
    <3> QED
      BY <3>1, <3>2 DEF MustCheck
  <2>4. ~ CallDone(TRUE)
    BY <1>3 DEF CallDone
  <2>5. CASE Traverse
    <3>1. ~ AssertionsAnswered
      BY <1>3 DEF AssertionsAnswered, Control, Main
    <3>2. ~ Conclude
      BY <1>3 DEF Conclude, traversal
    <3>3. ~ BeginFull
      BY <1>3 DEF BeginFull
    <3>4. CASE NoSummary
      <4>1. cur \in Call
        BY <3>4 DEF NoSummary, TypeOK, Call
      <4> QED
        BY <2>3, <3>4, <4>1 DEF NoSummary
    <3> QED
      BY <2>2, <2>5, <3>1, <3>2, <3>3, <3>4 DEF Traverse
  <2>6. ~ Check
    BY <1>3 DEF Check, Prepared, Unusable, Unknown, Refuted, Refine, Proved, Control
  <2>7. CASE Judge
    <3>1. ~ InvalidWeakened
      BY <1>3 DEF InvalidWeakened
    <3>2. cur \in Call
      BY <2>7 DEF Judge, Valid, InvalidKept, InvalidDropped, InvalidWeakened, Answered,
                  Control
    <3> QED
      BY <2>3, <2>4, <2>7, <3>1, <3>2 DEF Judge, Valid, InvalidKept, InvalidDropped
  <2>8. CASE Houdini
    <3>1. \A a \in Atom : ~ TryConjunct(a) /\ ~ TryDrop(a)
      BY <1>3 DEF TryConjunct, TryDrop, Try
    <3>2. \A c \in Cube : ~ NextDisjunct(c)
      BY <1>3 DEF NextDisjunct, query
    <3>3. ~ ConjunctAnswered /\ ~ DisjunctInvalid
      BY <1>3 DEF ConjunctAnswered, DisjunctInvalid, Answered
    <3>4. ~ Weaken /\ ~ DisjunctValid
      BY <2>4 DEF Weaken, DisjunctValid
    <3>5. CASE GiveUp
      BY <2>3, <3>5 DEF GiveUp, Control
    <3> QED
      BY <2>8, <3>1, <3>2, <3>3, <3>4, <3>5 DEF Houdini
  <2> QED
    BY <2>1, <2>5, <2>6, <2>7, <2>8 DEF Next
<1>4. ASSUME task' = "main", phase' = "answer", ~ holds' PROVE ~ IsSafe(ver)
  <2>1. CASE UNCHANGED vars
    BY <1>4, <2>1 DEF vars, query, Verdict
  <2>2. CASE Refuted
    <3>1. task = "main" /\ cur = Main
      BY <1>4, <2>2 DEF Refuted, Control
    <3> QED
      BY <2>2, <3>1, RefutedUnsafe DEF Refuted, TypeOK
  <2>3. \A ok : ~ CallDone(ok)
    BY <1>4 DEF CallDone
  <2>4. CASE Traverse
    BY <1>4, <2>3, <2>4 DEF Traverse, Skip, NoSummary, BeginFull, AssertionsAnswered,
                            Conclude, query
  <2>5. CASE Check
    BY <1>4, <2>2, <2>5 DEF Check, Prepared, Unusable, Unknown, Refine, Proved, Control, Own
  <2>6. CASE Judge
    BY <1>4, <2>3, <2>6 DEF Judge, Valid, InvalidKept, InvalidDropped, InvalidWeakened
  <2>7. CASE Houdini
    BY <1>4, <2>3, <2>7 DEF Houdini, TryConjunct, TryDrop, Try, NextDisjunct, ConjunctAnswered,
                            Weaken, DisjunctValid, DisjunctInvalid, GiveUp, query
  <2> QED
    BY <2>1, <2>4, <2>5, <2>6, <2>7 DEF Next
<1> QED
  BY <1>1, <1>2, <1>3, <1>4 DEF Verdict

\* A traversal that starts from summaries that are owned, and prove the calls that are
\* preserved, not all of them.
Start ==
  /\ TypeOK /\ Owned /\ PriorProof /\ preserved # Call
  /\ marked = {} /\ cur = NumCalls /\ validated = FALSE
  /\ phase = "pick" /\ task = "none" /\ asserted = NotAsserted

LEMMA StartInvariant == Start => IInv
<1> SUFFICES ASSUME Start PROVE IInv
  OBVIOUS
<1>1. Control
  BY DEF Start, Control, Own
<1>2. Candidate
  BY DEF Start, Candidate, Own
<1>3. \A n \in Call : ~ (n > cur) /\ n <= cur
  BY CallsAssumption DEF Start, Call
<1>4. QueriesSound
  <2>1. SummariesSound
    BY <1>3 DEF SummariesSound
  <2>2. AssertedSound
    BY ConcreteIsEnv DEF Start, AssertedSound, NotAsserted, Env
  <2>3. AnswerSound /\ ConjunctsSound
    BY DEF Start, AnswerSound, ConjunctsSound
  <2> QED
    BY <2>1, <2>2, <2>3 DEF QueriesSound
<1>5. \E E \in Env : Prior(E)
  BY <1>3 DEF Start, PriorProof, Prior
<1>6. Verdict
  <2>1. \E n \in Call : n \notin preserved
    BY DEF Start, TypeOK
  <2>2. cur # 0 /\ task = "none"
    BY CallsAssumption DEF Start
  <2> QED
    BY <1>3, <2>1, <2>2 DEF Verdict, MustCheck
<1> QED
  BY <1>1, <1>2, <1>4, <1>5, <1>6 DEF IInv, Start

-----------------------------------------------------------------------------
(***************************************************************************)
(* The theorems.                                                           *)
(***************************************************************************)
\* What the previous revision left satisfies the invariant.
LEMMA InitInvariant == Init => IInv
<1> SUFFICES ASSUME Init PROVE IInv
  OBVIOUS
<1>0. PICK S \in SUBSET (Call \ {Main}) :
        \E fla \in [S -> {f \in Lang : ~ Trivial(f)}] :
          /\ sumID = [n \in Call |-> IF n \in S THEN Numbered(S, 1)[n] ELSE 0]
          /\ maxID = Cardinality(S) + 1
          /\ store = PlusAll(<< >>, Numbered(S, 1), fla, Deserialized)
  BY DEF Init
<1>1. PICK fla \in [S -> {f \in Lang : ~ Trivial(f)}] :
        /\ sumID = [n \in Call |-> IF n \in S THEN Numbered(S, 1)[n] ELSE 0]
        /\ maxID = Cardinality(S) + 1
        /\ store = PlusAll(<< >>, Numbered(S, 1), fla, Deserialized)
  BY <1>0
<1> DEFINE id == Numbered(S, 1)
<1>2. /\ id \in [S -> Nat \ {0}]
      /\ \A n \in S : id[n] >= 1 /\ id[n] < 1 + Cardinality(S)
      /\ \A m, n \in S : id[m] = id[n] => m = n
      /\ Cardinality(S) \in Nat
  <2>1. S \in SUBSET Call /\ 1 \in Nat \ {0}
    OBVIOUS
  <2> QED
    BY <2>1, NumberedFacts
<1>3. /\ sumID = [n \in Call |-> IF n \in S THEN id[n] ELSE 0]
      /\ store = PlusAll(<< >>, id, fla, Deserialized)
  BY <1>1
<1> HIDE DEF id
<1>4. /\ DOMAIN id = S /\ DOMAIN << >> = {}
      /\ \A n \in DOMAIN id : id[n] \notin DOMAIN << >>
      /\ \A m, n \in DOMAIN id : id[m] = id[n] => m = n
  BY <1>2
<1>5. \A k : k \in DOMAIN PlusAll(<< >>, id, fla, Deserialized)
                <=> k \in DOMAIN << >> \/ \E m \in DOMAIN id : k = id[m]
  BY ONLY <1>4, PlusAllFacts
<1>6. \A m \in DOMAIN id :
        PlusAll(<< >>, id, fla, Deserialized)[id[m]] = [fn |-> FnOf[m], fla |-> fla[m], indexed |-> Deserialized]
  BY <1>4, PlusAllFacts
<1>7. /\ \A k : k \in DOMAIN store <=> \E m \in S : k = id[m]
      /\ \A m \in S : store[id[m]] = [fn |-> FnOf[m], fla |-> fla[m], indexed |-> Deserialized]
  BY <1>3, <1>4, <1>5, <1>6
<1>8. TypeOK
  <2>1. \A m \in S : [fn |-> FnOf[m], fla |-> fla[m], indexed |-> Deserialized] \in StoredSummary
    BY FnAssumption, LangAssumption DEF StoredSummary, Deserialized
  <2>2. ASSUME NEW k \in DOMAIN store PROVE store[k] \in StoredSummary
    <3>1. PICK m \in S : k = id[m]
      BY <1>7
    <3>2. store[k] = [fn |-> FnOf[m], fla |-> fla[m], indexed |-> Deserialized]
      BY <1>7, <3>1
    <3> QED
      BY <2>1, <3>2
  <2>3. store = [k \in DOMAIN store |-> store[k]]
    BY <1>3 DEF PlusAll
  <2>4. store \in [DOMAIN store -> StoredSummary]
    BY <2>2, <2>3
  <2>5. maxID \in Nat \ {0} /\ DOMAIN store \subseteq 1 .. (maxID - 1)
    <3>1. maxID = Cardinality(S) + 1
      BY <1>1
    <3>2. \A m \in S : id[m] \in 1 .. Cardinality(S)
      BY <1>2
    <3> QED
      BY <1>2, <1>7, <3>1, <3>2
  <2>6. sumID \in [Call -> Nat]
    BY <1>2, <1>3
  <2>7. asserted \in Env
    BY DEF Init, NotAsserted, Env
  <2>8. cur \in 0 .. NumCalls
    BY CallsAssumption DEF Init
  <2>9. /\ ver \in Versions /\ preserved \subseteq Call /\ prec \in [Call -> Precision]
        /\ marked \subseteq Call /\ repaired \subseteq Fn /\ validated \in BOOLEAN
        /\ phase \in Phase /\ task \in Task /\ holds \in BOOLEAN
    BY DEF Init, Phase, Task
  <2>10. houdini \in Repair
    BY NoRepairType DEF Init
  <2> QED
    BY <2>4, <2>5, <2>6, <2>7, <2>8, <2>9, <2>10 DEF TypeOK
<1>9. Owned
  <2>1. \A n \in Call : sumID[n] # 0 => n \in S /\ sumID[n] = id[n]
    BY <1>3
  <2>2. ASSUME NEW n \in S PROVE store[id[n]].fn = FnOf[n]
    <3>1. store[id[n]] = [fn |-> FnOf[n], fla |-> fla[n], indexed |-> Deserialized]
      BY <1>7
    <3> QED
      BY ONLY <3>1
  <2>3. sumID[Main] = 0
    BY <1>3, CallFacts
  <2>4. \A n \in Call : prec[n] = "SUMMARY" => sumID[n] # 0
    BY DEF Init
  <2>5. \A n \in Call : sumID[n] # 0 => sumID[n] \in DOMAIN store
                                        /\ store[sumID[n]].fn = FnOf[n]
    BY <1>7, <2>1, <2>2
  <2>6. \A m, n \in Call : (sumID[m] = sumID[n] /\ sumID[m] # 0) => m = n
    BY <1>2, <2>1
  <2> QED
    BY <2>3, <2>4, <2>5, <2>6 DEF Owned
<1>10. Start
  BY <1>8, <1>9 DEF Init, Start
<1> QED
  BY <1>10, StartInvariant

\* Every step preserves it.
LEMMA NextInvariant == IInv /\ [Next]_vars => IInv'
<1> SUFFICES ASSUME IInv, [Next]_vars PROVE IInv'
  OBVIOUS
<1>1. TypeOK /\ Control /\ Owned /\ Candidate /\ QueriesSound /\ Verdict
  BY DEF IInv
<1>2. PICK E \in Env : Prior(E)
  BY DEF IInv
<1>3. TypeOK'
  <2>1. (phase = "answer" /\ task = "conjunct") => Has(store, sumID[cur])
    BY <1>1 DEF Control, Candidate, Owned, Own, Has
  <2> QED
    BY <1>1, <2>1, TypeStep
<1>4. Control'
  BY <1>1, ControlStep DEF Owned
<1>5. Owned'
  BY <1>1, OwnedStep
<1>6. Candidate'
  BY <1>1, CandidateStep
<1>7. QueriesSound'
  <2>1. SummariesSound'
    BY <1>1, <1>2, SummariesStep
  <2>2. AssertedSound'
    BY <1>1, AssertedStep
  <2>3. AnswerSound'
    BY <1>1, AnswerStep
  <2>4. ConjunctsSound'
    BY <1>1, ConjunctsStep
  <2> QED
    BY <2>1, <2>2, <2>3, <2>4 DEF QueriesSound
<1>8. (\E F \in Env : Prior(F))'
  <2>1. Prior(E)'
    BY <1>1, <1>2, PriorStep
  <2>2. E \in Env
    BY <1>2
  <2> QED
    BY <2>1, <2>2 DEF Env
<1>9. Verdict'
  BY <1>1, <1>2, VerdictStep
<1> QED
  BY <1>3, <1>4, <1>5, <1>6, <1>7, <1>8, <1>9 DEF IInv

\* The invariant that the theorems below are read off.
THEOREM Invariance == Spec => []IInv
BY InitInvariant, NextInvariant, PTL DEF Spec

\* Every variable has its type, and every live summary an id below max_id: an id
\* the store hands out (get_next_id) is new.
THEOREM TypeCorrect == Spec => []TypeOK
<1>1. IInv => TypeOK
  BY DEF IInv
<1> QED
  BY <1>1, Invariance, PTL

\* Whenever symex encodes a call by its summary (fill_summary_partition), the store
\* has it (find_summary), whatever was removed before.
THEOREM NoSummaryIsLost == Spec => []NoLostSummary
<1>1. IInv => NoLostSummary
  BY DEF IInv, Owned, NoLostSummary, Has
<1> QED
  BY <1>1, Invariance, PTL

\* remove_summary of one call's summary takes nothing from another call.
THEOREM SummariesAreOwned == Spec => []NodesOwnTheirSummary
<1>1. IInv => NodesOwnTheirSummary
  <2> SUFFICES ASSUME IInv PROVE NodesOwnTheirSummary
    OBVIOUS
  <2>1. TypeOK /\ Owned
    BY DEF IInv
  <2>2. \A n \in Call : Has(store, sumID[n]) => sumID[n] # 0
    BY <2>1 DEF TypeOK, Has
  <2> QED
    BY <2>1, <2>2 DEF Owned, NodesOwnTheirSummary
<1> QED
  BY <1>1, Invariance, PTL

\* Behind the traversal, what a call of the new revision does is within the summary
\* that stands for it: validated, repaired by Houdini, generated by a query, or left
\* alone because nothing below it changed.
THEOREM SummariesAreSound == Spec => []SummariesSound
<1>1. IInv => SummariesSound
  BY DEF IInv, QueriesSound
<1> QED
  BY <1>1, Invariance, PTL

\* "Validation Done!" means that no assertion of the new revision can be violated.
THEOREM VerdictIsSound == Spec => []VerdictSound
<1>1. IInv => VerdictSound
  BY DEF IInv, Control, Verdict, VerdictSound
<1> QED
  BY <1>1, Invariance, PTL

\* "Validation failed!" means that one can.
THEOREM VerdictIsExact == Spec => []VerdictExact
<1>1. IInv => VerdictExact
  BY DEF IInv, Control, Verdict, VerdictExact
<1> QED
  BY <1>1, Invariance, PTL

\* A check that is over does nothing more, and no step changes the revision.
LEMMA StepFrame ==
  ASSUME [Next]_vars
  PROVE  ver' = ver /\ (UNCHANGED vars \/ phase # "done")
<1>1. CASE UNCHANGED vars
  BY <1>1 DEF vars
<1>2. CASE Traverse
  BY <1>2 DEF Traverse, Skip, NoSummary, BeginFull, AssertionsAnswered, Conclude
<1>3. CASE Check
  BY <1>3 DEF Check, Prepared, Unusable, Unknown, Refuted, Refine, Proved
<1>4. CASE Judge
  BY <1>4 DEF Judge, Valid, InvalidKept, InvalidDropped, InvalidWeakened, Answered
<1>5. CASE Houdini
  <2>1. ASSUME NEW a \in Atom, TryConjunct(a) \/ TryDrop(a)
        PROVE ver' = ver /\ phase # "done"
    BY <2>1 DEF TryConjunct, TryDrop, Try
  <2>2. ASSUME NEW c \in Cube, NextDisjunct(c) PROVE ver' = ver /\ phase # "done"
    BY <2>2 DEF NextDisjunct
  <2>3. ASSUME ConjunctAnswered \/ DisjunctValid \/ DisjunctInvalid
        PROVE ver' = ver /\ phase # "done"
    BY <2>3 DEF ConjunctAnswered, DisjunctValid, DisjunctInvalid, Answered
  <2>4. ASSUME Weaken \/ GiveUp PROVE ver' = ver /\ phase # "done"
    BY <2>4 DEF Weaken, GiveUp
  <2> QED
    BY <1>5, <2>1, <2>2, <2>3, <2>4 DEF Houdini
<1> QED
  BY <1>1, <1>2, <1>3, <1>4, <1>5 DEF Next

\* The check implements IncrementalCheck: whatever it skips, weakens, drops or refines,
\* all its steps but the last are invisible to the user, and the last one gives the
\* right verdict.
THEOREM CheckIsRight == Spec => RightVerdict
<1>1. Init => Promise!Init
  BY DEF Init, Promise!Init, answer
<1>2. IInv /\ IInv' /\ [Next]_vars => [Promise!Next]_<<ver, answer>>
  <2> SUFFICES ASSUME IInv, IInv', [Next]_vars PROVE [Promise!Next]_<<ver, answer>>
    OBVIOUS
  <2>1. ver' = ver /\ (UNCHANGED vars \/ phase # "done")
    BY StepFrame
  <2>2. CASE UNCHANGED vars
    BY <2>2 DEF vars, traversal, query, answer
  <2>3. CASE phase # "done" /\ phase' # "done"
    BY <2>1, <2>3 DEF answer
  <2>4. CASE phase # "done" /\ phase' = "done"
    <3>1. answer = "pending" /\ answer' = IF validated' THEN "safe" ELSE "unsafe"
      BY <2>4 DEF answer
    <3>2. validated' <=> IsSafe(ver')
      BY <2>4 DEF IInv, Control, Verdict
    <3>3. IsSafe(ver)' <=> IsSafe(ver)
      BY <2>1
    <3>4. Promise!IsSafe(ver) <=> IsSafe(ver)
      BY DEF IsSafe, Concrete, Closed, Post, Env, Call, Main, Promise!IsSafe, Promise!Concrete,
             Promise!Closed, Promise!Post, Promise!Env, Promise!Call, Promise!Main
    <3>5. answer' = Promise!RightVerdict(ver)
      BY <2>1, <3>1, <3>2, <3>3, <3>4 DEF Promise!RightVerdict
    <3> QED
      BY <2>1, <3>1, <3>5 DEF Promise!Next, Promise!Answer
  <2> QED
    BY <2>1, <2>2, <2>3, <2>4
<1> QED
  BY <1>1, <1>2, Invariance, PTL DEF Spec, RightVerdict, Promise!Safety

-----------------------------------------------------------------------------
(***************************************************************************)
(* The calls counted as repaired.                                          *)
(***************************************************************************)
\* Every function counted as repaired has a call, already passed, with a summary.
RepairedKept ==
  \A f \in repaired : \E n \in Call : n > cur /\ FnOf[n] = f /\ sumID[n] # 0

\* Only refinement takes the summary of a call that was passed.
LEMMA HoldersKept ==
  ASSUME TypeOK, Control, [Next]_vars, \A U \in SUBSET Abstract(cur) : ~ Refine(U)
  PROVE  \A n \in Call : (n > cur /\ sumID[n] # 0) => sumID'[n] # 0
<1>1. CASE UNCHANGED vars
  BY <1>1 DEF vars, callTree
<1>2. CASE Traverse
  BY <1>2 DEF Traverse, Skip, NoSummary, BeginFull, AssertionsAnswered, Conclude, callTree
<1>3. \A n \in Call : n > cur => n # cur
  BY CallFacts DEF TypeOK
<1>4. DropID(cur, sumID[cur]) => \A n \in Call : n > cur => sumID'[n] = sumID[n]
  BY <1>3 DEF DropID, callTree, TypeOK
<1>5. \A f : Attach(f) => \A n \in Call : n > cur => sumID'[n] = sumID[n]
  BY <1>3 DEF Attach, TypeOK
<1>6. ASSUME NEW itp \in [Inlined(cur) -> Lang], Proved(itp)
      PROVE  \A n \in Call : sumID[n] # 0 => sumID'[n] # 0
  <2>1. cur \in Call
    BY <1>6 DEF Proved, Control
  <2>2. \A n \in New(itp) : NewID(itp)[n] # 0
    BY <1>6, <2>1, Generated
  <2>3. sumID' = [m \in Call |-> IF m \in New(itp) THEN NewID(itp)[m] ELSE sumID[m]]
    BY <1>6, <2>1, Generated
  <2> QED
    BY <2>2, <2>3
<1>7. CASE Prepared \/ Unusable \/ Unknown \/ Refuted
  BY <1>4, <1>7 DEF Prepared, Unusable, Unknown, Refuted, callTree
<1>8. CASE Judge
  BY <1>4, <1>8 DEF Judge, Valid, InvalidKept, InvalidDropped, InvalidWeakened, callTree
<1>9. ASSUME NEW a \in Atom, TryConjunct(a) \/ TryDrop(a)
      PROVE  \A n \in Call : n > cur => sumID'[n] = sumID[n]
  BY <1>5, <1>9 DEF TryConjunct, TryDrop, Try
<1>10. ASSUME NEW c \in Cube, NextDisjunct(c) PROVE sumID' = sumID
  BY <1>10 DEF NextDisjunct, callTree
<1>11. CASE ConjunctAnswered \/ Weaken \/ DisjunctValid \/ DisjunctInvalid \/ GiveUp
  BY <1>4, <1>5, <1>11 DEF ConjunctAnswered, Weaken, DisjunctValid, DisjunctInvalid, GiveUp
<1> QED
  BY <1>1, <1>2, <1>6, <1>7, <1>8, <1>9, <1>10, <1>11 DEF Next, Check, Houdini

\* A refined call is taken off repaired with its function.
LEMMA RefineKeepsRepaired ==
  ASSUME TypeOK, Control, RepairedKept, NEW U \in SUBSET Abstract(cur), Refine(U)
  PROVE  RepairedKept'
<1> SUFFICES ASSUME NEW f \in repaired'
             PROVE  \E n \in Call : n > cur' /\ FnOf[n] = f /\ sumID'[n] # 0
  BY DEF RepairedKept
<1>1. f \in repaired /\ f \notin {FnOf[m] : m \in {k \in U : sumID[k] # 0}} /\ cur' = cur
  BY DEF Refine, StillRepaired, traversal
<1>2. PICK n \in Call : n > cur /\ FnOf[n] = f /\ sumID[n] # 0
  BY <1>1 DEF RepairedKept
<1>3. n \notin U
  BY <1>1, <1>2
<1>4. sumID'[n] = sumID[n]
  BY <1>3 DEF Refine
<1> QED
  BY <1>1, <1>2, <1>4

LEMMA RepairedStep ==
  ASSUME TypeOK, Control, Owned, Candidate, RepairedKept, [Next]_vars
  PROVE  RepairedKept'
<1>1. CASE \E U \in SUBSET Abstract(cur) : Refine(U)
  BY <1>1, RefineKeepsRepaired
<1>2. CASE \A U \in SUBSET Abstract(cur) : ~ Refine(U)
  <2>1. \A n \in Call : (n > cur /\ sumID[n] # 0) => sumID'[n] # 0
    BY <1>2, HoldersKept
  <2>2. cur \in Nat /\ (cur' = cur \/ cur' = cur - 1)
    BY CursorStep DEF TypeOK
  <2>3. \/ repaired' = repaired
        \/ (Weaken \/ DisjunctValid) /\ repaired' = repaired \cup {FnOf[cur]}
    <3>1. CASE UNCHANGED vars
      BY <3>1 DEF vars
    <3>2. CASE Traverse
      BY <3>2 DEF Traverse, Skip, NoSummary, BeginFull, AssertionsAnswered, Conclude
    <3>3. CASE Check
      BY <1>2, <3>3 DEF Check, Prepared, Unusable, Unknown, Refuted, Proved
    <3>4. CASE Judge
      BY <3>4 DEF Judge, Valid, InvalidKept, InvalidDropped, InvalidWeakened
    <3>5. CASE Houdini
      BY <3>5 DEF Houdini, TryConjunct, TryDrop, Try, NextDisjunct, ConjunctAnswered,
                  Weaken, DisjunctValid, DisjunctInvalid, GiveUp
    <3> QED
      BY <3>1, <3>2, <3>3, <3>4, <3>5 DEF Next
  <2>4. \A f \in repaired : \E n \in Call : n > cur' /\ FnOf[n] = f /\ sumID'[n] # 0
    BY <2>1, <2>2, CallFacts DEF RepairedKept
  <2>5. ASSUME Weaken \/ DisjunctValid
        PROVE  cur \in Call /\ cur > cur' /\ sumID'[cur] # 0
    <3>1. cur \in Call
      BY <2>5 DEF Weaken, DisjunctValid, Answered, Control
    <3>2. cur' = cur - 1
      BY <2>5 DEF Weaken, DisjunctValid, CallDone
    <3>3. Weaken => sumID'[cur] # 0
      BY <3>1 DEF Weaken, Attach, TypeOK
    <3>4. DisjunctValid => sumID'[cur] # 0
      BY DEF DisjunctValid, Answered, Candidate, Own
    <3> QED
      BY <2>2, <2>5, <3>1, <3>2, <3>3, <3>4
  <2> QED
    BY <2>3, <2>4, <2>5 DEF RepairedKept
<1> QED
  BY <1>1, <1>2

\* repaired_nodes, from which the statistics of the run are printed, never names a
\* function whose repaired summaries were all refined away since.
THEOREM RepairedAreLive == Spec => []RepairedIsLive
<1>1. Init => RepairedKept
  BY DEF Init, RepairedKept
<1>2. IInv /\ RepairedKept /\ [Next]_vars => RepairedKept'
  BY RepairedStep DEF IInv
<1>3. IInv /\ RepairedKept => RepairedIsLive
  BY DEF IInv, Owned, RepairedKept, RepairedIsLive, Has
<1> QED
  BY <1>1, <1>2, <1>3, Invariance, PTL DEF Spec
=============================================================================
