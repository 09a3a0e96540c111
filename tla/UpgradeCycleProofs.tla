-------------------------- MODULE UpgradeCycleProofs --------------------------
(***************************************************************************)
(* Proofs about UpgradeCycle with --logic prop, for every call tree, every *)
(* set of revisions and every number of upgrades.                          *)
(*                                                                         *)
(* The summary file may be younger than __omega.  It never gives an id of  *)
(* __omega another meaning, because ids are never reused, and because a    *)
(* summary that is dropped leaves a check to be done, so that no upgrade   *)
(* is validated before the file was written again.  (With the SMT logics   *)
(* the ids are not in the file; there the run renumbered shows the         *)
(* contrary.)                                                              *)
(***************************************************************************)
EXTENDS UpgradeCycle, SummaryValidationProofs

(***************************************************************************)
(* The invariant.                                                          *)
(***************************************************************************)
\* What the traversal does with prop: there is no repair.
PropControl ==
  /\ cur \in 0 .. NumCalls /\ marked \subseteq Nat
  /\ task \in {"none", "full", "main"}
  /\ task # "none" => cur \in Call
  /\ task = "main" => cur = Main
  /\ phase \in {"pick", "prepare", "solve", "answer", "done"}
  /\ phase \in {"pick", "done"} <=> task = "none"
  /\ phase = "done" => cur = 0

IDs == maxID \in Nat \ {0} /\ DOMAIN store \subseteq 1 .. (maxID - 1)

\* A check is still to be done, or the revision was refused.
Pending ==
  \/ phase \in {"prepare", "solve"}
  \/ phase = "answer" /\ ~ holds
  \/ phase = "pick" /\ \E m \in marked : 1 <= m /\ m <= cur
  \/ phase \in {"pick", "done"} /\ cur = 0 /\ ~ validated

Contents(id) == [fn |-> store[id].fn, fla |-> store[id].fla]

\* The file holds what the store holds, under the same ids, and possibly summaries
\* the store has lost; it gives no id of __omega another meaning.
Filed ==
  /\ file.max = maxID
  /\ \A id \in DOMAIN file.sums :
        file.sums[id] = [fn |-> file.sums[id].fn, fla |-> file.sums[id].fla]
  /\ \A id \in DOMAIN store : id \in DOMAIN file.sums /\ file.sums[id] = Contents(id)
  /\ DOMAIN file.sums \subseteq 1 .. (maxID - 1)
  /\ told.max \in Nat /\ told.max <= maxID
  /\ DOMAIN told.sums \subseteq 1 .. (told.max - 1)
  /\ \A id \in DOMAIN file.sums :
        id < told.max => id \in DOMAIN told.sums /\ file.sums[id] = told.sums[id]
  /\ (phase = "done" /\ validated) => DOMAIN told.sums \subseteq DOMAIN store

\* The file holds no more than the store.
Synced == DOMAIN file.sums \subseteq DOMAIN store

CycleInv == PropControl /\ IDs /\ Filed /\ (Synced \/ Pending)

-----------------------------------------------------------------------------
(***************************************************************************)
(* The traversal.                                                          *)
(***************************************************************************)
\* Nothing new comes into the store.
Shrunk == /\ DOMAIN store' \subseteq DOMAIN store
          /\ \A id \in DOMAIN store' : store'[id] = store[id]

\* A step that writes no file drops a summary only if a check is left to be done.
Careful ==
  /\ PropControl' /\ maxID' = maxID
  /\ phase' # "done"
  /\ \/ store' = store /\ (Pending => Pending')
     \/ Shrunk /\ Pending'

LEMMA MinusShrinks ==
  ASSUME NEW ids, store' = Minus(store, ids)
  PROVE  Shrunk
BY DEF Minus, Shrunk

LEMMA CallDoneCareful ==
  ASSUME PropControl, NEW ok \in BOOLEAN, CallDone(ok), cur \in Call, phase # "done"
  PROVE  /\ PropControl' /\ phase' # "done"
         /\ ~ ok => Pending'
<1>1. /\ cur \in 1 .. NumCalls /\ NumCalls \in Nat /\ Main = 1
      /\ cur # Main => Parent[cur] \in 1 .. (cur - 1)
  BY CallsAssumption, ParentAssumption DEF Call, Main
<1>2. PropControl' /\ phase' # "done"
  <2>1. marked' \subseteq Nat
    <3>1. cur # Main => Parent[cur] \in Nat
      BY <1>1
    <3>2. marked' = marked \/ (cur # Main /\ marked' = marked \cup {Parent[cur]})
      BY DEF CallDone, Marked
    <3> QED
      BY <3>1, <3>2 DEF PropControl
  <2>2. CASE ok \/ cur # Main
    BY <1>1, <2>1, <2>2 DEF CallDone, PropControl, Call
  <2>3. CASE ~ ok /\ cur = Main
    BY <1>1, <2>1, <2>3 DEF CallDone, PropControl, Call
  <2> QED
    BY <2>2, <2>3
<1>3. ASSUME ~ ok PROVE Pending'
  <2>1. CASE cur = Main
    BY <1>3, <2>1 DEF CallDone, Pending
  <2>2. CASE cur # Main
    <3>1. phase' = "pick" /\ cur' = cur - 1 /\ Parent[cur] \in marked'
      BY <1>3, <2>2 DEF CallDone, Marked
    <3>2. 1 <= Parent[cur] /\ Parent[cur] <= cur'
      BY <1>1, <2>2, <3>1
    <3> QED
      BY <3>1, <3>2 DEF Pending
  <2> QED
    BY <2>1, <2>2
<1> QED
  BY <1>2, <1>3

\* The steps that write no file.
LEMMA QuietIsCareful ==
  ASSUME Logic = "prop", PropControl, Running, Quiet
  PROVE  Careful
<1>0. /\ NumCalls \in Nat /\ Main = 1 /\ cur \in Nat /\ cur <= NumCalls
      /\ task # "none" => cur \in 1 .. NumCalls
      /\ phase # "done"
  BY CallsAssumption DEF PropControl, Call, Main, Running
<1>1. CASE Skip
  <2>1. /\ phase = "pick" /\ cur > 0 /\ cur \notin marked /\ cur' = cur - 1
        /\ phase' = "pick" /\ task' = task /\ marked' = marked /\ store' = store
        /\ maxID' = maxID /\ validated' = validated
    BY <1>1 DEF Skip, MustCheck, query, summaries
  <2>2. PropControl'
    BY <1>0, <2>1 DEF PropControl
  <2>3. Pending => Pending'
    <3>1. SUFFICES ASSUME Pending PROVE Pending'
      OBVIOUS
    <3>2. PICK m \in marked : 1 <= m /\ m <= cur
      BY <1>0, <2>1, <3>1 DEF Pending
    <3>3. CASE m \in Nat
      <4>1. m <= cur - 1
        BY <1>0, <2>1, <3>2, <3>3
      <4> QED
        BY <2>1, <3>2, <4>1 DEF Pending
    <3>4. marked \subseteq Nat
      BY DEF PropControl
    <3> QED
      BY <3>2, <3>3, <3>4
  <2> QED
    BY <2>1, <2>2, <2>3 DEF Careful
<1>2. CASE NoSummary
  <2>1. CallDone(FALSE) /\ UNCHANGED summaries
    BY <1>2 DEF NoSummary
  <2>2. cur \in Call
    BY <1>0, <1>2 DEF NoSummary, Call
  <2> QED
    BY <1>0, <2>1, <2>2, CallDoneCareful DEF Careful, summaries
<1>3. CASE BeginFull
  BY <1>0, <1>3 DEF BeginFull, Careful, PropControl, Pending, summaries, traversal, Call
<1>4. CASE AssertionsAnswered
  BY <1>0, <1>4 DEF AssertionsAnswered, Careful, PropControl, Pending, summaries, Call
<1>5. CASE Prepared
  BY <1>0, <1>5 DEF Prepared, Careful, PropControl, Pending, summaries, traversal
<1>6. CASE Unusable
  <2>1. Shrunk
    BY <1>6, MinusShrinks DEF Unusable
  <2> QED
    BY <1>0, <1>6, <2>1 DEF Unusable, Careful, PropControl, Pending, traversal
<1>7. CASE Unknown
  BY <1>0, <1>7 DEF Unknown, Careful, PropControl, Pending, summaries, traversal
<1>8. CASE Refuted
  BY <1>0, <1>8 DEF Refuted, Careful, PropControl, Pending, summaries, traversal
<1>9. ASSUME NEW U \in SUBSET Abstract(cur), Refine(U) PROVE Careful
  <2>1. Shrunk
    BY <1>9, MinusShrinks DEF Refine
  <2> QED
    BY <1>0, <1>9, <2>1 DEF Refine, Careful, PropControl, Pending, traversal
<1>10. CASE Valid
  <2>1. /\ cur \in Call /\ CallDone(TRUE) /\ UNCHANGED summaries
        /\ phase = "answer" /\ holds
    BY <1>0, <1>10 DEF Valid, Answered, Call
  <2>2. ~ Pending
    BY <2>1 DEF Pending
  <2> QED
    BY <1>0, <2>1, <2>2, CallDoneCareful DEF Careful, summaries
<1>11. CASE InvalidKept
  <2>1. cur \in Call /\ CallDone(FALSE) /\ UNCHANGED summaries
    BY <1>0, <1>11 DEF InvalidKept, Answered, Call
  <2> QED
    BY <1>0, <2>1, CallDoneCareful DEF Careful, summaries
<1>12. CASE InvalidDropped
  <2>1. cur \in Call /\ CallDone(FALSE) /\ UNCHANGED maxID
    BY <1>0, <1>12 DEF InvalidDropped, Answered, Call
  <2>2. Shrunk
    BY <1>12, MinusShrinks DEF InvalidDropped
  <2> QED
    BY <1>0, <2>1, <2>2, CallDoneCareful DEF Careful
<1>13. ~ InvalidWeakened
  BY DEF InvalidWeakened, Weakenable
<1>14. ~ Houdini
  BY <1>0 DEF Houdini, TryConjunct, TryDrop, NextDisjunct, ConjunctAnswered, Weaken,
              DisjunctValid, DisjunctInvalid, GiveUp, Answered, PropControl
<1> QED
  BY <1>1, <1>2, <1>3, <1>4, <1>5, <1>6, <1>7, <1>8, <1>9, <1>10, <1>11, <1>12, <1>13, <1>14
     DEF Quiet, Judge

-----------------------------------------------------------------------------
(***************************************************************************)
(* The files.                                                              *)
(***************************************************************************)
LEMMA SerializedFacts ==
  ASSUME NEW st, NEW max
  PROVE  /\ Serialized(st, max).max = max
         /\ DOMAIN Serialized(st, max).sums = DOMAIN st
         /\ \A id \in DOMAIN st :
              Serialized(st, max).sums[id] = [fn |-> st[id].fn, fla |-> st[id].fla]
BY DEF Serialized

\* A step that writes no file and is no verdict.
LEMMA QuietStep ==
  ASSUME Logic = "prop", CycleInv, Running, Quiet, UNCHANGED <<file, told>>
  PROVE  CycleInv'
<1>1. Careful
  BY QuietIsCareful DEF CycleInv
<1>2. Shrunk
  BY <1>1 DEF Careful, Shrunk
<1>3. IDs'
  BY <1>1, <1>2 DEF CycleInv, IDs, Careful, Shrunk
<1>4. \A id \in DOMAIN store' : id \in DOMAIN store /\ Contents(id)' = Contents(id)
  BY <1>2 DEF Shrunk, Contents
<1>5. Filed'
  BY <1>1, <1>4 DEF CycleInv, Filed, Careful
<1>6. (Synced \/ Pending)'
  BY <1>1 DEF CycleInv, Careful, Synced
<1> QED
  BY <1>1, <1>3, <1>5, <1>6 DEF CycleInv, Careful

\* A proof: the interpolants get new ids, and the file is written.
LEMMA InterpolateStep ==
  ASSUME Logic = "prop", CycleInv, Interpolate
  PROVE  CycleInv'
<1>0. PICK itp \in [Inlined(cur) -> Lang] : Proved(itp)
  BY DEF Interpolate
<1> DEFINE new == New(itp)
           id  == NewID(itp)
           yes == TRUE
<1>1. /\ store' = PlusAll(store, id, itp, yes) /\ maxID' = maxID + Cardinality(new)
      /\ phase = "solve" /\ phase' = "answer" /\ holds' = TRUE
      /\ UNCHANGED traversal /\ UNCHANGED task
      /\ file' = Serialized(store', maxID') /\ UNCHANGED told
  BY <1>0 DEF Proved, New, NewID, Interpolate, history
<1>2. /\ id \in [new -> Nat \ {0}]
      /\ \A m \in new : id[m] >= maxID /\ id[m] < maxID + Cardinality(new)
      /\ \A m, n \in new : id[m] = id[n] => m = n
      /\ Cardinality(new) \in Nat
  <2>1. cur \in Call
    BY <1>1 DEF CycleInv, PropControl
  <2>2. maxID \in Nat \ {0} /\ new \in SUBSET Call
    BY <2>1, PartitionFacts DEF CycleInv, IDs, Inlined, New
  <2> QED
    BY <2>2, NumberedFacts DEF NewID
<1> HIDE DEF new, id, yes
<1>3. DOMAIN id = new /\ \A m \in DOMAIN id : id[m] \notin DOMAIN store
  BY <1>2 DEF CycleInv, IDs
<1>4. \A k : k \in DOMAIN store' <=> k \in DOMAIN store \/ \E n \in DOMAIN id : k = id[n]
  <2>1. \A m, n \in DOMAIN id : id[m] = id[n] => m = n
    BY <1>2, <1>3
  <2> QED
    BY ONLY <1>1, <1>3, <2>1, PlusAllFacts
<1>5. \A k \in DOMAIN store : store'[k] = store[k]
  BY <1>1 DEF PlusAll
<1>6. maxID \in Nat /\ maxID' \in Nat \ {0} /\ maxID' >= maxID
  BY <1>1, <1>2 DEF CycleInv, IDs
<1>7. \A m \in new : id[m] \in 1 .. (maxID' - 1) /\ id[m] >= maxID
  BY <1>1, <1>2, <1>6
<1>8. IDs'
  BY <1>3, <1>4, <1>6, <1>7 DEF CycleInv, IDs
<1>9. /\ file'.max = maxID' /\ DOMAIN file'.sums = DOMAIN store'
      /\ \A k \in DOMAIN store' : file'.sums[k] = Contents(k)'
  BY <1>1, SerializedFacts DEF Contents
<1>10. ASSUME NEW k \in DOMAIN store', k < told.max
       PROVE  k \in DOMAIN told.sums /\ file'.sums[k] = told.sums[k]
  <2>1. k \in DOMAIN store
    <3>1. told.max <= maxID /\ told.max \in Nat
      BY DEF CycleInv, Filed
    <3>2. \A m \in new : id[m] # k
      BY <1>7, <1>6, <3>1, <1>10
    <3> QED
      BY <3>2, <1>3, <1>4
  <2>2. file'.sums[k] = file.sums[k]
    BY <2>1, <1>5, <1>9 DEF CycleInv, Filed, Contents
  <2> QED
    BY <2>1, <2>2, <1>10 DEF CycleInv, Filed
<1>11. told.max \in Nat /\ told.max <= maxID' /\ DOMAIN told.sums \subseteq 1 .. (told.max - 1)
  BY <1>6 DEF CycleInv, Filed
<1>14. \A k \in DOMAIN file'.sums :
         file'.sums[k] = [fn |-> file'.sums[k].fn, fla |-> file'.sums[k].fla]
  <2> SUFFICES ASSUME NEW k \in DOMAIN file'.sums
               PROVE  file'.sums[k] = [fn |-> file'.sums[k].fn, fla |-> file'.sums[k].fla]
    OBVIOUS
  <2>1. PICK a, b : file'.sums[k] = [fn |-> a, fla |-> b]
    BY <1>9 DEF Contents
  <2> QED
    BY ONLY <2>1
<1>12. Filed'
  BY <1>1, <1>8, <1>9, <1>10, <1>11, <1>14 DEF Filed, IDs
<1>13. PropControl'
  BY <1>1 DEF CycleInv, PropControl, traversal
<1> QED
  BY <1>8, <1>9, <1>12, <1>13 DEF CycleInv, Synced

\* A verdict: whenever a revision is validated, the file holds just the summaries
\* __omega refers to.
LEMMA VerdictIsFiled ==
  ASSUME Logic = "prop", CycleInv, Validated \/ Failed
  PROVE  CycleInv'
<1>1. /\ phase = "pick" /\ cur = 0 /\ phase' = "done" /\ UNCHANGED summaries
      /\ UNCHANGED traversal /\ UNCHANGED task /\ UNCHANGED holds /\ UNCHANGED file
  BY DEF Validated, Failed, Conclude, disk
<1>2. PropControl' /\ IDs'
  BY <1>1 DEF CycleInv, PropControl, IDs, summaries, traversal
<1>3. \A id : Contents(id)' = Contents(id)
  BY <1>1 DEF summaries, Contents
<1>4. CASE Failed
  <2>1. ~ validated /\ UNCHANGED told
    BY <1>4 DEF Failed, history
  <2>2. Filed'
    BY <1>1, <1>3, <2>1 DEF CycleInv, Filed, summaries, traversal
  <2>3. Pending'
    BY <1>1, <2>1 DEF Pending, traversal
  <2> QED
    BY <1>2, <2>2, <2>3 DEF CycleInv
<1>5. CASE Validated
  <2>1. validated /\ told' = Serialized(store, maxID)
    BY <1>5 DEF Validated
  <2>2. ~ Pending
    <3>1. \A m \in marked : ~ (1 <= m /\ m <= cur)
      BY <1>1 DEF CycleInv, PropControl
    <3> QED
      BY <1>1, <2>1, <3>1 DEF Pending
  <2>3. Synced
    BY <2>2 DEF CycleInv
  <2>4. /\ told'.max = maxID /\ DOMAIN told'.sums = DOMAIN store
        /\ \A id \in DOMAIN store : told'.sums[id] = Contents(id)
    BY <2>1, SerializedFacts DEF Contents
  <2>5. maxID' = maxID /\ store' = store
    BY <1>1 DEF summaries
  <2>6. /\ file'.max = maxID' /\ DOMAIN file'.sums \subseteq 1 .. (maxID' - 1)
        /\ \A id \in DOMAIN store' : id \in DOMAIN file'.sums
                                     /\ file'.sums[id] = Contents(id)'
    BY <1>1, <1>3, <2>5 DEF CycleInv, Filed
  <2>7. /\ told'.max \in Nat /\ told'.max <= maxID'
        /\ DOMAIN told'.sums \subseteq 1 .. (told'.max - 1)
        /\ DOMAIN told'.sums \subseteq DOMAIN store'
    BY <2>4, <2>5 DEF CycleInv, IDs
  <2>8. \A id \in DOMAIN file'.sums : id \in DOMAIN told'.sums
                                      /\ file'.sums[id] = told'.sums[id]
    BY <1>1, <2>3, <2>4 DEF CycleInv, Filed, Synced
  <2>11. \A id \in DOMAIN file'.sums :
           file'.sums[id] = [fn |-> file'.sums[id].fn, fla |-> file'.sums[id].fla]
    BY <1>1 DEF CycleInv, Filed
  <2>9. Filed'
    BY <2>6, <2>7, <2>8, <2>11 DEF Filed
  <2>10. Synced'
    BY <1>1, <2>3, <2>5 DEF Synced
  <2> QED
    BY <1>2, <2>9, <2>10 DEF CycleInv
<1> QED
  BY <1>4, <1>5

LEMMA SaveStep ==
  ASSUME CycleInv, SaveSummaries
  PROVE  CycleInv'
<1>1. /\ UNCHANGED vars /\ UNCHANGED told /\ file' = Serialized(store, maxID)
  BY DEF SaveSummaries, history
<1>2. PropControl' /\ IDs' /\ store' = store /\ maxID' = maxID
  BY <1>1 DEF CycleInv, PropControl, IDs, vars, summaries, traversal, query
<1>3. \A id : Contents(id)' = Contents(id)
  BY <1>2 DEF Contents
<1>4. /\ file'.max = maxID /\ DOMAIN file'.sums = DOMAIN store
      /\ \A id \in DOMAIN store : file'.sums[id] = Contents(id)
  BY <1>1, SerializedFacts DEF Contents
<1>5. \A id \in DOMAIN store : id < told.max => id \in DOMAIN told.sums
                                               /\ Contents(id) = told.sums[id]
  BY DEF CycleInv, Filed
<1>6. phase' = phase /\ validated' = validated
  BY <1>1 DEF vars, traversal, query
<1>7. Filed'
  BY <1>1, <1>2, <1>3, <1>4, <1>5, <1>6 DEF CycleInv, Filed, IDs
<1> QED
  BY <1>2, <1>4, <1>7 DEF CycleInv, Synced

\* A new process reads the files.
LEMMA SubmitStep ==
  ASSUME Logic = "prop", CycleInv, NEW w \in Versions, Submit(w)
  PROVE  CycleInv'
<1>1. /\ store' = Read(file) /\ maxID' = NextID(file) /\ marked' = {} /\ cur' = NumCalls
      /\ phase' = "pick" /\ task' = "none" /\ UNCHANGED told /\ UNCHANGED file
  BY DEF Submit, disk
<1>2. PropControl'
  BY <1>1, CallsAssumption DEF PropControl
<1>3. /\ maxID' = maxID /\ DOMAIN store' = DOMAIN file.sums
      /\ \A id \in DOMAIN file.sums : /\ store'[id].fn = file.sums[id].fn
                                      /\ store'[id].fla = file.sums[id].fla
  BY <1>1 DEF CycleInv, Filed, NextID, Read, ReadIDs, WrittenAs
<1>4. \A id \in DOMAIN file.sums : file.sums[id] = Contents(id)'
  <2> SUFFICES ASSUME NEW id \in DOMAIN file.sums PROVE file.sums[id] = Contents(id)'
    OBVIOUS
  <2>1. file.sums[id] = [fn |-> file.sums[id].fn, fla |-> file.sums[id].fla]
    BY DEF CycleInv, Filed
  <2> QED
    BY <1>3, <2>1 DEF Contents
<1>5. IDs'
  BY <1>3 DEF CycleInv, IDs, Filed
<1>6. Filed'
  BY <1>1, <1>3, <1>4 DEF CycleInv, Filed
<1> QED
  BY <1>1, <1>2, <1>3, <1>5, <1>6 DEF CycleInv, Synced

LEMMA CycleNextInvariant ==
  ASSUME Logic = "prop", CycleInv, [CycleNext]_cycleVars
  PROVE  CycleInv'
<1>1. CASE UNCHANGED <<vars, file, told>>
  <2>1. UNCHANGED <<store, maxID, marked, cur, validated, phase, task, holds, file, told>>
    BY <1>1 DEF vars, summaries, traversal, query
  <2>2. \A id : Contents(id)' = Contents(id)
    BY <2>1 DEF Contents
  <2> QED
    BY <2>1, <2>2 DEF CycleInv, PropControl, IDs, Filed, Synced, Pending
<1>2. CASE Step
  BY <1>2, QuietStep DEF Step, disk, history
<1>3. CASE Interpolate
  BY <1>3, InterpolateStep
<1>4. CASE Validated \/ Failed
  BY <1>4, VerdictIsFiled
<1>5. CASE SaveSummaries
  BY <1>5, SaveStep
<1>6. CASE Die \/ Kill \/ KillSaving \/ UNCHANGED cycleVars
  BY <1>1, <1>6 DEF Die, Kill, KillSaving, cycleVars, disk, history
<1>7. ASSUME NEW w \in Versions, Submit(w) PROVE CycleInv'
  BY <1>7, SubmitStep
<1> QED
  BY <1>2, <1>3, <1>4, <1>5, <1>6, <1>7 DEF CycleNext, Advance

LEMMA CycleInitInvariant ==
  ASSUME CycleInit
  PROVE  CycleInv
<1>a. PICK S \in SUBSET (Call \ {Main}) : \E fla \in [S -> {f \in Lang : ~ Trivial(f)}] :
        /\ maxID = Cardinality(S) + 1
        /\ store = PlusAll(<< >>, Numbered(S, 1), fla, TRUE)
  BY DEF CycleInit
<1>0. PICK fla \in [S -> {f \in Lang : ~ Trivial(f)}] :
        /\ maxID = Cardinality(S) + 1
        /\ store = PlusAll(<< >>, Numbered(S, 1), fla, TRUE)
  BY <1>a
<1> DEFINE id == Numbered(S, 1)
           yes == TRUE
<1>1. /\ DOMAIN id = S /\ Cardinality(S) \in Nat
      /\ \A n \in S : id[n] \in Nat \ {0} /\ id[n] < 1 + Cardinality(S)
      /\ \A m, n \in S : id[m] = id[n] => m = n
  <2>1. S \in SUBSET Call /\ 1 \in Nat \ {0}
    OBVIOUS
  <2> QED
    BY <2>1, NumberedFacts
<1>2. store = PlusAll(<< >>, id, fla, yes)
  BY <1>0
<1> HIDE DEF id, yes
<1>3. /\ DOMAIN << >> = {} /\ \A n \in DOMAIN id : id[n] \notin DOMAIN << >>
      /\ \A m, n \in DOMAIN id : id[m] = id[n] => m = n
  BY <1>1
<1>4. \A k : k \in DOMAIN PlusAll(<< >>, id, fla, yes)
                <=> k \in DOMAIN << >> \/ \E m \in DOMAIN id : k = id[m]
  BY ONLY <1>3, PlusAllFacts
<1>5. IDs
  <2>1. \A m \in S : id[m] \in 1 .. Cardinality(S)
    BY <1>1
  <2>2. \A k \in DOMAIN store : k \in 1 .. Cardinality(S)
    BY <1>1, <1>2, <1>3, <1>4, <2>1
  <2>3. maxID \in Nat \ {0} /\ maxID - 1 = Cardinality(S)
    BY <1>0, <1>1
  <2> QED
    BY <2>2, <2>3 DEF IDs
<1>6. /\ file = Serialized(store, maxID) /\ told = file
      /\ cur = 0 /\ marked = {} /\ phase = "done" /\ task = "none"
  BY DEF CycleInit
<1>7. PropControl
  BY <1>6, CallsAssumption DEF PropControl
<1>8. /\ file.max = maxID /\ DOMAIN file.sums = DOMAIN store
      /\ \A k \in DOMAIN store : file.sums[k] = Contents(k)
  BY <1>6, SerializedFacts DEF Contents
<1>10. \A k \in DOMAIN file.sums :
         file.sums[k] = [fn |-> file.sums[k].fn, fla |-> file.sums[k].fla]
  <2> SUFFICES ASSUME NEW k \in DOMAIN file.sums
               PROVE  file.sums[k] = [fn |-> file.sums[k].fn, fla |-> file.sums[k].fla]
    OBVIOUS
  <2>1. PICK a, b : file.sums[k] = [fn |-> a, fla |-> b]
    BY <1>8 DEF Contents
  <2> QED
    BY ONLY <2>1
<1>11. DOMAIN file.sums \subseteq 1 .. (maxID - 1) /\ maxID \in Nat \ {0}
  BY <1>5, <1>8 DEF IDs
<1>9. Filed /\ Synced
  BY <1>6, <1>8, <1>10, <1>11 DEF Filed, Synced
<1> QED
  BY <1>5, <1>7, <1>9 DEF CycleInv

\* The store, the file and __omega stay in step.
THEOREM CycleInvariance == (Logic = "prop") => (CycleSpec => []CycleInv)
<1> SUFFICES ASSUME Logic = "prop" PROVE CycleSpec => []CycleInv
  OBVIOUS
<1>1. CycleInit => CycleInv
  BY CycleInitInvariant
<1>2. CycleInv /\ [CycleNext]_cycleVars => CycleInv'
  BY CycleNextInvariant
<1> QED
  BY <1>1, <1>2, PTL DEF CycleSpec

-----------------------------------------------------------------------------
(***************************************************************************)
(* The theorems.                                                           *)
(***************************************************************************)
\* NoForeignSummary: with prop, whatever upgrades failed or were killed since, no call
\* of __omega ever gets the summary of another (extract_interpolants overwrites the
\* file after every query, call_graph_traversal writes __omega only at the end).
THEOREM NothingForeign == (Logic = "prop") => (CycleSpec => []NoForeignSummary)
<1> SUFFICES ASSUME Logic = "prop" PROVE CycleSpec => []NoForeignSummary
  OBVIOUS
<1>1. CycleInv => NoForeignSummary
  BY DEF CycleInv, Filed, NoForeignSummary, ReadIDs, WrittenAs
<1> QED
  BY <1>1, CycleInvariance, PTL

\* SummaryIDsRemain: what test_SummaryID.cpp says of an id holds with prop: after an
\* upgrade that succeeded every id of __omega is in the file, with its summary.
THEOREM IDsRemain == (Logic = "prop") => (CycleSpec => []SummaryIDsRemain)
<1> SUFFICES ASSUME Logic = "prop" PROVE CycleSpec => []SummaryIDsRemain
  OBVIOUS
<1>1. CycleInv => SummaryIDsRemain
  <2> SUFFICES ASSUME CycleInv, Ended, ~ stopped, validated, NEW id \in DOMAIN told.sums
               PROVE  id \in DOMAIN file.sums /\ file.sums[id] = told.sums[id]
    BY DEF SummaryIDsRemain, ReadIDs, WrittenAs
  <2>1. phase = "done"
    BY DEF Ended
  <2>2. id \in DOMAIN file.sums
    BY <2>1 DEF CycleInv, Filed
  <2>3. id \in 1 .. (told.max - 1) /\ told.max \in Nat
    BY DEF CycleInv, Filed
  <2>4. id < told.max
    BY <2>3
  <2> QED
    BY <2>2, <2>4 DEF CycleInv, Filed
<1> QED
  BY <1>1, CycleInvariance, PTL
=============================================================================
