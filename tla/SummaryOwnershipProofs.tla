----------------------- MODULE SummaryOwnershipProofs -----------------------
(***************************************************************************)
(* Whose the summaries are, and what they rest on.                         *)
(*                                                                         *)
(* With a logic that has a repair (qfuf, qflra) no summary is left behind  *)
(* by a check.  A proof overwrites the id of every call it inlines: what   *)
(* the call held before would stay in the store, and go to the summary     *)
(* file, without an owner; so a call must never be inlined while it holds  *)
(* a summary.  (With qflia it may: validate_node leaves an invalid summary *)
(* where it is.)                                                           *)
(*                                                                         *)
(* With every logic a call that is skipped has a summary that follows from *)
(* its body and the summaries of its callees.                              *)
(***************************************************************************)
EXTENDS SummaryValidationProofs

\* A call that was passed and is inlined holds no summary.
PassedDetached == \A n \in Call : (n > cur /\ prec[n] = "INLINE") => sumID[n] = 0

\* The calls that are still to be passed, or skipped: those that diff found unchanged
\* are encoded by the summary they hold.
Untried(n) == n < cur \/ (n = cur /\ phase = "pick")
UntriedSummarized == \A n \in preserved : (Untried(n) /\ sumID[n] # 0) => prec[n] = "SUMMARY"

\* Between two candidates of Houdini cur holds none.
RepairDetached == phase = "repair" => sumID[cur] = 0

Indexed == \A id \in DOMAIN store : store[id].indexed

Tidy == NoOrphanSummary /\ PassedDetached /\ UntriedSummarized /\ RepairDetached /\ Indexed

-----------------------------------------------------------------------------
(***************************************************************************)
(* The traversal.                                                          *)
(***************************************************************************)
\* The step leaves the calls other than cur alone.
OnlyCur == \A n \in Call : n # cur => sumID'[n] = sumID[n] /\ prec'[n] = prec[n]

\* A step that stays at cur, and does not start anew.
LEMMA StayTidy ==
  ASSUME TypeOK, Tidy, OnlyCur, cur' = cur, preserved' = preserved,
         phase' = "pick" => phase = "pick" /\ sumID' = sumID /\ prec' = prec
  PROVE  PassedDetached' /\ UntriedSummarized'
<1>1. PassedDetached'
  <2> SUFFICES ASSUME NEW n \in Call, n > cur, prec'[n] = "INLINE" PROVE sumID'[n] = 0
    BY DEF PassedDetached
  <2>1. n # cur
    BY CallFacts DEF TypeOK
  <2> QED
    BY <2>1 DEF OnlyCur, Tidy, PassedDetached
<1>2. UntriedSummarized'
  <2> SUFFICES ASSUME NEW n \in preserved, Untried(n)', sumID'[n] # 0
               PROVE  prec'[n] = "SUMMARY"
    BY DEF UntriedSummarized
  <2>1. n \in Call /\ Untried(n)
    BY DEF TypeOK, Untried
  <2>2. sumID'[n] = sumID[n] /\ prec'[n] = prec[n]
    <3>1. CASE n # cur
      BY <2>1, <3>1 DEF OnlyCur
    <3>2. CASE n = cur
      <4>1. phase' = "pick"
        BY <2>1, <3>2, CallFacts DEF Untried
      <4> QED
        BY <4>1
    <3> QED
      BY <3>1, <3>2
  <2> QED
    BY <2>1, <2>2 DEF Tidy, UntriedSummarized
<1> QED
  BY <1>1, <1>2

\* A step to the next call: cur must not be left inlined with a summary.
LEMMA PassTidy ==
  ASSUME TypeOK, Tidy, OnlyCur, cur \in Call, cur' = cur - 1, preserved' = preserved,
         prec'[cur] = "INLINE" => sumID'[cur] = 0
  PROVE  PassedDetached' /\ UntriedSummarized'
<1>0. cur \in Nat /\ Call \subseteq Nat
  BY CallFacts
<1>1. PassedDetached'
  <2> SUFFICES ASSUME NEW n \in Call, n > cur - 1, prec'[n] = "INLINE" PROVE sumID'[n] = 0
    BY DEF PassedDetached
  <2>1. n > cur \/ n = cur
    BY <1>0
  <2> QED
    BY <1>0, <2>1 DEF OnlyCur, Tidy, PassedDetached
<1>2. UntriedSummarized'
  <2> SUFFICES ASSUME NEW n \in preserved, Untried(n)', sumID'[n] # 0
               PROVE  prec'[n] = "SUMMARY"
    BY DEF UntriedSummarized
  <2>1. n \in Call /\ n < cur /\ n # cur
    BY <1>0 DEF TypeOK, Untried
  <2> QED
    BY <2>1 DEF OnlyCur, Tidy, UntriedSummarized, Untried
<1> QED
  BY <1>1, <1>2

\* CallDone: with cur or, when main is to be asked, without.
LEMMA DoneTidy ==
  ASSUME TypeOK, Control, Tidy, OnlyCur, cur \in Call, NEW ok \in BOOLEAN, CallDone(ok),
         preserved' = preserved, prec'[cur] = "INLINE" => sumID'[cur] = 0
  PROVE  PassedDetached' /\ UntriedSummarized' /\ RepairDetached'
<1>1. phase' # "repair"
  BY DEF CallDone
<1>2. CASE cur' = cur - 1
  BY <1>1, <1>2, PassTidy DEF RepairDetached
<1>3. CASE cur' = cur /\ phase' # "pick"
  BY <1>1, <1>3, StayTidy DEF RepairDetached
<1> QED
  BY <1>2, <1>3 DEF CallDone

-----------------------------------------------------------------------------
(***************************************************************************)
(* The store.                                                              *)
(***************************************************************************)
\* The summary of cur goes with its id.
LEMMA DetachTidy ==
  ASSUME TypeOK, Tidy, cur \in Call, store' = Minus(store, {sumID[cur]}),
         DropID(cur, sumID[cur])
  PROVE  /\ NoOrphanSummary' /\ Indexed' /\ OnlyCur
         /\ sumID'[cur] = 0
<1>1. sumID' = [sumID EXCEPT ![cur] = 0] /\ prec' = [prec EXCEPT ![cur] = "INLINE"]
  BY DEF DropID
<1>2. sumID'[cur] = 0 /\ OnlyCur
  BY <1>1 DEF TypeOK, OnlyCur
<1>3. \A id \in DOMAIN store' : /\ id \in DOMAIN store /\ id # sumID[cur]
                                /\ store'[id] = store[id]
  BY DEF Minus
<1>4. Indexed'
  BY <1>3 DEF Tidy, Indexed
<1>5. NoOrphanSummary'
  <2> SUFFICES ASSUME NEW id \in DOMAIN store' PROVE \E n \in Call : sumID'[n] = id
    BY DEF NoOrphanSummary
  <2>1. PICK n \in Call : sumID[n] = id
    BY <1>3 DEF Tidy, NoOrphanSummary
  <2>2. n # cur
    BY <1>3, <2>1
  <2> QED
    BY <1>2, <2>1, <2>2 DEF OnlyCur
<1> QED
  BY <1>2, <1>4, <1>5

\* cur, which holds none, gets a summary.
LEMMA AttachTidy ==
  ASSUME TypeOK, Tidy, cur \in Call, sumID[cur] = 0, NEW f \in Formula, Attach(f)
  PROVE  /\ NoOrphanSummary' /\ Indexed'
         /\ \A n \in Call : n # cur => sumID'[n] = sumID[n]
<1>1. /\ DOMAIN store' = DOMAIN store \cup {maxID}
      /\ \A k \in DOMAIN store : store'[k] = store[k]
      /\ store'[maxID] = [fn |-> FnOf[cur], fla |-> f, indexed |-> TRUE]
      /\ sumID' = [sumID EXCEPT ![cur] = maxID]
  BY Attached
<1>2. sumID'[cur] = maxID /\ \A n \in Call : n # cur => sumID'[n] = sumID[n]
  BY <1>1 DEF TypeOK
<1>3. Indexed'
  <2>1. store'[maxID].indexed
    BY <1>1
  <2> QED
    BY <1>1, <2>1 DEF Tidy, Indexed
<1>4. NoOrphanSummary'
  <2> SUFFICES ASSUME NEW id \in DOMAIN store' PROVE \E n \in Call : sumID'[n] = id
    BY DEF NoOrphanSummary
  <2>1. CASE id = maxID
    BY <1>2, <2>1
  <2>2. CASE id \in DOMAIN store
    <3>1. PICK n \in Call : sumID[n] = id
      BY <2>2 DEF Tidy, NoOrphanSummary
    <3>2. n # cur
      BY <2>2, <3>1 DEF TypeOK
    <3> QED
      BY <1>2, <3>1, <3>2
  <2> QED
    BY <1>1, <2>1, <2>2
<1> QED
  BY <1>2, <1>3, <1>4

\* The summaries of the refined calls go with their ids.
LEMMA RefineTidy ==
  ASSUME TypeOK, Control, Owned, Tidy, NEW U \in SUBSET Abstract(cur), Refine(U)
  PROVE  Tidy'
<1> DEFINE ids == {sumID[m] : m \in {k \in U : sumID[k] # 0}}
<1>1. /\ store' = Minus(store, ids) /\ cur' = cur /\ phase = "solve" /\ phase' = "solve"
      /\ preserved' = preserved
      /\ sumID' = [m \in Call |-> IF m \in U THEN 0 ELSE sumID[m]]
  BY DEF Refine, traversal
<1>2. cur \in Call
  BY <1>1 DEF Control
<1>3. /\ U \subseteq Call /\ \A m \in U : m > cur
      /\ \A n \in Call \ U : n # cur => prec'[n] = prec[n]
  BY <1>2, RefineFrame
<1>4. \A id \in DOMAIN store' : id \in DOMAIN store \ ids /\ store'[id] = store[id]
  <2> HIDE DEF ids
  <2> QED
    BY <1>1 DEF Minus
<1>5. Indexed'
  BY <1>4 DEF Tidy, Indexed
<1>6. NoOrphanSummary'
  <2> SUFFICES ASSUME NEW id \in DOMAIN store' PROVE \E n \in Call : sumID'[n] = id
    BY DEF NoOrphanSummary
  <2>1. PICK n \in Call : sumID[n] = id
    BY <1>4 DEF Tidy, NoOrphanSummary
  <2>2. n \notin U
    BY <1>4, <2>1 DEF TypeOK
  <2> QED
    BY <1>1, <2>1, <2>2
<1>7. PassedDetached'
  <2> SUFFICES ASSUME NEW n \in Call, n > cur, prec'[n] = "INLINE" PROVE sumID'[n] = 0
    BY <1>1 DEF PassedDetached
  <2>1. CASE n \in U
    BY <1>1, <2>1
  <2>2. CASE n \notin U
    <3>1. n # cur
      BY <1>2, CallFacts
    <3> QED
      BY <1>1, <1>3, <2>2, <3>1 DEF Tidy, PassedDetached
  <2> QED
    BY <2>1, <2>2
<1>8. UntriedSummarized'
  <2> SUFFICES ASSUME NEW n \in preserved, n < cur, sumID'[n] # 0
               PROVE  prec'[n] = "SUMMARY"
    BY <1>1 DEF UntriedSummarized, Untried
  <2>1. n \in Call /\ n \notin U /\ n # cur
    BY <1>2, <1>3, CallFacts DEF TypeOK
  <2> QED
    BY <1>1, <1>3, <2>1 DEF Tidy, UntriedSummarized, Untried
<1> QED
  BY <1>1, <1>5, <1>6, <1>7, <1>8 DEF Tidy, RepairDetached

\* The calls that get an interpolant were inlined, and so held none.
LEMMA ProvedTidy ==
  ASSUME TypeOK, Control, Owned, Tidy, NEW itp \in [Inlined(cur) -> Lang], Proved(itp)
  PROVE  Tidy'
<1>1. /\ phase = "solve" /\ phase' = "answer" /\ cur' = cur /\ preserved' = preserved
  BY DEF Proved, traversal
<1>2. cur \in Call
  BY <1>1 DEF Control
<1>3. /\ New(itp) \subseteq Inlined(cur) /\ Inlined(cur) \subseteq Call
      /\ \A m \in Inlined(cur) : m > cur
      /\ DOMAIN store' = DOMAIN store \cup {NewID(itp)[m] : m \in New(itp)}
      /\ \A k \in DOMAIN store : store'[k] = store[k]
      /\ \A m \in New(itp) : store'[NewID(itp)[m]]
                               = [fn |-> FnOf[m], fla |-> itp[m], indexed |-> TRUE]
      /\ sumID' = [m \in Call |-> IF m \in New(itp) THEN NewID(itp)[m] ELSE sumID[m]]
      /\ prec'  = [m \in Call |-> IF m \in New(itp) THEN "SUMMARY" ELSE prec[m]]
  BY <1>2, Generated
<1>4. \A m \in Inlined(cur) : sumID[m] = 0
  BY <1>3 DEF Tidy, PassedDetached, Inlined
<1>5. Indexed'
  <2> SUFFICES ASSUME NEW id \in DOMAIN store' PROVE store'[id].indexed
    BY DEF Indexed
  <2>1. CASE id \in DOMAIN store
    BY <1>3, <2>1 DEF Tidy, Indexed
  <2>2. ASSUME NEW m \in New(itp), id = NewID(itp)[m] PROVE store'[id].indexed
    <3>1. store'[id] = [fn |-> FnOf[m], fla |-> itp[m], indexed |-> TRUE]
      BY <1>3, <2>2
    <3> QED
      BY <3>1
  <2> QED
    BY <1>3, <2>1, <2>2
<1>6. NoOrphanSummary'
  <2> SUFFICES ASSUME NEW id \in DOMAIN store' PROVE \E n \in Call : sumID'[n] = id
    BY DEF NoOrphanSummary
  <2>1. CASE id \in DOMAIN store
    <3>1. PICK n \in Call : sumID[n] = id
      BY <2>1 DEF Tidy, NoOrphanSummary
    <3>2. n \notin New(itp)
      BY <1>3, <1>4, <2>1, <3>1 DEF TypeOK
    <3> QED
      BY <1>3, <3>1, <3>2
  <2>2. ASSUME NEW m \in New(itp), id = NewID(itp)[m] PROVE \E n \in Call : sumID'[n] = id
    BY <1>3, <2>2
  <2> QED
    BY <1>3, <2>1, <2>2
<1>7. PassedDetached'
  BY <1>1, <1>3 DEF Tidy, PassedDetached
<1>8. UntriedSummarized'
  BY <1>1, <1>3 DEF Tidy, UntriedSummarized, Untried, TypeOK
<1> QED
  BY <1>1, <1>5, <1>6, <1>7, <1>8 DEF Tidy, RepairDetached

-----------------------------------------------------------------------------
LEMMA TidyStep ==
  ASSUME Logic \in {"qfuf", "qflra"}, IInv, Tidy, [Next]_vars
  PROVE  Tidy'
<1>0. TypeOK /\ Control /\ Owned /\ Candidate
  BY DEF IInv
<1>1. ASSUME UNCHANGED <<sumID, store>>, RepairDetached', PassedDetached', UntriedSummarized'
      PROVE  Tidy'
  BY <1>1 DEF Tidy, NoOrphanSummary, Indexed
<1>2. CASE UNCHANGED vars
  BY <1>2 DEF vars, callTree, summaries, traversal, query, Tidy, NoOrphanSummary,
              PassedDetached, UntriedSummarized, Untried, RepairDetached, Indexed
<1>3. CASE Skip
  <2>1. /\ cur \in Call /\ cur \in preserved /\ phase = "pick" /\ cur' = cur - 1
        /\ UNCHANGED <<sumID, prec, store, preserved, phase>>
    BY <1>0, <1>3, CallsAssumption
       DEF Skip, MustCheck, TypeOK, Call, callTree, summaries, query
  <2>2. prec'[cur] = "INLINE" => sumID'[cur] = 0
    BY <2>1 DEF Tidy, UntriedSummarized, Untried
  <2>3. OnlyCur
    BY <2>1 DEF OnlyCur
  <2>4. PassedDetached' /\ UntriedSummarized'
    BY <1>0, <2>1, <2>2, <2>3, PassTidy
  <2> QED
    BY <1>1, <2>1, <2>4 DEF RepairDetached
<1>4. CASE AssertionsAnswered
  <2>1. /\ cur \in Call /\ cur = Main /\ cur' = cur - 1 /\ phase' = "pick"
        /\ UNCHANGED <<sumID, prec, store, preserved>>
    BY <1>0, <1>4 DEF AssertionsAnswered, Control, callTree, summaries
  <2>2. sumID'[cur] = 0
    BY <1>0, <2>1 DEF Owned
  <2>3. OnlyCur
    BY <2>1 DEF OnlyCur
  <2>4. PassedDetached' /\ UntriedSummarized'
    BY <1>0, <2>1, <2>2, <2>3, PassTidy
  <2> QED
    BY <1>1, <2>1, <2>4 DEF RepairDetached
<1>5. CASE NoSummary \/ InvalidKept \/ GiveUp
  <2>1. cur \in Call /\ CallDone(FALSE) /\ UNCHANGED <<preserved, sumID, store>> /\ OnlyCur
    <3>1. CASE NoSummary
      <4>1. cur \in Call
        BY <1>0, <3>1, CallsAssumption DEF NoSummary, Call, TypeOK
      <4> QED
        BY <3>1, <4>1 DEF NoSummary, callTree, summaries, OnlyCur
    <3>2. CASE InvalidKept
      BY <1>0, <3>2 DEF InvalidKept, Answered, Control, callTree, summaries, OnlyCur
    <3>3. CASE GiveUp
      <4>1. prec' = [prec EXCEPT ![cur] = "INLINE"] /\ UNCHANGED <<preserved, sumID, store>>
            /\ cur \in Call /\ CallDone(FALSE)
        BY <1>0, <3>3 DEF GiveUp, Control, summaries
      <4> QED
        BY <1>0, <4>1 DEF OnlyCur, TypeOK
    <3> QED
      BY <1>5, <3>1, <3>2, <3>3
  <2>2. sumID[cur] = 0
    <3>1. InvalidKept => ~ Exists(store, sumID[cur])
      BY DEF InvalidKept
    <3>2. InvalidKept => sumID[cur] = 0
      BY <1>0, <2>1, <3>1 DEF Exists, Owned, Tidy, Indexed
    <3> QED
      BY <1>5, <3>2 DEF NoSummary, GiveUp, Tidy, RepairDetached
  <2>3. PassedDetached' /\ UntriedSummarized' /\ RepairDetached'
    BY <1>0, <2>1, <2>2, DoneTidy
  <2> QED
    BY <1>1, <2>1, <2>3
<1>6. CASE Valid \/ DisjunctValid
  <2>1. /\ cur \in Call /\ CallDone(TRUE) /\ UNCHANGED <<preserved, sumID, store>>
        /\ prec' = [prec EXCEPT ![cur] = "SUMMARY"]
    BY <1>0, <1>6 DEF Valid, DisjunctValid, Answered, Control, summaries
  <2>2. OnlyCur /\ prec'[cur] = "SUMMARY"
    BY <1>0, <2>1 DEF OnlyCur, TypeOK
  <2>3. PassedDetached' /\ UntriedSummarized' /\ RepairDetached'
    BY <1>0, <2>1, <2>2, DoneTidy
  <2> QED
    BY <1>1, <2>1, <2>3
<1>7. CASE BeginFull \/ Conclude \/ Refuted
  <2>1. /\ cur' = cur /\ phase' \in {"prepare", "done", "answer"}
        /\ UNCHANGED <<preserved, sumID, prec, store>>
    BY <1>7 DEF BeginFull, Conclude, Refuted, callTree, summaries, traversal
  <2>2. OnlyCur
    BY <2>1 DEF OnlyCur
  <2>3. PassedDetached' /\ UntriedSummarized'
    BY <1>0, <2>1, <2>2, StayTidy
  <2> QED
    BY <1>1, <2>1, <2>3 DEF RepairDetached
<1>8. CASE Prepared \/ Unknown
  <2>1. /\ cur' = cur /\ phase' \in {"solve", "answer"}
        /\ UNCHANGED <<preserved, sumID, store>>
        /\ prec' = [prec EXCEPT ![cur] = "INLINE"]
    BY <1>8 DEF Prepared, Unknown, summaries, traversal
  <2>2. OnlyCur
    BY <1>0, <2>1 DEF OnlyCur, TypeOK
  <2>3. PassedDetached' /\ UntriedSummarized'
    BY <1>0, <2>1, <2>2, StayTidy
  <2> QED
    BY <1>1, <2>1, <2>3 DEF RepairDetached
<1>9. CASE Unusable \/ InvalidWeakened \/ ConjunctAnswered \/ DisjunctInvalid
  <2>1. /\ cur \in Call /\ cur' = cur /\ phase' # "pick" /\ preserved' = preserved
        /\ store' = Minus(store, {sumID[cur]}) /\ DropID(cur, sumID[cur])
    BY <1>0, <1>9 DEF Unusable, InvalidWeakened, ConjunctAnswered, DisjunctInvalid, Answered,
                      Control, traversal
  <2>2. NoOrphanSummary' /\ Indexed' /\ OnlyCur /\ sumID'[cur] = 0
    BY <1>0, <2>1, DetachTidy
  <2>3. PassedDetached' /\ UntriedSummarized'
    BY <1>0, <2>1, <2>2, StayTidy
  <2> QED
    BY <2>1, <2>2, <2>3 DEF Tidy, RepairDetached
<1>10. CASE InvalidDropped
  <2>1. /\ cur \in Call /\ CallDone(FALSE) /\ preserved' = preserved
        /\ store' = Minus(store, {sumID[cur]}) /\ DropID(cur, sumID[cur])
    BY <1>0, <1>10 DEF InvalidDropped, Answered, Control
  <2>2. NoOrphanSummary' /\ Indexed' /\ OnlyCur /\ sumID'[cur] = 0
    BY <1>0, <2>1, DetachTidy
  <2>3. PassedDetached' /\ UntriedSummarized' /\ RepairDetached'
    BY <1>0, <2>1, <2>2, DoneTidy
  <2> QED
    BY <2>2, <2>3 DEF Tidy
<1>11. ASSUME NEW a \in Atom, TryConjunct(a) \/ TryDrop(a) PROVE Tidy'
  <2>1. PICK f \in Formula : Attach(f) /\ Try(f)
    <3>1. {{a}} \in Formula
      BY <1>11 DEF Formula, Cube
    <3>2. Without(houdini.full, houdini.dropped \cup {a}) \in Formula
      BY <1>0 DEF TypeOK, Repair, Without, Formula, Cube
    <3> QED
      BY <1>11, <3>1, <3>2 DEF TryConjunct, TryDrop, Try
  <2>2. /\ cur \in Call /\ cur' = cur /\ phase' = "prepare" /\ UNCHANGED <<preserved, prec>>
        /\ sumID[cur] = 0
    BY <1>0, <1>11, <2>1 DEF TryConjunct, TryDrop, Try, Control, traversal, Tidy, RepairDetached
  <2>3. NoOrphanSummary' /\ Indexed' /\ OnlyCur
    BY <1>0, <2>1, <2>2, AttachTidy DEF OnlyCur
  <2>4. PassedDetached' /\ UntriedSummarized'
    BY <1>0, <2>2, <2>3, StayTidy
  <2> QED
    BY <2>2, <2>3, <2>4 DEF Tidy, RepairDetached
<1>12. CASE Weaken
  <2>1. /\ cur \in Call /\ CallDone(TRUE) /\ preserved' = preserved /\ sumID[cur] = 0
        /\ prec' = [prec EXCEPT ![cur] = "SUMMARY"] /\ Attach({houdini.valid})
    BY <1>0, <1>12 DEF Weaken, Control, Tidy, RepairDetached
  <2>2. {houdini.valid} \in Formula
    BY <1>0 DEF TypeOK, Repair, Formula, Cube
  <2>3. /\ NoOrphanSummary' /\ Indexed'
        /\ \A n \in Call : n # cur => sumID'[n] = sumID[n]
    BY <1>0, <2>1, <2>2, AttachTidy
  <2>4. OnlyCur /\ prec'[cur] = "SUMMARY"
    BY <1>0, <2>1, <2>3 DEF OnlyCur, TypeOK
  <2>5. PassedDetached' /\ UntriedSummarized' /\ RepairDetached'
    BY <1>0, <2>1, <2>4, DoneTidy
  <2> QED
    BY <2>3, <2>5 DEF Tidy
<1>13. ASSUME NEW c \in Cube, NextDisjunct(c) PROVE Tidy'
  <2>1. /\ cur' = cur /\ phase = "repair" /\ phase' = phase
        /\ UNCHANGED <<preserved, sumID, prec, store>>
    BY <1>13 DEF NextDisjunct, callTree, summaries, traversal, query
  <2>2. OnlyCur
    BY <2>1 DEF OnlyCur
  <2>3. PassedDetached' /\ UntriedSummarized'
    BY <1>0, <2>1, <2>2, StayTidy
  <2> QED
    BY <1>1, <2>1, <2>3 DEF Tidy, RepairDetached
<1>14. ASSUME NEW U \in SUBSET Abstract(cur), Refine(U) PROVE Tidy'
  BY <1>0, <1>14, RefineTidy
<1>15. ASSUME NEW itp \in [Inlined(cur) -> Lang], Proved(itp) PROVE Tidy'
  BY <1>0, <1>15, ProvedTidy
<1> QED
  BY <1>2, <1>3, <1>4, <1>5, <1>6, <1>7, <1>8, <1>9, <1>10, <1>11, <1>12, <1>13, <1>14, <1>15
     DEF Next, Traverse, Check, Judge, Houdini

LEMMA TidyInit ==
  ASSUME Logic \in {"qfuf", "qflra"}, Init
  PROVE  Tidy
<1>0. PICK S \in SUBSET (Call \ {Main}) :
        \E fla \in [S -> {f \in Lang : ~ Trivial(f)}] :
          /\ sumID = [n \in Call |-> IF n \in S THEN Numbered(S, 1)[n] ELSE 0]
          /\ store = PlusAll(<< >>, Numbered(S, 1), fla, Deserialized)
  BY DEF Init
<1>1. PICK fla \in [S -> {f \in Lang : ~ Trivial(f)}] :
        /\ sumID = [n \in Call |-> IF n \in S THEN Numbered(S, 1)[n] ELSE 0]
        /\ store = PlusAll(<< >>, Numbered(S, 1), fla, Deserialized)
  BY <1>0
<1> DEFINE id == Numbered(S, 1)
<1>2. /\ DOMAIN id = S /\ DOMAIN << >> = {}
      /\ \A n \in DOMAIN id : id[n] \notin DOMAIN << >>
      /\ \A m, n \in DOMAIN id : id[m] = id[n] => m = n
  <2>1. S \in SUBSET Call /\ 1 \in Nat \ {0}
    OBVIOUS
  <2>2. /\ id \in [S -> Nat \ {0}]
        /\ \A m, n \in S : id[m] = id[n] => m = n
    BY <2>1, NumberedFacts
  <2> QED
    BY <2>2
<1>3. /\ sumID = [n \in Call |-> IF n \in S THEN id[n] ELSE 0]
      /\ store = PlusAll(<< >>, id, fla, Deserialized)
  BY <1>1
<1> HIDE DEF id
<1>4. /\ \A k : k \in DOMAIN store <=> k \in DOMAIN << >> \/ \E m \in DOMAIN id : k = id[m]
      /\ \A m \in DOMAIN id :
           store[id[m]] = [fn |-> FnOf[m], fla |-> fla[m], indexed |-> Deserialized]
  <2>1. \A k : k \in DOMAIN PlusAll(<< >>, id, fla, Deserialized)
                  <=> k \in DOMAIN << >> \/ \E m \in DOMAIN id : k = id[m]
    BY ONLY <1>2, PlusAllFacts
  <2> QED
    BY <1>2, <1>3, <2>1, PlusAllFacts
<1>5. \A k \in DOMAIN store : \E m \in S : k = id[m] /\ sumID[m] = id[m] /\ m \in Call
  BY <1>2, <1>3, <1>4
<1>6. Deserialized = TRUE
  BY DEF Deserialized
<1>7. Indexed
  <2> SUFFICES ASSUME NEW k \in DOMAIN store PROVE store[k].indexed
    BY DEF Indexed
  <2>1. PICK m \in S : k = id[m]
    BY <1>5
  <2>2. store[k] = [fn |-> FnOf[m], fla |-> fla[m], indexed |-> TRUE]
    BY <1>2, <1>4, <1>6, <2>1
  <2> QED
    BY <2>2
<1>8. NoOrphanSummary
  BY <1>5 DEF NoOrphanSummary
<1>9. PassedDetached
  BY CallsAssumption DEF Init, PassedDetached, Call
<1>10. UntriedSummarized /\ RepairDetached
  BY DEF Init, UntriedSummarized, RepairDetached
<1> QED
  BY <1>7, <1>8, <1>9, <1>10 DEF Tidy

\* NoOrphanSummary: with a logic that has a repair, every summary that is live, and
\* would be written to the summary file, is the summary of a call: whatever Houdini
\* tried, refinement removed and extract_interpolants replaced.
THEOREM NoneIsOrphaned ==
  (Logic \in {"qfuf", "qflra"}) => (Spec => []NoOrphanSummary)
<1> SUFFICES ASSUME Logic \in {"qfuf", "qflra"} PROVE Spec => []NoOrphanSummary
  OBVIOUS
<1>1. Init => Tidy
  BY TidyInit
<1>2. IInv /\ Tidy /\ [Next]_vars => Tidy'
  BY TidyStep
<1>3. Tidy => NoOrphanSummary
  BY DEF Tidy
<1> QED
  BY <1>1, <1>2, <1>3, Invariance, PTL DEF Spec

-----------------------------------------------------------------------------
(***************************************************************************)
(* A call is skipped on the strength of its own summary.  Nothing that was *)
(* done below it since has weakened what that summary rests on: the calls  *)
(* of the subtrees that were passed without a mark above them have the     *)
(* summaries of the previous proof, or the bodies it knew.                 *)
(***************************************************************************)
\* The calls below which nothing is being checked are those with a caller up to here.
Reach == IF phase \in {"pick", "done"} THEN cur ELSE cur - 1

\* R: calls that were passed and still are what the proof E took them for.
Kept(E, R) ==
  /\ \A c \in R : /\ c > cur
                  /\ Parent[c] \in R \/ Parent[c] <= Reach
                  /\ IF sumID[c] # 0 THEN Models(SummaryOf(c)) \subseteq E[c]
                                     ELSE c \in preserved /\ Children(c) \subseteq R
  /\ \A c \in Call : (c > cur /\ c # Main /\ Parent[c] <= Reach /\ Parent[c] \notin marked)
                     => c \in R

SupportInv == \E E \in Env : Prior(E) /\ \E R \in SUBSET Call : Kept(E, R)

\* The calls below n.
Subtree(n) ==
  {m \in Call :
     \A S \in SUBSET Call :
        (n \in S /\ \A k \in Call : Parent[k] \in S => k \in S) => m \in S}

LEMMA SubtreeFacts ==
  ASSUME NEW n \in Call
  PROVE  /\ n \in Subtree(n)
         /\ \A m \in Call : Parent[m] \in Subtree(n) => m \in Subtree(n)
         /\ \A m \in Subtree(n) : m # n => Parent[m] \in Subtree(n)
         /\ \A m \in Subtree(n) : m >= n
<1>1. n \in Subtree(n) /\ \A m \in Call : Parent[m] \in Subtree(n) => m \in Subtree(n)
  BY DEF Subtree
<1>2. ASSUME NEW m \in Subtree(n), m # n, Parent[m] \notin Subtree(n) PROVE FALSE
  <2> DEFINE S == Subtree(n) \ {m}
  <2>1. S \in SUBSET Call /\ n \in S
    BY <1>1, <1>2 DEF Subtree
  <2>2. \A k \in Call : Parent[k] \in S => k \in S
    BY <1>1, <1>2
  <2> QED
    BY <2>1, <2>2 DEF Subtree
<1>3. \A m \in Subtree(n) : m >= n
  <2> DEFINE S == {k \in Call : k >= n}
  <2>1. S \in SUBSET Call /\ n \in S
    BY CallFacts
  <2>2. \A k \in Call : Parent[k] \in S => k \in S
    BY CallFacts, ParentAssumption DEF Call
  <2> QED
    BY <2>1, <2>2 DEF Subtree
<1> QED
  BY <1>1, <1>2, <1>3

\* A query touches none of the calls of R.
LEMMA KeptOutside ==
  ASSUME TypeOK, cur \in Call, phase \notin {"pick", "done"}, NEW E \in Env,
         NEW R \in SUBSET Call, Kept(E, R)
  PROVE  R \cap Partitions(cur) = {}
<1> DEFINE S == {m \in Call \ R : m >= cur}
<1>1. S \in SUBSET Call /\ cur \in S
  BY CallFacts DEF Kept
<1>2. ASSUME NEW k \in Call, Parent[k] \in S PROVE k \in S
  <2>1. k # Main /\ Parent[k] < k /\ Parent[k] >= cur /\ Parent[k] \notin R
    BY <1>2, CallsAssumption, ParentAssumption, CallFacts DEF Call, Main
  <2>a. k \in Nat /\ Parent[k] \in Nat /\ cur \in Nat
    BY <1>2, CallFacts, ParentAssumption
  <2>2. k >= cur /\ k > cur
    BY <2>1, <2>a
  <2>3. ~ (Parent[k] <= Reach)
    BY <2>1, <2>a DEF Reach
  <2> QED
    BY <2>1, <2>2, <2>3 DEF Kept
<1>3. \A m \in Partitions(cur) : m \in S
  BY <1>1, <1>2 DEF Partitions
<1> QED
  BY <1>3

\* What a step can take a summary from: cur, and the calls of its query.
LEMMA OutsideFrame ==
  ASSUME TypeOK, Control, Owned, [Next]_vars, NEW n \in Call, n > cur,
         phase \notin {"pick", "done"} => n \notin Partitions(cur)
  PROVE  Untouched(n)
<1>0. n # cur
  BY CallFacts DEF TypeOK
<1>1. CASE UNCHANGED vars
  BY <1>1 DEF vars, Untouched, callTree, summaries
<1>2. CASE Traverse
  BY <1>2 DEF Traverse, Skip, NoSummary, BeginFull, AssertionsAnswered, Conclude,
              Untouched, callTree, summaries
<1>3. cur \in Call \/ phase \in {"pick", "done"}
  BY DEF Control
<1>4. ASSUME store' = Minus(store, {sumID[cur]}), maxID' = maxID, DropID(cur, sumID[cur]),
             cur \in Call
      PROVE  Untouched(n)
  BY <1>0, <1>4, DetachFrame
<1>5. ASSUME NEW f \in Formula, Attach(f), cur \in Call PROVE Untouched(n)
  BY <1>0, <1>5, AttachFrame
<1>6. CASE Check
  <2>1. CASE Prepared \/ Unknown \/ Refuted
    BY <2>1 DEF Prepared, Unknown, Refuted, Untouched, summaries, callTree
  <2>2. CASE Unusable
    BY <1>3, <1>4, <2>2 DEF Unusable
  <2>3. ASSUME NEW U \in SUBSET Abstract(cur), Refine(U) PROVE Untouched(n)
    <3>1. cur \in Call /\ n \notin Partitions(cur)
      BY <1>3, <2>3 DEF Refine
    <3>2. n \notin U
      BY <3>1 DEF Abstract
    <3> QED
      BY <2>3, <3>1, <3>2, RefineFrame
  <2>4. ASSUME NEW itp \in [Inlined(cur) -> Lang], Proved(itp) PROVE Untouched(n)
    <3>1. cur \in Call /\ n \notin Partitions(cur)
      BY <1>3, <2>4 DEF Proved
    <3>2. n \notin New(itp)
      BY <3>1 DEF New, Inlined
    <3> QED
      BY <2>4, <3>1, <3>2, ProvedFrame
  <2> QED
    BY <1>6, <2>1, <2>2, <2>3, <2>4 DEF Check
<1>7. CASE Judge
  BY <1>3, <1>4, <1>7 DEF Judge, Valid, InvalidKept, InvalidDropped, InvalidWeakened,
                          Answered, Untouched, summaries, callTree
<1>8. CASE Houdini
  <2>1. ASSUME NEW a \in Atom, TryConjunct(a) PROVE Untouched(n)
    <3>1. {{a}} \in Formula
      BY DEF Formula, Cube
    <3> QED
      BY <1>3, <1>5, <2>1, <3>1 DEF TryConjunct, Try
  <2>2. ASSUME NEW a \in Atom, TryDrop(a) PROVE Untouched(n)
    <3>1. Without(houdini.full, houdini.dropped \cup {a}) \in Formula
      BY DEF TypeOK, Repair, Without, Formula, Cube
    <3> QED
      BY <1>3, <1>5, <2>2, <3>1 DEF TryDrop, Try
  <2>3. CASE Weaken
    <3>1. {houdini.valid} \in Formula
      BY DEF TypeOK, Repair, Formula, Cube
    <3> QED
      BY <1>3, <1>5, <2>3, <3>1 DEF Weaken
  <2>4. CASE ConjunctAnswered \/ DisjunctInvalid
    BY <1>3, <1>4, <2>4 DEF ConjunctAnswered, DisjunctInvalid, Answered
  <2>5. ASSUME NEW c \in Cube, NextDisjunct(c) PROVE Untouched(n)
    BY <2>5 DEF NextDisjunct, Untouched, summaries, callTree
  <2>6. CASE DisjunctValid \/ GiveUp
    BY <2>6 DEF DisjunctValid, GiveUp, Untouched, summaries
  <2> QED
    BY <1>8, <2>1, <2>2, <2>3, <2>4, <2>5, <2>6 DEF Houdini
<1> QED
  BY <1>1, <1>2, <1>6, <1>7, <1>8 DEF Next

\* When cur is checked, what is below it counts for nothing any more.
LEMMA Shed ==
  ASSUME TypeOK, cur \in Call, phase = "pick", NEW E \in Env, NEW R \in SUBSET Call,
         Kept(E, R), NEW Q, Q = R \ Subtree(cur)
  PROVE  /\ \A c \in Q : /\ c > cur
                         /\ Parent[c] \in Q \/ Parent[c] <= cur - 1
                         /\ IF sumID[c] # 0 THEN Models(SummaryOf(c)) \subseteq E[c]
                            ELSE c \in preserved /\ Children(c) \subseteq Q
         /\ \A c \in Call : (c > cur /\ c # Main /\ Parent[c] <= cur - 1
                             /\ Parent[c] \notin marked) => c \in Q
<1>1. Reach = cur /\ cur \in Nat
  BY CallFacts DEF Reach
<1>2. ASSUME NEW c \in Q
      PROVE  /\ c > cur
             /\ Parent[c] \in Q \/ Parent[c] <= cur - 1
             /\ IF sumID[c] # 0 THEN Models(SummaryOf(c)) \subseteq E[c]
                ELSE c \in preserved /\ Children(c) \subseteq Q
  <2>1. c \in R /\ c \notin Subtree(cur) /\ c \in Call /\ c > cur
    BY DEF Kept
  <2>2. Parent[c] \notin Subtree(cur) /\ cur \in Subtree(cur) /\ Parent[c] \in Nat
    BY <2>1, SubtreeFacts, ParentAssumption
  <2>3. Parent[c] \in R \/ Parent[c] <= cur
    BY <1>1, <2>1 DEF Kept
  <2>4. Parent[c] \in Q \/ Parent[c] <= cur - 1
    BY <1>1, <2>2, <2>3
  <2>5. ASSUME NEW d \in Children(c), d \in R PROVE d \in Q
    <3>1. d \in Call /\ Parent[d] = c /\ d > cur
      BY <2>5 DEF Kept, Children
    <3>2. d # cur
      BY <1>1, <3>1, CallFacts
    <3> QED
      BY <2>1, <2>5, <3>1, <3>2, SubtreeFacts
  <2> QED
    BY <2>1, <2>4, <2>5 DEF Kept
<1>3. ASSUME NEW c \in Call, c > cur, c # Main, Parent[c] <= cur - 1, Parent[c] \notin marked
      PROVE  c \in Q
  <2>a. c \in Nat /\ Parent[c] \in Nat
    BY CallFacts, ParentAssumption
  <2>1. c \in R
    <3>1. Parent[c] <= Reach
      BY <1>1, <1>3, <2>a
    <3> QED
      BY <1>3, <3>1 DEF Kept
  <2>2. c \notin Subtree(cur)
    <3>1. c # cur /\ Parent[c] < cur /\ ~ (Parent[c] >= cur)
      BY <1>1, <1>3, <2>a
    <3>2. Parent[c] \notin Subtree(cur)
      BY <1>1, <3>1, SubtreeFacts
    <3> QED
      BY <3>1, <3>2, SubtreeFacts
  <2> QED
    BY <2>1, <2>2
<1> QED
  BY <1>2, <1>3

\* Which steps start or end the check of a call.
LEMMA ReachStep ==
  ASSUME TypeOK, Control, [Next]_vars
  PROVE  \/ cur' = cur /\ Reach' = Reach
         \/ /\ cur' = cur /\ Reach' = cur - 1 /\ cur \in Call /\ phase = "pick"
            /\ BeginFull \/ NoSummary
         \/ /\ cur' = cur - 1 /\ Reach' = cur - 1 /\ cur \in Call
            /\ \/ Skip \/ NoSummary
               \/ /\ phase \notin {"pick", "done"}
                  /\ \/ AssertionsAnswered \/ Valid \/ InvalidKept \/ InvalidDropped
                     \/ Weaken \/ DisjunctValid \/ GiveUp
<1>1. CASE cur' = cur
  <2> SUFFICES ASSUME ~ (BeginFull \/ NoSummary)
               PROVE  phase' \in {"pick", "done"} <=> phase \in {"pick", "done"}
    <3>1. BeginFull \/ NoSummary => cur \in Call /\ phase = "pick"
      <4>1. cur \in 0 .. NumCalls /\ NumCalls \in Nat
        BY CallsAssumption DEF TypeOK
      <4>2. BeginFull \/ NoSummary => cur > 0 /\ phase = "pick"
        BY DEF BeginFull, NoSummary
      <4>3. cur > 0 => cur \in Call
        BY <4>1 DEF Call
      <4> QED
        BY <4>2, <4>3
    <3>2. BeginFull => phase' = "prepare"
      BY DEF BeginFull
    <3>3. NoSummary => phase' = "solve"
      <4>1. cur \in Nat /\ cur # cur - 1
        BY DEF TypeOK
      <4> QED
        BY <1>1, <4>1 DEF NoSummary, CallDone
    <3> QED
      BY <1>1, <3>1, <3>2, <3>3 DEF Reach
  <2>1. cur \in Nat /\ cur # cur - 1
    BY DEF TypeOK
  <2>2. \A ok : CallDone(ok) => phase' = "solve"
    BY <1>1, <2>1 DEF CallDone
  <2>3. CASE UNCHANGED vars
    BY <2>3 DEF vars, query
  <2>4. CASE Traverse
    BY <1>1, <2>1, <2>4 DEF Traverse, Skip, AssertionsAnswered, Conclude
  <2>5. CASE Check
    <3>1. \A U \in SUBSET Abstract(cur) : Refine(U) => phase' = phase
      BY DEF Refine
    <3>2. \A itp \in [Inlined(cur) -> Lang] :
            Proved(itp) => phase = "solve" /\ phase' = "answer"
      BY DEF Proved
    <3> QED
      BY <2>5, <3>1, <3>2 DEF Check, Prepared, Unusable, Unknown, Refuted
  <2>6. CASE Judge
    BY <2>2, <2>6 DEF Judge, Valid, InvalidKept, InvalidDropped, InvalidWeakened, Answered
  <2>7. CASE Houdini
    <3>1. \A a \in Atom : TryConjunct(a) \/ TryDrop(a)
                            => phase = "repair" /\ phase' = "prepare"
      BY DEF TryConjunct, TryDrop, Try
    <3>2. \A c \in Cube : NextDisjunct(c) => phase' = phase
      BY DEF NextDisjunct, query
    <3> QED
      BY <2>2, <2>7, <3>1, <3>2 DEF Houdini, ConjunctAnswered, DisjunctInvalid, Weaken,
         DisjunctValid, GiveUp, Answered
  <2> QED
    BY <2>3, <2>4, <2>5, <2>6, <2>7 DEF Next
<1>2. CASE cur' # cur
  <2>1. /\ cur' = cur - 1 /\ cur \in Call
        /\ (\/ Skip \/ AssertionsAnswered \/ NoSummary \/ Valid \/ InvalidKept
            \/ InvalidDropped \/ Weaken \/ DisjunctValid \/ GiveUp)
    BY <1>2, CursorStep
  <2>2. \A ok : CallDone(ok) => phase' = "pick"
    BY <1>2 DEF CallDone
  <2>3. phase' = "pick"
    <3>1. CASE Skip \/ AssertionsAnswered
      BY <3>1 DEF Skip, AssertionsAnswered, query
    <3>2. CASE ~ (Skip \/ AssertionsAnswered)
      BY <2>1, <2>2, <3>2 DEF NoSummary, Valid, InvalidKept, InvalidDropped, Weaken,
         DisjunctValid, GiveUp
    <3> QED
      BY <3>1, <3>2
  <2>4. Reach' = cur - 1
    BY <2>1, <2>3 DEF Reach
  <2>5. AssertionsAnswered \/ Valid \/ InvalidKept \/ InvalidDropped \/ Weaken
        \/ DisjunctValid \/ GiveUp => phase \notin {"pick", "done"}
    BY DEF AssertionsAnswered, Valid, InvalidKept, InvalidDropped, Weaken, DisjunctValid,
       GiveUp, Answered
  <2> QED
    BY <2>1, <2>4, <2>5
<1> QED
  BY <1>1, <1>2

\* The step after which cur counts as passed, or is being checked: Q is what is kept.
LEMMA KeptAgain ==
  ASSUME TypeOK, NEW E \in Env, NEW Q \in SUBSET Call, preserved' = preserved,
         cur' \in Nat, Reach' \in Int,
         \A c \in Q : /\ c > cur'
                      /\ Parent[c] \in Q \/ Parent[c] <= Reach'
                      /\ Untouched(c)
                      /\ IF sumID[c] # 0 THEN Models(SummaryOf(c)) \subseteq E[c]
                         ELSE c \in preserved /\ Children(c) \subseteq Q,
         \A c \in Call : (c > cur' /\ c # Main /\ Parent[c] <= Reach'
                          /\ Parent[c] \notin marked') => c \in Q
  PROVE  Kept(E, Q)'
<1>1. \A c \in Q : sumID[c] # 0 => SummaryOf(c)' = SummaryOf(c)
  BY DEF Untouched, SummaryOf
<1>2. \A c \in Q : sumID'[c] = sumID[c]
  BY DEF Untouched
<1>3. \A c \in Q : IF sumID'[c] # 0 THEN Models(SummaryOf(c)') \subseteq E[c]
                   ELSE c \in preserved' /\ Children(c) \subseteq Q
  BY <1>1, <1>2
<1> QED
  BY <1>3 DEF Kept

LEMMA KeptStep ==
  ASSUME TypeOK, Control, Owned, Candidate, QueriesSound, NEW E \in Env, Prior(E),
         NEW R \in SUBSET Call, Kept(E, R), [Next]_vars
  PROVE  \E Q \in SUBSET Call : Kept(E, Q)'
<1>1. Framed /\ preserved' = preserved /\ marked \subseteq marked'
  BY FrameStep, MarkStep DEF Framed
<1>2. /\ cur \in Nat /\ cur - 1 \in Int /\ Reach \in Int
      /\ \A c \in Call : c \in Nat /\ Parent[c] \in Nat
      /\ \A c \in R : c \in Call /\ c > cur
  BY CallFacts, ParentAssumption DEF TypeOK, Reach, Kept
<1>3. \A c \in R : Untouched(c)
  <2> TAKE c \in R
  <2>1. phase \notin {"pick", "done"} => cur \in Call
    BY DEF Control
  <2>2. phase \notin {"pick", "done"} => c \notin Partitions(cur)
    BY <2>1, KeptOutside
  <2> QED
    BY <1>2, <2>2, OutsideFrame
<1>4. CASE cur' = cur /\ Reach' = Reach
  <2>1. Kept(E, R)'
    BY <1>1, <1>2, <1>3, <1>4, KeptAgain DEF Kept
  <2> QED
    BY <2>1
<1>5. ASSUME cur \in Call, phase = "pick", BeginFull \/ NoSummary, Reach' = cur - 1,
             cur' = cur \/ cur' = cur - 1
      PROVE  \E Q \in SUBSET Call : Kept(E, Q)'
  <2>0. PICK Q : Q = R \ Subtree(cur)
    OBVIOUS
  <2>1. /\ \A c \in Q : /\ c > cur
                        /\ Parent[c] \in Q \/ Parent[c] <= cur - 1
                        /\ IF sumID[c] # 0 THEN Models(SummaryOf(c)) \subseteq E[c]
                           ELSE c \in preserved /\ Children(c) \subseteq Q
        /\ \A c \in Call : (c > cur /\ c # Main /\ Parent[c] <= cur - 1
                            /\ Parent[c] \notin marked) => c \in Q
    BY <1>5, <2>0, Shed
  <2>2. cur' \in Nat
    BY <1>2, <1>5, CallFacts DEF Call
  <2>3. ASSUME NEW c \in Q PROVE c > cur'
    <3>1. c > cur /\ c \in Nat
      BY <1>2, <2>0, <2>1
    <3> QED
      BY <1>2, <1>5, <3>1
  <2>4. ASSUME NEW c \in Call, c > cur', c # Main, Parent[c] <= cur - 1,
               Parent[c] \notin marked'
        PROVE  c \in Q
    <3>1. CASE c > cur
      BY <1>1, <2>1, <2>4, <3>1
    <3>2. CASE ~ (c > cur)
      <4>1. c = cur /\ cur' = cur - 1
        BY <1>2, <1>5, <2>4, <3>2
      <4>2. NoSummary
        BY <1>2, <1>5, <4>1 DEF BeginFull, traversal
      <4> QED
        BY <2>4, <4>1, <4>2 DEF NoSummary, CallDone, Marked
    <3> QED
      BY <3>1, <3>2
  <2>5. Q \in SUBSET Call /\ \A c \in Q : Untouched(c)
    BY <1>3, <2>0
  <2>6. Kept(E, Q)'
    BY <1>1, <1>2, <1>5, <2>1, <2>2, <2>3, <2>4, <2>5, KeptAgain
  <2> QED
    BY <2>5, <2>6
<1>6. ASSUME cur' = cur - 1, Reach' = cur - 1, cur \in Call, Parent[cur] \in marked',
             phase \notin {"pick", "done"}
      PROVE  Kept(E, R)'
  <2>1. Reach = cur - 1
    BY <1>6 DEF Reach
  <2>2. ASSUME NEW c \in Call, c > cur', c # Main, Parent[c] <= Reach', Parent[c] \notin marked'
        PROVE  c \in R
    <3>1. c # cur
      BY <1>6, <2>2
    <3>2. c > cur
      BY <1>2, <1>6, <2>2, <3>1
    <3> QED
      BY <1>1, <1>6, <2>1, <2>2, <3>2 DEF Kept
  <2>3. \A c \in R : c > cur'
    BY <1>2, <1>6
  <2>4. cur' \in Nat /\ Reach' \in Int
    BY <1>2, <1>6 DEF Call
  <2> QED
    BY <1>1, <1>3, <1>6, <2>1, <2>2, <2>3, <2>4, KeptAgain DEF Kept
<1>7. ASSUME cur' = cur - 1, Reach' = cur - 1, cur \in Call, Untouched(cur),
             Reach = cur \/ Reach = cur - 1,
             IF sumID[cur] # 0 THEN Models(SummaryOf(cur)) \subseteq E[cur]
             ELSE cur \in preserved /\ Children(cur) \subseteq R
      PROVE  \E Q \in SUBSET Call : Kept(E, Q)'
  <2>q. PICK Q : Q = R \cup {cur}
    OBVIOUS
  <2>a. cur \in Nat /\ cur >= 1 /\ Parent[cur] \in Nat /\ Parent[cur] < cur
    BY <1>2, <1>7, ParentAssumption DEF Call
  <2>b. cur' = cur - 1 /\ Reach' = cur - 1 /\ (Reach = cur \/ Reach = cur - 1)
    BY <1>7
  <2>0. cur' \in Nat /\ Reach' \in Int /\ Q \in SUBSET Call /\ Parent[cur] <= cur - 1
    BY <1>7, <2>q, <2>a
  <2>1. ASSUME NEW c \in Call, c > cur', c # Main, Parent[c] <= Reach', Parent[c] \notin marked'
        PROVE  c \in Q
    <3>1. CASE c = cur
      BY <2>q, <3>1
    <3>2. CASE c # cur
      <4>0. c \in Nat /\ Parent[c] \in Nat /\ cur \in Nat
        BY <1>2
      <4>1. c > cur
        BY <2>1, <2>b, <3>2, <4>0
      <4>2. Parent[c] <= Reach /\ Parent[c] \notin marked
        BY <1>1, <2>1, <2>b, <4>0
      <4> QED
        BY <2>1, <2>q, <4>1, <4>2 DEF Kept
    <3> QED
      BY <3>1, <3>2
  <2>2. ASSUME NEW c \in R
        PROVE  /\ c > cur' /\ (Parent[c] \in Q \/ Parent[c] <= Reach')
    <3>1. Parent[c] \in R \/ Parent[c] <= Reach
      BY DEF Kept
    <3>0. c \in Nat /\ Parent[c] \in Nat /\ cur \in Nat /\ c > cur
      BY <1>2
    <3>2. Parent[c] <= Reach => Parent[c] = cur \/ Parent[c] <= cur - 1
      BY <2>b, <3>0
    <3>3. c > cur'
      BY <2>b, <3>0
    <3> QED
      BY <2>b, <2>q, <3>1, <3>2, <3>3
  <2>3. \A c \in R : IF sumID[c] # 0 THEN Models(SummaryOf(c)) \subseteq E[c]
                     ELSE c \in preserved /\ Children(c) \subseteq Q
    BY <2>q DEF Kept
  <2>4. \A c \in Q : /\ c > cur'
                     /\ Parent[c] \in Q \/ Parent[c] <= Reach'
                     /\ Untouched(c)
                     /\ IF sumID[c] # 0 THEN Models(SummaryOf(c)) \subseteq E[c]
                        ELSE c \in preserved /\ Children(c) \subseteq Q
    <3> SUFFICES ASSUME NEW c \in Q
                 PROVE  /\ c > cur'
                        /\ Parent[c] \in Q \/ Parent[c] <= Reach'
                        /\ Untouched(c)
                        /\ IF sumID[c] # 0 THEN Models(SummaryOf(c)) \subseteq E[c]
                           ELSE c \in preserved /\ Children(c) \subseteq Q
      OBVIOUS
    <3>1. CASE c \in R
      BY <1>3, <2>2, <2>3, <3>1
    <3>2. CASE c = cur
      <4>1. cur > cur'
        BY <1>2, <1>7
      <4> QED
        BY <1>7, <2>0, <2>q, <3>2, <4>1
    <3> QED
      BY <2>q, <3>1, <3>2
  <2>5. Kept(E, Q)'
    BY <1>1, <2>0, <2>1, <2>4, KeptAgain
  <2> QED
    BY <2>0, <2>5
<1>8. CASE Skip /\ cur' = cur - 1 /\ Reach' = cur - 1 /\ cur \in Call
  <2>1. /\ phase = "pick" /\ Reach = cur /\ task = "none" /\ cur \in preserved
        /\ cur \notin marked /\ Untouched(cur)
    BY <1>8 DEF Skip, Reach, Control, MustCheck, Untouched, callTree, summaries
  <2>2. sumID[cur] # 0 => Models(SummaryOf(cur)) = E[cur]
    BY <1>8, <2>1 DEF Prior
  <2>3. \A c \in Children(cur) : c \in R
    <3> TAKE c \in Children(cur)
    <3>1. c \in Call /\ c > cur /\ c # Main /\ Parent[c] = cur
      BY <1>8, CallFacts
    <3> QED
      BY <1>2, <2>1, <3>1 DEF Kept
  <2> QED
    BY <1>7, <1>8, <2>1, <2>2, <2>3
<1>9. CASE /\ cur' = cur - 1 /\ Reach' = cur - 1 /\ cur \in Call
           /\ phase \notin {"pick", "done"}
           /\ \/ AssertionsAnswered \/ Valid \/ InvalidKept \/ InvalidDropped
              \/ Weaken \/ DisjunctValid \/ GiveUp
  <2>0. Reach = cur - 1
    BY <1>9 DEF Reach
  <2>1. CASE Valid
    <3>1. task = "full" /\ phase = "answer" /\ holds /\ sumID[cur] # 0
      BY <2>1 DEF Valid, Answered, Candidate, Own
    <3>2. Untouched(cur)
      BY <2>1 DEF Valid, Untouched, summaries
    <3>3. Models(SummaryOf(cur)) = E[cur]
      BY <1>9, <3>1 DEF Prior
    <3> QED
      BY <1>7, <1>9, <2>0, <3>1, <3>2, <3>3
  <2>2. CASE AssertionsAnswered
    <3>1. cur = Main
      BY <2>2 DEF AssertionsAnswered, Control
    <3>2. ASSUME NEW c \in Call, c > cur', c # Main, Parent[c] <= Reach',
                 Parent[c] \notin marked'
          PROVE  c \in R
      <4>1. c > cur
        BY <1>2, <1>9, <3>1, <3>2
      <4> QED
        BY <1>1, <1>9, <2>0, <3>2, <4>1 DEF Kept
    <3>3. \A c \in R : c > cur'
      BY <1>2, <1>9
    <3>4. cur' \in Nat /\ Reach' \in Int
      BY <1>2, <1>9 DEF Call
    <3>5. Kept(E, R)'
      BY <1>1, <1>3, <1>9, <2>0, <3>2, <3>3, <3>4, KeptAgain DEF Kept
    <3> QED
      BY <3>5
  <2>3. CASE InvalidKept \/ InvalidDropped \/ GiveUp
    <3>1. CallDone(FALSE)
      BY <2>3 DEF InvalidKept, InvalidDropped, GiveUp
    <3>2. cur # Main
      <4>1. task \in Own
        BY <2>3 DEF InvalidKept, InvalidDropped, GiveUp, Answered, Control, Own
      <4> QED
        BY <4>1 DEF Control
    <3>3. Parent[cur] \in marked'
      BY <3>1, <3>2 DEF CallDone, Marked
    <3> QED
      BY <1>6, <1>9, <3>3
  <2>4. CASE Weaken \/ DisjunctValid
    <3>1. task \in {"conjunct", "disjunct"}
      BY <2>4 DEF Weaken, DisjunctValid, Answered
    <3>2. Parent[cur] \in marked'
      BY <1>1, <3>1 DEF Prior
    <3> QED
      BY <1>6, <1>9, <3>2
  <2> QED
    BY <1>9, <2>1, <2>2, <2>3, <2>4
<1> QED
  <2>1. CASE NoSummary /\ cur' = cur - 1 /\ Reach' = cur - 1 /\ cur \in Call
    <3>1. phase = "pick"
      BY <2>1 DEF NoSummary
    <3> QED
      BY <1>5, <2>1, <3>1
  <2> QED
    BY <1>4, <1>5, <1>8, <1>9, <2>1, ReachStep

LEMMA SupportInit == Init => SupportInv
<1> SUFFICES ASSUME Init PROVE SupportInv
  OBVIOUS
<1>1. PICK E \in Env :
        /\ \A n \in Call : sumID[n] # 0 => E[n] = Models(SummaryOf(n))
        /\ \A n \in preserved : Post(ver, n, E) \subseteq E[n]
        /\ Main \in preserved => E[Main] \subseteq Safe
  BY DEF Init, PriorProof
<1>2. \A n \in Call : ~ (n > cur)
  BY CallsAssumption DEF Init, Call
<1>3. Prior(E)
  BY <1>1, <1>2 DEF Init, Prior
<1>4. Kept(E, {})
  BY <1>2 DEF Kept
<1> QED
  BY <1>3, <1>4 DEF SupportInv

\* A call that is passed over without a check can rely on what is below it.
LEMMA SupportedWhenSkipped ==
  ASSUME TypeOK, Control, SupportInv, Skip, sumID[cur] # 0
  PROVE  Supported(cur)
<1>1. PICK E \in Env : Prior(E) /\ \E R \in SUBSET Call : Kept(E, R)
  BY DEF SupportInv
<1>2. PICK R \in SUBSET Call : Kept(E, R)
  BY <1>1
<1>3. /\ cur \in Call /\ phase = "pick" /\ task = "none" /\ Reach = cur
      /\ cur \in preserved /\ cur \notin marked /\ cur \in Nat
  <2>1. cur \in 0 .. NumCalls /\ NumCalls \in Nat /\ cur > 0
    BY CallsAssumption DEF TypeOK, Skip
  <2>2. cur \in Call /\ cur \in Nat
    BY <2>1 DEF Call
  <2> QED
    BY <2>2 DEF Skip, Reach, Control, MustCheck
<1>4. E[cur] = Models(SummaryOf(cur))
  BY <1>1, <1>3 DEF Prior
<1> DEFINE X == [m \in Call |-> IF sumID[m] # 0 THEN Models(SummaryOf(m))
                                ELSE IF m \in R THEN E[m] ELSE Val]
<1>5. X \in Env
  BY DEF Models, Env
<1>6. \A m \in Call : sumID[m] # 0 => X[m] = Models(SummaryOf(m))
  OBVIOUS
<1>7. \A c \in R : X[c] \subseteq E[c]
  BY <1>2 DEF Kept
<1>8. ASSUME NEW m \in Call, Children(m) \subseteq R, m \in preserved
      PROVE  Post(ver, m, X) \subseteq E[m]
  <2>1. \A q \in ver[m] : \A c \in DOMAIN q.calls : X[c] \subseteq E[c]
    BY <1>7, <1>8, PathCalls DEF TypeOK
  <2>2. Post(ver, m, X) \subseteq Post(ver, m, E)
    BY <2>1, PostMonotone
  <2> QED
    BY <1>1, <1>8, <2>2 DEF Prior
<1>9. \A m \in Call : Post(ver, m, X) \subseteq Val
  BY PathCalls DEF Post, TypeOK
<1>10. Post(ver, cur, X) \subseteq X[cur]
  <2>1. ASSUME NEW c \in Children(cur) PROVE c \in R
    <3>1. c \in Call /\ c > cur /\ c # Main /\ Parent[c] = cur
      BY <1>3, CallFacts
    <3>2. Parent[c] <= Reach /\ Parent[c] \notin marked
      BY <1>3, <3>1
    <3>3. \A d \in Call : (d > cur /\ d # Main /\ Parent[d] <= Reach
                           /\ Parent[d] \notin marked) => d \in R
      BY <1>2 DEF Kept
    <3> QED
      BY <3>1, <3>2, <3>3
  <2> QED
    BY <1>3, <1>4, <1>8, <2>1
<1>11. ASSUME NEW m \in Call, m > cur, sumID[m] = 0 PROVE Post(ver, m, X) \subseteq X[m]
  <2>1. CASE m \in R
    BY <1>2, <1>8, <1>11, <2>1 DEF Kept
  <2>2. CASE m \notin R
    BY <1>9, <1>11, <2>2
  <2> QED
    BY <2>1, <2>2
<1> HIDE DEF X
<1> QED
  BY <1>5, <1>6, <1>10, <1>11 DEF Supported

\* SkippedIsSupported: the marks of call_graph_traversal are enough.  When a call is
\* passed over, its summary still follows from its body and the summaries its callees
\* have by then, whatever was weakened, dropped, refined or generated below it.
THEOREM SkippedAreSupported == Spec => SkippedIsSupported
<1>1. Init => SupportInv
  BY SupportInit
<1>2. IInv /\ SupportInv /\ [Next]_vars => SupportInv'
  <2> SUFFICES ASSUME IInv, SupportInv, [Next]_vars PROVE SupportInv'
    OBVIOUS
  <2>1. TypeOK /\ Control /\ Owned /\ Candidate /\ QueriesSound
    BY DEF IInv
  <2>2. PICK E \in Env : Prior(E) /\ \E R \in SUBSET Call : Kept(E, R)
    BY DEF SupportInv
  <2>3. PICK R \in SUBSET Call : Kept(E, R)
    BY <2>2
  <2>4. Prior(E)'
    BY <2>1, <2>2, PriorStep
  <2>5. \E Q \in SUBSET Call : Kept(E, Q)'
    BY <2>1, <2>2, <2>3, KeptStep
  <2> QED
    BY <2>2, <2>4, <2>5 DEF SupportInv, Env
<1>3. IInv /\ SupportInv => ((Skip /\ sumID[cur] # 0) => Supported(cur))
  BY SupportedWhenSkipped DEF IInv
<1> QED
  BY <1>1, <1>2, <1>3, Invariance, PTL DEF Spec, SkippedIsSupported
=============================================================================
