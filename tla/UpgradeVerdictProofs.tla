------------------------ MODULE UpgradeVerdictProofs ------------------------
(***************************************************************************)
(* The verdicts of UpgradeCycle with --logic prop, for every call tree,    *)
(* every set of revisions and every number of upgrades: every verdict is   *)
(* right, whatever upgrades failed or were killed before.                  *)
(*                                                                         *)
(* While the traversal walks towards main, no summary that was read can be *)
(* validated (its id is not in id_to_summary), so that a call either does  *)
(* no more than it did in the base revision, or is inlined and its caller  *)
(* marked.  The summaries the last query then uses are those __omega       *)
(* refers to, of calls that do no more than in the base revision; and      *)
(* those have over-approximated the base revision since it was validated.  *)
(***************************************************************************)
EXTENDS UpgradeCycleProofs

(***************************************************************************)
(* The invariant.                                                          *)
(***************************************************************************)
\* The summaries __omega refers to over-approximate the base revision.
OmegaTyped ==
  /\ base \in Versions
  /\ omega \in [Call -> [sum : Nat, prec : {"SUMMARY", "INLINE"}]]
  /\ omega[Main] = [sum |-> 0, prec |-> "INLINE"]
  /\ \A n \in Call : /\ omega[n].sum < told.max
                     /\ omega[n].prec = "SUMMARY" => omega[n].sum # 0
OmegaSound ==
  \A n \in Call :
     (omega[n].prec = "SUMMARY" /\ omega[n].sum \in DOMAIN told.sums)
     => Concrete(base)[n] \subseteq Models(told.sums[omega[n].sum].fla)
FileTyped ==
  \A id \in DOMAIN file.sums : file.sums[id].fn \in Fn /\ file.sums[id].fla \in Formula

DiskSound == OmegaTyped /\ OmegaSound /\ FileTyped

CallTree ==
  /\ sumID[Main] = 0 /\ prec[Main] = "INLINE"
  /\ \A n \in Call : /\ sumID[n] < maxID
                     /\ prec[n] # "HAVOC"
                     /\ prec[n] = "SUMMARY" => sumID[n] # 0

\* The traversal has not reached the query of main.
Walking == cur > 0 /\ task # "main"

WalkedPast(n) ==
  \/ prec[n] = "INLINE" /\ Parent[n] \in marked
  \/ Concrete(ver)[n] \subseteq Concrete(base)[n]

\* The walk: the summaries are those __omega refers to, none can be validated, and
\* something is left to be checked.
WalkSound ==
  /\ phase \in {"pick", "prepare", "answer"}
  /\ phase = "answer" => ~ holds /\ prec[cur] = "INLINE"
  /\ preserved = Preserved(ver)
  /\ \A id \in DOMAIN store : ~ store[id].indexed
  /\ \A n \in Call : prec[n] = "SUMMARY" => sumID[n] = omega[n].sum
                                            /\ omega[n].prec = "SUMMARY"
  /\ \A n \in Call : n > cur => WalkedPast(n)
  /\ \E n \in Call : n <= cur /\ MustCheck(n)

\* The query of main, and what follows.
LiveSound ==
  \A n \in Call : (prec[n] = "SUMMARY" /\ Has(store, sumID[n]))
                  => Concrete(ver)[n] \subseteq Models(SummaryOf(n))
AskSound ==
  /\ LiveSound /\ AssertedSound
  /\ (task = "main" /\ phase = "answer") => (holds <=> IsSafe(ver))
  /\ cur = 0 => (validated <=> IsSafe(ver))

RunSound == (Walking => WalkSound) /\ (~ Walking => AskSound)

Typed == TypeOK /\ Control /\ CallTree

SoundInv == Typed /\ DiskSound /\ RunSound

-----------------------------------------------------------------------------
(***************************************************************************)
(* Which steps there are.                                                  *)
(***************************************************************************)
LEMMA StepIsNext ==
  /\ Quiet => Next
  /\ Conclude => Next
  /\ \A itp \in [Inlined(cur) -> Lang] : Proved(itp) => Next
<1>1. Quiet => Next
  BY DEF Quiet, Next, Traverse, Check
<1>2. Conclude => Next
  BY DEF Next, Traverse
<1>3. \A itp \in [Inlined(cur) -> Lang] : Proved(itp) => Next
  BY DEF Next, Check
<1> QED
  BY <1>1, <1>2, <1>3

\* Before main is asked, a summary is never validated: it is skipped, missing,
\* unusable or unknown.
LEMMA WalkingSteps ==
  ASSUME PropControl, Walking, WalkSound, Quiet
  PROVE  Skip \/ NoSummary \/ BeginFull \/ Unusable \/ Unknown \/ InvalidKept
<1>1. ~ AssertionsAnswered
  BY DEF AssertionsAnswered, Walking
<1>2. ~ Exists(store, sumID[cur])
  BY DEF WalkSound, Exists
<1>3. ~ Prepared /\ ~ InvalidDropped /\ ~ InvalidWeakened
  BY <1>2 DEF Prepared, InvalidDropped, InvalidWeakened
<1>4. ~ Refuted /\ \A U \in SUBSET Abstract(cur) : ~ Refine(U)
  BY DEF Refuted, Refine, WalkSound
<1>5. ~ Valid
  BY DEF Valid, Answered, WalkSound
<1>6. ~ Houdini
  BY DEF Houdini, TryConjunct, TryDrop, NextDisjunct, ConjunctAnswered, Weaken,
         DisjunctValid, DisjunctInvalid, GiveUp, Answered, PropControl
<1> QED
  BY <1>1, <1>3, <1>4, <1>5, <1>6 DEF Quiet, Judge

\* From then on there is only the query of main.
LEMMA AskingSteps ==
  ASSUME PropControl, Control, ~ Walking, Quiet
  PROVE  AssertionsAnswered \/ Refuted \/ \E U \in SUBSET Abstract(cur) : Refine(U)
<1>1. task = "main" \/ (task = "none" /\ ~ (cur > 0))
  <2>1. task # "none" => cur > 0
    BY CallsAssumption DEF Control, Call
  <2> QED
    BY <2>1 DEF Walking
<1>2. task = "main" => phase \notin {"pick", "prepare", "done"}
  BY DEF Control, Own
<1>3. ~ Skip /\ ~ NoSummary /\ ~ BeginFull
  BY <1>1, <1>2 DEF Skip, NoSummary, BeginFull
<1>4. ~ Prepared /\ ~ Unusable /\ ~ Unknown
  BY <1>1, <1>2 DEF Prepared, Unusable, Unknown, Control
<1>5. ~ Judge
  BY <1>1 DEF Judge, Valid, InvalidKept, InvalidDropped, InvalidWeakened, Answered
<1>6. ~ Houdini
  BY <1>1 DEF Houdini, TryConjunct, TryDrop, NextDisjunct, ConjunctAnswered, Weaken,
         DisjunctValid, DisjunctInvalid, GiveUp, Answered, PropControl
<1> QED
  BY <1>3, <1>4, <1>5, <1>6 DEF Quiet

-----------------------------------------------------------------------------
(***************************************************************************)
(* The walk.                                                               *)
(***************************************************************************)
\* A call that is skipped has the body of the base revision and makes calls that do
\* no more than in the base revision.
LEMMA SkippedDoesNoMore ==
  ASSUME ver \in Versions, base \in Versions, cur \in Call, WalkSound, Skip
  PROVE  Concrete(ver)[cur] \subseteq Concrete(base)[cur]
<1> DEFINE E == Concrete(base)
           I == {cur}
           P == I \cup Children(cur)
<1>1. ver[cur] = base[cur] /\ cur \notin marked
  BY DEF Skip, MustCheck, WalkSound, Preserved
<1>2. P \in SUBSET Call /\ I \in SUBSET P
  BY CallFacts
<1>3. \A m \in I : Children(m) \subseteq P
  OBVIOUS
<1>4. \A m \in P \ I : Concrete(ver)[m] \subseteq E[m]
  BY <1>1, CallFacts DEF WalkSound, WalkedPast
<1>5. \A m \in I : Concrete(ver)[m] \cap Post(ver, m, E) \subseteq E[m]
  <2>1. Post(ver, cur, E) = Post(base, cur, E)
    BY <1>1 DEF Post
  <2>2. Post(base, cur, E) \subseteq E[cur]
    BY ConcreteClosed DEF Closed
  <2> QED
    BY <2>1, <2>2
<1>6. E \in Env
  BY ConcreteIsEnv
<1> HIDE DEF P, I, E
<1>7. \A m \in P : Concrete(ver)[m] \subseteq E[m]
  BY ONLY ver \in Versions, <1>2, <1>3, <1>4, <1>5, <1>6, RelativelyClosed
<1> QED
  BY <1>7 DEF P, I, E

LEMMA SkipStep ==
  ASSUME TypeOK, OmegaTyped, Walking, WalkSound, Skip, UNCHANGED <<omega, base>>
  PROVE  RunSound'
<1>1. cur \in Call /\ cur \in Nat /\ Main = 1
  BY CallsAssumption DEF TypeOK, Walking, Call, Main
<1>2. /\ cur' = cur - 1 /\ phase' = "pick" /\ task' # "main"
      /\ UNCHANGED <<ver, preserved, sumID, prec, store, marked>>
  BY DEF Skip, callTree, summaries, query, Walking
<1>3. PICK n \in Call : n <= cur /\ MustCheck(n)
  BY DEF WalkSound
<1>4. n <= cur - 1 /\ n >= 1
  <2>1. n # cur
    BY <1>3 DEF Skip
  <2> QED
    BY <1>1, <1>3, <2>1 DEF Call
<1>5. Walking'
  BY <1>1, <1>2, <1>4 DEF Walking, Call
<1>6. ASSUME NEW m \in Call, m > cur - 1 PROVE WalkedPast(m)'
  <2>1. m > cur \/ m = cur
    BY <1>1, <1>6 DEF Call
  <2>2. WalkedPast(m)
    BY <1>1, <2>1, SkippedDoesNoMore DEF WalkSound, WalkedPast, TypeOK, OmegaTyped
  <2> QED
    BY <1>2, <2>2 DEF WalkedPast
<1>7. MustCheck(n)' /\ n <= cur'
  BY <1>2, <1>3, <1>4 DEF MustCheck
<1>8. preserved' = Preserved(ver)'
  BY <1>2 DEF WalkSound, Preserved
<1>9. /\ \A id \in DOMAIN store' : ~ store'[id].indexed
      /\ \A k \in Call : prec'[k] = "SUMMARY" => sumID'[k] = omega'[k].sum
                                                /\ omega'[k].prec = "SUMMARY"
  BY <1>2 DEF WalkSound
<1>10. WalkSound'
  BY <1>2, <1>6, <1>7, <1>8, <1>9 DEF WalkSound
<1> QED
  BY <1>5, <1>10 DEF RunSound

\* A summary __omega refers to means in the store what it meant when __omega was
\* written.
LEMMA ToldIsStored ==
  ASSUME Filed, DiskSound, NEW n \in Call, Has(store, omega[n].sum)
  PROVE  /\ omega[n].sum \in DOMAIN told.sums
         /\ store[omega[n].sum].fla = told.sums[omega[n].sum].fla
<1> DEFINE id == omega[n].sum
<1>1. id \in DOMAIN file.sums /\ file.sums[id] = Contents(id)
  BY DEF Filed, Has
<1>2. id < told.max
  BY DEF DiskSound, OmegaTyped
<1>3. id \in DOMAIN told.sums /\ file.sums[id] = told.sums[id]
  BY <1>1, <1>2 DEF Filed
<1>4. told.sums[id] = [fn |-> store[id].fn, fla |-> store[id].fla]
  BY <1>1, <1>3 DEF Contents
<1> QED
  BY <1>3, <1>4

\* The end of the walk: the calls main would be encoded with do no more than in the
\* base revision.
LEMMA WalkedIsLive ==
  ASSUME Filed, DiskSound, CallTree, WalkSound, cur = Main
  PROVE  LiveSound
<1> SUFFICES ASSUME NEW n \in Call, prec[n] = "SUMMARY", Has(store, sumID[n])
             PROVE  Concrete(ver)[n] \subseteq Models(SummaryOf(n))
  BY DEF LiveSound
<1>1. n > cur
  BY CallFacts, CallsAssumption DEF CallTree, Main, Call
<1>2. Concrete(ver)[n] \subseteq Concrete(base)[n]
  BY <1>1 DEF WalkSound, WalkedPast
<1>3. sumID[n] = omega[n].sum /\ omega[n].prec = "SUMMARY"
  BY DEF WalkSound
<1>4. /\ omega[n].sum \in DOMAIN told.sums
      /\ SummaryOf(n) = told.sums[omega[n].sum].fla
  BY <1>3, ToldIsStored DEF SummaryOf
<1>5. Concrete(base)[n] \subseteq Models(told.sums[omega[n].sum].fla)
  BY <1>3, <1>4 DEF DiskSound, OmegaSound
<1> QED
  BY <1>2, <1>4, <1>5

\* A call that was not validated: the walk goes on, or main is asked.
LEMMA WalkOn ==
  ASSUME TypeOK, CallTree, DiskSound, Filed, Walking, WalkSound,
         CallDone(FALSE), prec[cur] = "INLINE",
         UNCHANGED <<ver, preserved, sumID, prec, store, omega, base>>
  PROVE  RunSound'
<1>1. cur \in Call /\ cur \in Nat /\ Main = 1 /\ Main \in Call
  BY CallsAssumption, CallFacts DEF TypeOK, Walking, Call, Main
<1>2. CASE cur = Main
  <2>1. cur' = cur /\ task' = "main" /\ phase' = "solve" /\ asserted' = NotAsserted
    BY <1>2 DEF CallDone
  <2>2. LiveSound
    BY <1>2, WalkedIsLive
  <2>3. LiveSound'
    BY <2>2 DEF LiveSound, SummaryOf, Has
  <2>4. AssertedSound'
    BY <2>1, ConcreteIsEnv DEF AssertedSound, NotAsserted, Env
  <2>5. ~ Walking' /\ cur' # 0
    BY <1>1, <1>2, <2>1 DEF Walking
  <2> QED
    BY <2>1, <2>3, <2>4, <2>5 DEF RunSound, AskSound
<1>3. CASE cur # Main
  <2>1. /\ cur' = cur - 1 /\ task' = "none" /\ phase' = "pick"
        /\ marked' = marked \cup {Parent[cur]}
    BY <1>3 DEF CallDone, Marked
  <2>2. Parent[cur] \in Call /\ Parent[cur] <= cur - 1 /\ cur - 1 > 0
    BY <1>1, <1>3, CallFacts DEF Call
  <2>3. Walking'
    BY <2>1, <2>2 DEF Walking
  <2>4. ASSUME NEW m \in Call, m > cur - 1 PROVE WalkedPast(m)'
    <3>1. m > cur \/ m = cur
      BY <1>1, <2>4 DEF Call
    <3>2. WalkedPast(m) \/ m = cur
      BY <3>1 DEF WalkSound
    <3> QED
      BY <2>1, <3>2 DEF WalkedPast
  <2>p. PICK p \in Call : p = Parent[cur]
    BY <2>2
  <2>5. MustCheck(p)' /\ p <= cur'
    BY <2>1, <2>2, <2>p DEF MustCheck
  <2>6. preserved' = Preserved(ver)'
    BY DEF WalkSound, Preserved
  <2>7. /\ \A id \in DOMAIN store' : ~ store'[id].indexed
        /\ \A k \in Call : prec'[k] = "SUMMARY" => sumID'[k] = omega'[k].sum
                                                  /\ omega'[k].prec = "SUMMARY"
    BY DEF WalkSound
  <2>8. WalkSound'
    BY <2>1, <2>2, <2>4, <2>5, <2>6, <2>7 DEF WalkSound
  <2> QED
    BY <2>3, <2>8 DEF RunSound
<1> QED
  BY <1>2, <1>3

\* The check of one summary: only the summary of cur changes.
LEMMA WalkHere ==
  ASSUME TypeOK, Walking, WalkSound, cur' = cur, task' # "main",
         phase' \in {"prepare", "answer"},
         phase' = "answer" => ~ holds' /\ prec'[cur] = "INLINE",
         UNCHANGED <<ver, preserved, marked, omega, base>>,
         Shrunk,
         \A n \in Call : \/ sumID'[n] = sumID[n] /\ prec'[n] = prec[n]
                         \/ n = cur /\ prec'[n] = "INLINE"
  PROVE  RunSound'
<1>1. Walking'
  BY DEF Walking
<1>2. ASSUME NEW n \in Call, n > cur PROVE WalkedPast(n)'
  <2>1. WalkedPast(n) /\ n # cur
    BY <1>2, CallFacts DEF WalkSound, TypeOK
  <2>2. prec'[n] = prec[n]
    BY <2>1
  <2> QED
    BY <2>1, <2>2 DEF WalkedPast
<1>3. \A id \in DOMAIN store' : ~ store'[id].indexed
  BY DEF Shrunk, WalkSound
<1>4. \A n \in Call : prec'[n] = "SUMMARY" => sumID'[n] = omega'[n].sum
                                              /\ omega'[n].prec = "SUMMARY"
  BY DEF WalkSound
<1>5. preserved' = Preserved(ver)' /\ \E n \in Call : n <= cur' /\ MustCheck(n)'
  BY DEF WalkSound, Preserved, MustCheck
<1>6. WalkSound'
  BY <1>2, <1>3, <1>4, <1>5 DEF WalkSound
<1> QED
  BY <1>1, <1>6 DEF RunSound

LEMMA WalkStep ==
  ASSUME PropControl, Typed, DiskSound, Filed, Walking, WalkSound, Quiet,
         UNCHANGED <<omega, base>>
  PROVE  RunSound'
<1>1. cur \in Call
  BY CallsAssumption DEF Typed, TypeOK, Walking, Call
<1>2. CASE Skip
  BY <1>2, SkipStep DEF Typed, DiskSound
<1>3. CASE NoSummary
  <2>1. prec[cur] = "INLINE"
    BY <1>1, <1>3 DEF NoSummary, Typed, TypeOK, CallTree, Precision
  <2> QED
    BY <1>3, <2>1, WalkOn DEF NoSummary, Typed, callTree, summaries
<1>4. CASE InvalidKept
  <2>1. prec[cur] = "INLINE"
    BY <1>4 DEF InvalidKept, Answered, WalkSound
  <2> QED
    BY <1>4, <2>1, WalkOn DEF InvalidKept, Typed, callTree, summaries
<1>5. CASE BeginFull
  <2>1. /\ phase' = "prepare" /\ task' = "full" /\ cur' = cur
        /\ UNCHANGED <<ver, preserved, sumID, prec, store, marked>>
    BY <1>5 DEF BeginFull, callTree, summaries, traversal
  <2>2. Shrunk
    BY <2>1 DEF Shrunk
  <2> QED
    BY <2>1, <2>2, WalkHere DEF Typed
<1>6. CASE Unusable
  <2>1. /\ phase' = "answer" /\ ~ holds' /\ task' = task /\ cur' = cur
        /\ UNCHANGED <<ver, preserved, marked>>
        /\ store' = Minus(store, {sumID[cur]})
    BY <1>6 DEF Unusable, traversal
  <2>2. /\ sumID' = [sumID EXCEPT ![cur] = 0]
        /\ prec' = [prec EXCEPT ![cur] = "INLINE"]
    BY <1>6 DEF Unusable, DropID
  <2>3. Shrunk
    BY <2>1, MinusShrinks
  <2>4. prec'[cur] = "INLINE" /\ \A n \in Call : n # cur => sumID'[n] = sumID[n]
                                                             /\ prec'[n] = prec[n]
    BY <1>1, <2>2 DEF Typed, TypeOK
  <2>5. task' # "main"
    BY <2>1 DEF Walking
  <2> QED
    BY <2>1, <2>3, <2>4, <2>5, WalkHere DEF Typed
<1>7. CASE Unknown
  <2>1. /\ phase' = "answer" /\ ~ holds' /\ task' = task /\ cur' = cur
        /\ UNCHANGED <<ver, preserved, marked, sumID, store>>
        /\ prec' = [prec EXCEPT ![cur] = "INLINE"]
    BY <1>7 DEF Unknown, traversal, summaries
  <2>3. Shrunk
    BY <2>1 DEF Shrunk
  <2>4. prec'[cur] = "INLINE" /\ \A n \in Call : n # cur => prec'[n] = prec[n]
    BY <1>1, <2>1 DEF Typed, TypeOK
  <2>5. task' # "main"
    BY <2>1 DEF Walking
  <2> QED
    BY <2>1, <2>3, <2>4, <2>5, WalkHere DEF Typed
<1> QED
  BY <1>2, <1>3, <1>4, <1>5, <1>6, <1>7, WalkingSteps

-----------------------------------------------------------------------------
(***************************************************************************)
(* The query of main.                                                      *)
(***************************************************************************)
\* The ids of new summaries are above those in use.
LEMMA GeneratedAbove ==
  ASSUME TypeOK, cur \in Call, NEW itp \in [Inlined(cur) -> Lang], Proved(itp)
  PROVE  /\ \A m \in New(itp) : /\ NewID(itp)[m] \in Nat
                                /\ NewID(itp)[m] >= maxID /\ NewID(itp)[m] < maxID'
         /\ maxID' \in Nat /\ maxID' >= maxID
<1>1. New(itp) \in SUBSET Call /\ maxID \in Nat \ {0}
  BY PartitionFacts DEF Inlined, New, TypeOK
<1>2. /\ NewID(itp) \in [New(itp) -> Nat \ {0}]
      /\ \A m \in New(itp) : /\ NewID(itp)[m] >= maxID
                             /\ NewID(itp)[m] < maxID + Cardinality(New(itp))
      /\ Cardinality(New(itp)) \in Nat
  BY <1>1, NumberedFacts DEF NewID
<1>3. maxID' = maxID + Cardinality(New(itp))
  BY DEF Proved, New
<1> QED
  BY <1>1, <1>2, <1>3

\* Unless the query looks for a summary that is not there, what it takes for granted
\* of an abstract call is true of the call.
LEMMA AbstractionsSound ==
  ASSUME TypeOK, AskSound, cur \in Call, phase = "solve", ~ ReadsMissing,
         NEW m \in Abstract(cur)
  PROVE  m \in Call /\ Concrete(ver)[m] \subseteq Abstraction(m)
<1>1. m \in Call
  BY PartitionFacts DEF Abstract
<1>2. Concrete(ver)[m] \subseteq asserted[m] /\ Concrete(ver)[m] \subseteq Val
  BY <1>1, ConcreteIsEnv DEF AskSound, AssertedSound, Env
<1>3. ASSUME prec[m] = "SUMMARY" PROVE Concrete(ver)[m] \subseteq Models(SummaryOf(m))
  <2>1. Has(store, sumID[m])
    BY <1>3 DEF ReadsMissing, Summarized, Fits
  <2> QED
    BY <1>1, <1>3, <2>1 DEF AskSound, LiveSound
<1> QED
  BY <1>1, <1>2, <1>3 DEF Abstraction

LEMMA RefineSound ==
  ASSUME Typed, ~ Walking, AskSound, ~ ReadsMissing,
         NEW U \in SUBSET Abstract(cur), Refine(U)
  PROVE  RunSound'
<1>1. /\ phase = "solve" /\ phase' = "solve" /\ task' = task /\ cur' = cur /\ ver' = ver
      /\ validated' = validated
  BY DEF Refine, traversal
<1>2. cur \in Call /\ cur # 0
  BY <1>1, CallFacts, CallsAssumption DEF Typed, Control, Call
<1>3. U \subseteq Call
  BY <1>2, PartitionFacts DEF Abstract
<1>4. LiveSound'
  <2> DEFINE ids == {sumID[m] : m \in {k \in U : sumID[k] # 0}}
  <2>1. /\ store' = Minus(store, ids)
        /\ sumID' = [m \in Call |-> IF m \in U THEN 0 ELSE sumID[m]]
    BY DEF Refine
  <2>2. \A k \in DOMAIN store' : k \in DOMAIN store /\ store'[k] = store[k]
    <3> HIDE DEF ids
    <3> QED
      BY <2>1, MinusShrinks DEF Shrunk
  <2>3. ASSUME NEW n \in Call, prec'[n] = "SUMMARY"
        PROVE  n \notin U /\ prec[n] = "SUMMARY" /\ sumID'[n] = sumID[n]
    <3>1. n \notin U /\ prec'[n] = prec[n]
      BY <2>3 DEF Refine
    <3> QED
      BY <2>1, <2>3, <3>1
  <2> QED
    BY <1>1, <2>2, <2>3 DEF AskSound, LiveSound, Has, SummaryOf
<1>5. AssertedSound'
  <2>1. asserted' = [m \in Call |->
                       IF m \in Summarized(cur) THEN Abstraction(m) ELSE asserted[m]]
    BY DEF Refine
  <2>2. ASSUME NEW m \in Summarized(cur) PROVE Concrete(ver)[m] \subseteq Abstraction(m)
    <3>1. m \in Abstract(cur)
      BY DEF Summarized
    <3> QED
      BY <1>1, <1>2, <3>1, AbstractionsSound DEF Typed
  <2>3. \A m \in Call : Concrete(ver)[m] \subseteq asserted[m]
    BY DEF AskSound, AssertedSound
  <2>4. \A m \in Call : Concrete(ver)[m] \subseteq asserted'[m]
    BY <2>1, <2>2, <2>3
  <2> QED
    BY <1>1, <2>4 DEF AssertedSound
<1>6. AskSound' /\ ~ Walking'
  BY <1>1, <1>2, <1>4, <1>5 DEF AskSound, Walking
<1> QED
  BY <1>6 DEF RunSound

LEMMA AskStep ==
  ASSUME PropControl, Typed, ~ Walking, AskSound, ~ ReadsMissing, Quiet
  PROVE  RunSound'
<1>1. CASE AssertionsAnswered
  <2>1. /\ validated' = holds /\ cur' = cur - 1 /\ task = "main" /\ phase = "answer"
        /\ task' = "none" /\ phase' = "pick"
        /\ UNCHANGED <<ver, sumID, prec, store, asserted>>
    BY <1>1 DEF AssertionsAnswered, callTree, summaries
  <2>2. cur' = 0
    BY <2>1 DEF Typed, Control, Main
  <2>3. LiveSound' /\ AssertedSound'
    BY <2>1 DEF AskSound, LiveSound, AssertedSound, Has, SummaryOf
  <2>4. validated' <=> IsSafe(ver)'
    BY <2>1 DEF AskSound
  <2> QED
    BY <2>1, <2>2, <2>3, <2>4 DEF RunSound, AskSound, Walking
<1>2. CASE Refuted
  <2>1. /\ phase = "solve" /\ phase' = "answer" /\ ~ holds' /\ task' = task /\ cur' = cur
        /\ UNCHANGED <<ver, sumID, prec, store, asserted, validated>>
        /\ Counterexample({})
    BY <1>2 DEF Refuted, callTree, summaries, traversal
  <2>2. cur \in Call /\ cur > 0
    BY <2>1, CallsAssumption DEF Typed, Control, Call
  <2>3. task = "main" /\ cur = Main
    BY <2>2 DEF Walking, Typed, Control
  <2>4. ~ IsSafe(ver)
    BY <2>1, <2>3, RefutedUnsafe DEF Typed, TypeOK
  <2>5. ~ IsSafe(ver)'
    BY <2>1, <2>4
  <2>6. LiveSound' /\ AssertedSound'
    BY <2>1 DEF AskSound, LiveSound, AssertedSound, Has, SummaryOf
  <2> QED
    BY <2>1, <2>2, <2>3, <2>5, <2>6 DEF RunSound, AskSound, Walking
<1>3. ASSUME NEW U \in SUBSET Abstract(cur), Refine(U) PROVE RunSound'
  BY <1>3, RefineSound
<1> QED
  BY <1>1, <1>2, <1>3, AskingSteps DEF Typed

\* A proof of main: the assertions hold, and the new summaries are sound.
LEMMA ProvedSound ==
  ASSUME Typed, RunSound, ~ ReadsMissing,
         NEW itp \in [Inlined(cur) -> Lang], Proved(itp)
  PROVE  RunSound'
<1>1. /\ phase = "solve" /\ phase' = "answer" /\ holds' = TRUE /\ task' = task /\ cur' = cur
      /\ UNCHANGED <<ver, asserted>>
  BY DEF Proved, traversal
<1>2. cur \in Call /\ cur # 0 /\ cur > 0
  BY <1>1, CallFacts, CallsAssumption DEF Typed, Control, Call
<1>3. ~ Walking /\ AskSound
  BY <1>1 DEF RunSound, WalkSound
<1>4. task = "main" /\ cur = Main
  BY <1>2, <1>3 DEF Walking, Typed, Control
<1>5. \A m \in Abstract(cur) : Concrete(ver)[m] \subseteq Abstraction(m)
  BY <1>1, <1>2, <1>3, AbstractionsSound DEF Typed
<1>6. ver \in Versions /\ asserted \in Env
  BY DEF Typed, TypeOK
<1>7. \A m \in Call : Concrete(ver)[m] \subseteq asserted[m]
  BY <1>3 DEF AskSound, AssertedSound
<1>8. /\ \A m \in Inlined(cur) : Concrete(ver)[m] \subseteq Models(itp[m])
      /\ Concrete(ver)[cur] \subseteq Goal
  BY <1>2, <1>5, <1>6, <1>7, ProofSound
<1>9. IsSafe(ver)
  BY <1>4, <1>8 DEF IsSafe, Goal
<1>10. IsSafe(ver)' /\ AssertedSound'
  BY <1>1, <1>3, <1>9 DEF AskSound, AssertedSound
<1>11. LiveSound'
  <2> SUFFICES ASSUME NEW n \in Call, prec'[n] = "SUMMARY", Has(store, sumID[n])'
               PROVE  Concrete(ver)[n] \subseteq Models(SummaryOf(n)')
    BY <1>1 DEF LiveSound
  <2>1. /\ New(itp) \subseteq Inlined(cur)
        /\ DOMAIN store' = DOMAIN store \cup {NewID(itp)[m] : m \in New(itp)}
        /\ \A k \in DOMAIN store : store'[k] = store[k]
        /\ \A m \in New(itp) : store'[NewID(itp)[m]]
                                 = [fn |-> FnOf[m], fla |-> itp[m], indexed |-> TRUE]
        /\ sumID' = [m \in Call |-> IF m \in New(itp) THEN NewID(itp)[m] ELSE sumID[m]]
        /\ prec'  = [m \in Call |-> IF m \in New(itp) THEN "SUMMARY" ELSE prec[m]]
        /\ \A m \in New(itp) : NewID(itp)[m] >= maxID
    BY <1>2, Generated, GeneratedAbove DEF Typed
  <2>2. CASE n \in New(itp)
    <3>1. sumID'[n] = NewID(itp)[n]
      BY <2>1, <2>2
    <3>2. store'[sumID'[n]] = [fn |-> FnOf[n], fla |-> itp[n], indexed |-> TRUE]
      BY <2>1, <2>2, <3>1
    <3>3. SummaryOf(n)' = itp[n]
      BY <3>2 DEF SummaryOf
    <3> QED
      BY <1>8, <2>1, <2>2, <3>3
  <2>3. CASE n \notin New(itp)
    <3>1. sumID'[n] = sumID[n] /\ prec[n] = "SUMMARY"
      BY <2>1, <2>3
    <3>2. sumID[n] \in DOMAIN store
      <4>1. sumID[n] \in Nat /\ sumID[n] < maxID /\ maxID \in Nat
        BY DEF Typed, TypeOK, CallTree
      <4>2. \A m \in New(itp) : NewID(itp)[m] # sumID[n]
        BY <2>1, <4>1, Generated, <1>2 DEF Typed
      <4> QED
        BY <2>1, <3>1, <4>2 DEF Has
    <3>3. SummaryOf(n)' = SummaryOf(n)
      BY <2>1, <3>1, <3>2 DEF SummaryOf
    <3> QED
      BY <1>3, <3>1, <3>2, <3>3 DEF AskSound, LiveSound, Has
  <2> QED
    BY <2>2, <2>3
<1> QED
  BY <1>1, <1>2, <1>4, <1>10, <1>11 DEF RunSound, AskSound, Walking

-----------------------------------------------------------------------------
(***************************************************************************)
(* Types, and the call tree.                                               *)
(***************************************************************************)
LEMMA TypedStep ==
  ASSUME PropControl, Typed, [Next]_vars, CallTree'
  PROVE  Typed'
<1>1. TypeOK'
  BY TypeStep DEF Typed, PropControl
<1>2. Control'
  BY ControlStep DEF Typed, CallTree
<1> QED
  BY <1>1, <1>2 DEF Typed

\* A call only loses its summary, or goes from SUMMARY to INLINE.
Lowered ==
  /\ maxID' = maxID
  /\ \A n \in Call : \/ sumID'[n] = sumID[n] /\ prec'[n] = prec[n]
                     \/ sumID'[n] \in {0, sumID[n]} /\ prec'[n] = "INLINE"

LEMMA LoweredTree ==
  ASSUME TypeOK, CallTree, Lowered
  PROVE  CallTree'
<1>1. Main \in Call
  BY CallFacts
<1>2. ASSUME NEW n \in Call
      PROVE  /\ sumID'[n] < maxID' /\ prec'[n] # "HAVOC"
             /\ prec'[n] = "SUMMARY" => sumID'[n] # 0
  BY DEF TypeOK, CallTree, Lowered
<1>3. sumID'[Main] = 0 /\ prec'[Main] = "INLINE"
  BY <1>1 DEF CallTree, Lowered
<1> QED
  BY <1>2, <1>3 DEF CallTree

LEMMA QuietTree ==
  ASSUME PropControl, Typed, RunSound, Quiet
  PROVE  CallTree'
<1>1. CASE UNCHANGED callTree /\ UNCHANGED summaries
  BY <1>1, LoweredTree DEF Typed, callTree, summaries, Lowered
<1>2. CASE Unusable \/ Unknown
  <2>1. cur \in Call /\ maxID' = maxID
    BY <1>2 DEF Unusable, Unknown, Typed, Control, summaries
  <2>2. \/ sumID' = [sumID EXCEPT ![cur] = 0] /\ prec' = [prec EXCEPT ![cur] = "INLINE"]
        \/ sumID' = sumID /\ prec' = [prec EXCEPT ![cur] = "INLINE"]
    BY <1>2 DEF Unusable, Unknown, DropID
  <2>3. Lowered
    BY <2>1, <2>2 DEF Lowered, Typed, TypeOK
  <2> QED
    BY <2>3, LoweredTree DEF Typed
<1>3. ASSUME NEW U \in SUBSET Abstract(cur), Refine(U) PROVE CallTree'
  <2>1. \A n \in Call : \/ sumID'[n] = sumID[n] /\ prec'[n] = prec[n]
                        \/ sumID'[n] \in {0, sumID[n]} /\ prec'[n] = "INLINE"
    BY <1>3 DEF Refine
  <2>2. maxID' = maxID
    BY <1>3 DEF Refine
  <2>3. Lowered
    BY <2>1, <2>2 DEF Lowered
  <2> QED
    BY <2>3, LoweredTree DEF Typed
<1>4. CASE Skip \/ NoSummary \/ BeginFull \/ InvalidKept \/ AssertionsAnswered \/ Refuted
  BY <1>1, <1>4 DEF Skip, NoSummary, BeginFull, InvalidKept, AssertionsAnswered, Refuted
<1>5. CASE Walking
  BY <1>2, <1>4, <1>5, WalkingSteps DEF RunSound
<1>6. CASE ~ Walking
  BY <1>3, <1>4, <1>6, AskingSteps DEF Typed
<1> QED
  BY <1>5, <1>6

LEMMA ProvedTree ==
  ASSUME Typed, NEW itp \in [Inlined(cur) -> Lang], Proved(itp)
  PROVE  CallTree'
<1>1. cur \in Call
  BY DEF Proved, Typed, Control
<1>2. /\ \A m \in New(itp) : /\ NewID(itp)[m] \in Nat
                             /\ NewID(itp)[m] >= maxID /\ NewID(itp)[m] < maxID'
      /\ maxID' \in Nat /\ maxID' >= maxID
  BY <1>1, GeneratedAbove DEF Typed
<1>3. /\ \A m \in New(itp) : m > cur /\ NewID(itp)[m] # 0
      /\ sumID' = [m \in Call |-> IF m \in New(itp) THEN NewID(itp)[m] ELSE sumID[m]]
      /\ prec'  = [m \in Call |-> IF m \in New(itp) THEN "SUMMARY" ELSE prec[m]]
  BY <1>1, Generated DEF Typed
<1>4. Main \in Call /\ Main \notin New(itp)
  BY <1>1, <1>3, CallFacts DEF Main, Call
<1>5. \A n \in Call : /\ sumID'[n] < maxID' /\ prec'[n] # "HAVOC"
                      /\ prec'[n] = "SUMMARY" => sumID'[n] # 0
  BY <1>2, <1>3 DEF Typed, TypeOK, CallTree
<1>6. sumID'[Main] = 0 /\ prec'[Main] = "INLINE"
  BY <1>3, <1>4 DEF Typed, CallTree
<1> QED
  BY <1>5, <1>6 DEF CallTree

-----------------------------------------------------------------------------
(***************************************************************************)
(* The steps of UpgradeCycle.                                              *)
(***************************************************************************)
LEMMA DiskKept ==
  ASSUME DiskSound, UNCHANGED <<omega, base, told, file>>
  PROVE  DiskSound'
<1>1. OmegaTyped'
  BY DEF DiskSound, OmegaTyped
<1>2. OmegaSound' /\ FileTyped'
  BY DEF DiskSound, OmegaSound, FileTyped
<1> QED
  BY <1>1, <1>2 DEF DiskSound

\* What is said of the process, not of the files, only depends on its variables, and
\* on the files only until main is asked.
LEMMA VarsKept ==
  ASSUME Typed, RunSound, UNCHANGED vars, UNCHANGED <<omega, base>>
  PROVE  Typed' /\ RunSound'
<1>1. UNCHANGED <<ver, preserved, sumID, prec, store, maxID, marked, cur, validated, repaired,
                  phase, task, holds, asserted, houdini>>
  BY DEF vars, callTree, summaries, traversal, query
<1>2. TypeOK' /\ Control' /\ CallTree'
  BY <1>1 DEF Typed, TypeOK, Control, CallTree
<1>3. Walking => WalkSound'
  <2>1. \A n \in Call : WalkedPast(n)' <=> WalkedPast(n)
    BY <1>1 DEF WalkedPast
  <2> QED
    BY <1>1, <2>1 DEF RunSound, WalkSound, Preserved, MustCheck
<1>4. ~ Walking => AskSound'
  <2>1. LiveSound <=> LiveSound'
    BY <1>1 DEF LiveSound, Has, SummaryOf
  <2>2. AssertedSound <=> AssertedSound'
    BY <1>1 DEF AssertedSound
  <2>3. IsSafe(ver)' <=> IsSafe(ver)
    BY <1>1
  <2> QED
    BY <1>1, <2>1, <2>2, <2>3 DEF RunSound, AskSound
<1>5. Walking' <=> Walking
  BY <1>1 DEF Walking
<1> QED
  BY <1>2, <1>3, <1>4, <1>5 DEF Typed, RunSound

LEMMA SerializedTyped ==
  ASSUME TypeOK, NEW id \in DOMAIN store
  PROVE  /\ Serialized(store, maxID).sums[id].fn \in Fn
         /\ Serialized(store, maxID).sums[id].fla \in Formula
<1>1. store[id].fn \in Fn /\ store[id].fla \in Formula
  BY DEF TypeOK, StoredSummary
<1>2. Serialized(store, maxID).sums[id] = [fn |-> store[id].fn, fla |-> store[id].fla]
  BY SerializedFacts
<1> QED
  BY <1>1, <1>2

LEMMA StepKeeps ==
  ASSUME CycleInv, SoundInv, Step
  PROVE  SoundInv'
<1>1. Quiet /\ ~ ReadsMissing /\ UNCHANGED <<omega, base, told, file>>
  BY DEF Step, disk, history
<1>2. PropControl /\ Filed /\ Typed /\ DiskSound /\ RunSound
  BY DEF CycleInv, SoundInv
<1>3. Typed'
  BY <1>1, <1>2, QuietTree, TypedStep, StepIsNext
<1>4. DiskSound'
  BY <1>1, <1>2, DiskKept
<1>5. RunSound'
  <2>1. CASE Walking
    BY <1>1, <1>2, <2>1, WalkStep DEF RunSound
  <2>2. CASE ~ Walking
    BY <1>1, <1>2, <2>2, AskStep DEF RunSound
  <2> QED
    BY <2>1, <2>2
<1> QED
  BY <1>3, <1>4, <1>5 DEF SoundInv

LEMMA InterpolateKeeps ==
  ASSUME CycleInv, SoundInv, Interpolate
  PROVE  SoundInv'
<1>1. ~ ReadsMissing /\ UNCHANGED <<omega, base, told>> /\ file' = Serialized(store', maxID')
  BY DEF Interpolate, history
<1>2. PropControl /\ Typed /\ DiskSound /\ RunSound
  BY DEF CycleInv, SoundInv
<1>3. PICK itp \in [Inlined(cur) -> Lang] : Proved(itp)
  BY DEF Interpolate
<1>4. Typed'
  BY <1>2, <1>3, ProvedTree, TypedStep, StepIsNext
<1>5. RunSound'
  BY <1>1, <1>2, <1>3, ProvedSound
<1>6. FileTyped'
  <2>1. \A id \in DOMAIN store' : /\ Serialized(store', maxID').sums[id].fn \in Fn
                                  /\ Serialized(store', maxID').sums[id].fla \in Formula
    <3>1. \A id \in DOMAIN store' : store'[id].fn \in Fn /\ store'[id].fla \in Formula
      BY <1>4 DEF Typed, TypeOK, StoredSummary
    <3>2. \A id \in DOMAIN store' :
            Serialized(store', maxID').sums[id]
              = [fn |-> store'[id].fn, fla |-> store'[id].fla]
      BY SerializedFacts
    <3> SUFFICES ASSUME NEW id \in DOMAIN store'
                 PROVE  /\ Serialized(store', maxID').sums[id].fn \in Fn
                        /\ Serialized(store', maxID').sums[id].fla \in Formula
      OBVIOUS
    <3>3. Serialized(store', maxID').sums[id]
            = [fn |-> store'[id].fn, fla |-> store'[id].fla]
      BY <3>2
    <3> QED
      BY <3>1, <3>3
  <2>2. DOMAIN file'.sums = DOMAIN store'
    BY <1>1, SerializedFacts
  <2> QED
    BY <1>1, <2>1, <2>2 DEF FileTyped
<1>7. OmegaTyped' /\ OmegaSound'
  BY <1>1, <1>2 DEF DiskSound, OmegaTyped, OmegaSound
<1> QED
  BY <1>4, <1>5, <1>6, <1>7 DEF SoundInv, DiskSound

LEMMA SaveKeeps ==
  ASSUME SoundInv, SaveSummaries
  PROVE  SoundInv'
<1>1. UNCHANGED vars /\ UNCHANGED <<omega, base, told>> /\ file' = Serialized(store, maxID)
  BY DEF SaveSummaries, history
<1>2. Typed' /\ RunSound'
  BY <1>1, VarsKept DEF SoundInv
<1>3. FileTyped'
  BY <1>1, SerializedFacts, SerializedTyped DEF FileTyped, SoundInv, Typed
<1>4. OmegaTyped' /\ OmegaSound'
  BY <1>1 DEF SoundInv, DiskSound, OmegaTyped, OmegaSound
<1> QED
  BY <1>2, <1>3, <1>4 DEF SoundInv, DiskSound

\* A verdict. Of a revision that is validated, the summaries __omega now refers to
\* over-approximate the calls.
LEMMA VerdictKeeps ==
  ASSUME CycleInv, SoundInv, Validated \/ Failed
  PROVE  SoundInv'
<1>1. /\ phase = "pick" /\ cur = 0 /\ phase' = "done" /\ task' = task /\ cur' = 0
      /\ UNCHANGED <<ver, sumID, prec, store, maxID, validated, asserted, file>>
      /\ Conclude
  BY DEF Validated, Failed, Conclude, disk, callTree, summaries, traversal
<1>2. PropControl /\ Typed /\ DiskSound /\ RunSound
  BY DEF CycleInv, SoundInv
<1>3. ~ Walking /\ AskSound /\ ~ Walking'
  BY <1>1, <1>2 DEF RunSound, Walking
<1>4. Typed'
  <2>1. CallTree'
    BY <1>1, <1>2 DEF Typed, CallTree
  <2> QED
    BY <1>1, <1>2, <2>1, TypedStep, StepIsNext
<1>5. RunSound'
  <2>1. LiveSound' /\ AssertedSound'
    BY <1>1, <1>3 DEF AskSound, LiveSound, AssertedSound, Has, SummaryOf
  <2>2. validated' <=> IsSafe(ver)'
    BY <1>1, <1>3 DEF AskSound
  <2> QED
    BY <1>1, <1>3, <2>1, <2>2 DEF RunSound, AskSound
<1>6. CASE Failed
  <2>1. UNCHANGED <<omega, base, told, file>>
    BY <1>6 DEF Failed, disk, history
  <2> QED
    BY <1>2, <1>4, <1>5, <2>1, DiskKept DEF SoundInv
<1>7. CASE Validated
  <2>1. omega' = Omega /\ base' = ver /\ told' = Serialized(store, maxID)
    BY <1>7 DEF Validated
  <2>2. ASSUME NEW n \in Call
        PROVE  omega'[n].sum = sumID[n] /\ omega'[n].prec = prec[n]
    <3>1. omega'[n] = [sum |-> sumID[n], prec |-> prec[n]]
      BY <2>1 DEF Omega
    <3> QED
      BY <3>1
  <2>3. told'.max = maxID /\ DOMAIN told'.sums = DOMAIN store
    BY <2>1, SerializedFacts
  <2>4. ASSUME NEW id \in DOMAIN store PROVE told'.sums[id].fla = store[id].fla
    <3>1. told'.sums[id] = [fn |-> store[id].fn, fla |-> store[id].fla]
      BY <2>1, SerializedFacts
    <3> QED
      BY <3>1
  <2>5. OmegaTyped'
    <3>1. \A n \in Call : sumID[n] \in Nat /\ prec[n] \in {"SUMMARY", "INLINE"}
      BY <1>2 DEF Typed, TypeOK, CallTree, Precision
    <3>2. omega' \in [Call -> [sum : Nat, prec : {"SUMMARY", "INLINE"}]]
      BY <2>1, <3>1 DEF Omega
    <3>3. base' \in Versions
      BY <1>2, <2>1 DEF Typed, TypeOK
    <3>4. omega'[Main] = [sum |-> 0, prec |-> "INLINE"]
      BY <1>2, <2>1, CallFacts DEF Typed, CallTree, Omega
    <3>6. \A n \in Call : /\ omega'[n].sum < told'.max
                          /\ omega'[n].prec = "SUMMARY" => omega'[n].sum # 0
      BY <1>2, <2>2, <2>3 DEF Typed, CallTree
    <3> QED
      BY <3>2, <3>3, <3>4, <3>6 DEF OmegaTyped
  <2>6. OmegaSound'
    <3>2. ASSUME NEW n \in Call, omega'[n].prec = "SUMMARY",
                 omega'[n].sum \in DOMAIN told'.sums
          PROVE  Concrete(base')[n] \subseteq Models(told'.sums[omega'[n].sum].fla)
      <4>1. prec[n] = "SUMMARY" /\ Has(store, sumID[n])
        BY <2>2, <2>3, <3>2 DEF Has
      <4>2. Concrete(ver)[n] \subseteq Models(SummaryOf(n))
        BY <1>3, <4>1 DEF AskSound, LiveSound
      <4>3. told'.sums[omega'[n].sum].fla = SummaryOf(n)
        BY <2>2, <2>4, <4>1 DEF Has, SummaryOf
      <4> QED
        BY <2>1, <4>2, <4>3
    <3> QED
      BY <3>2 DEF OmegaSound
  <2>7. FileTyped'
    BY <1>1, <1>2 DEF DiskSound, FileTyped
  <2> QED
    BY <1>4, <1>5, <2>5, <2>6, <2>7 DEF SoundInv, DiskSound
<1> QED
  BY <1>6, <1>7

\* A new process: the call tree is that of __omega, and no summary can be validated.
LEMMA SubmitKeeps ==
  ASSUME Logic = "prop", CycleInv, SoundInv, NEW w \in Versions, Submit(w)
  PROVE  SoundInv'
<1>1. /\ ver' = w /\ preserved' = Preserved(w) /\ Preserved(w) # Call
      /\ sumID' = [n \in Call |-> omega[n].sum] /\ prec' = [n \in Call |-> omega[n].prec]
      /\ store' = Read(file) /\ maxID' = NextID(file)
      /\ marked' = {} /\ repaired' = {} /\ cur' = NumCalls /\ validated' = FALSE
      /\ phase' = "pick" /\ task' = "none" /\ holds' = FALSE
      /\ asserted' = NotAsserted /\ houdini' = NoRepair
      /\ UNCHANGED <<omega, base, told, file>>
  BY DEF Submit, disk
<1>2. Filed /\ IDs /\ DiskSound
  BY DEF CycleInv, SoundInv
<1>3. /\ maxID' = file.max /\ DOMAIN store' = DOMAIN file.sums
      /\ \A id \in DOMAIN file.sums :
           store'[id] = [fn |-> file.sums[id].fn, fla |-> file.sums[id].fla,
                         indexed |-> FALSE]
      /\ store' = [id \in DOMAIN store' |-> store'[id]]
  BY <1>1 DEF NextID, Read, ReadIDs, WrittenAs, Deserialized
<1>4. file.max = maxID /\ maxID \in Nat \ {0} /\ DOMAIN file.sums \subseteq 1 .. (maxID - 1)
      /\ told.max \in Nat /\ told.max <= maxID
  BY <1>2 DEF Filed, IDs
<1>5. \A n \in Call : /\ sumID'[n] = omega[n].sum /\ prec'[n] = omega[n].prec
                      /\ omega[n].sum \in Nat /\ omega[n].prec \in {"SUMMARY", "INLINE"}
                      /\ omega[n].sum < told.max
                      /\ omega[n].prec = "SUMMARY" => omega[n].sum # 0
  BY <1>1, <1>2 DEF DiskSound, OmegaTyped
<1>6. Call = 1 .. NumCalls /\ NumCalls \in Nat \ {0} /\ Main \in Call
  BY CallsAssumption DEF Call, Main
<1>7. TypeOK'
  <2>1. ASSUME NEW id \in DOMAIN store' PROVE store'[id] \in StoredSummary
    <3>1. store'[id] = [fn |-> file.sums[id].fn, fla |-> file.sums[id].fla, indexed |-> FALSE]
      BY <1>3
    <3>2. file.sums[id].fn \in Fn /\ file.sums[id].fla \in Formula
      BY <1>2, <1>3 DEF DiskSound, FileTyped
    <3> QED
      BY <3>1, <3>2 DEF StoredSummary
  <2>2. store' \in [DOMAIN store' -> StoredSummary]
    BY <1>3, <2>1
  <2>3. sumID' \in [Call -> Nat] /\ prec' \in [Call -> Precision]
    BY <1>1, <1>5 DEF Precision
  <2>4. maxID' \in Nat \ {0} /\ DOMAIN store' \subseteq 1 .. (maxID' - 1)
    BY <1>3, <1>4
  <2>5. asserted' \in Env /\ preserved' \subseteq Call
    BY <1>1 DEF NotAsserted, Env, Preserved
  <2>6. houdini' \in Repair
    BY <1>1, NoRepairType
  <2>7. /\ ver' \in Versions /\ marked' \subseteq Call /\ repaired' \subseteq Fn
        /\ cur' \in 0 .. NumCalls
    BY <1>1, <1>6
  <2>8. /\ validated' \in BOOLEAN /\ phase' \in Phase
        /\ task' \in Task /\ holds' \in BOOLEAN
    BY <1>1 DEF Phase, Task
  <2> QED
    BY <2>2, <2>3, <2>4, <2>5, <2>6, <2>7, <2>8 DEF TypeOK
<1>8. Control'
  BY <1>1 DEF Control, Own
<1>9. CallTree'
  <2>1. sumID'[Main] = 0 /\ prec'[Main] = "INLINE"
    <3>1. omega[Main] = [sum |-> 0, prec |-> "INLINE"]
      BY <1>2 DEF DiskSound, OmegaTyped
    <3> QED
      BY <1>5, <1>6, <3>1
  <2>2. \A n \in Call : /\ sumID'[n] < maxID' /\ prec'[n] # "HAVOC"
                        /\ prec'[n] = "SUMMARY" => sumID'[n] # 0
    BY <1>3, <1>4, <1>5
  <2> QED
    BY <2>1, <2>2 DEF CallTree
<1>10. Walking'
  BY <1>1, <1>6 DEF Walking
<1>11. WalkSound'
  <2>1. \A n \in Call : n <= cur' /\ ~ (n > cur')
    BY <1>1, <1>6
  <2>2. PICK m \in Call : m \notin preserved'
    BY <1>1 DEF Preserved
  <2>3. m <= cur' /\ MustCheck(m)'
    BY <2>1, <2>2 DEF MustCheck
  <2>4. preserved' = Preserved(ver)'
    BY <1>1 DEF Preserved
  <2>5. ASSUME NEW id \in DOMAIN store' PROVE ~ store'[id].indexed
    <3>1. store'[id] = [fn |-> file.sums[id].fn, fla |-> file.sums[id].fla, indexed |-> FALSE]
      BY <1>3
    <3> QED
      BY <3>1
  <2> QED
    BY <1>1, <1>5, <2>1, <2>3, <2>4, <2>5 DEF WalkSound
<1>12. DiskSound'
  BY <1>1, <1>2, DiskKept
<1> QED
  BY <1>7, <1>8, <1>9, <1>10, <1>11, <1>12 DEF SoundInv, Typed, RunSound

LEMMA SoundNext ==
  ASSUME Logic = "prop", CycleInv, SoundInv, [CycleNext]_cycleVars
  PROVE  SoundInv'
<1>1. CASE UNCHANGED vars /\ UNCHANGED <<omega, base, told, file>>
  BY <1>1, VarsKept, DiskKept DEF SoundInv
<1>2. CASE Step
  BY <1>2, StepKeeps
<1>3. CASE Interpolate
  BY <1>3, InterpolateKeeps
<1>4. CASE Validated \/ Failed
  BY <1>4, VerdictKeeps
<1>5. CASE SaveSummaries
  BY <1>5, SaveKeeps
<1>6. CASE Die \/ Kill \/ KillSaving \/ UNCHANGED cycleVars
  BY <1>1, <1>6 DEF Die, Kill, KillSaving, cycleVars, disk, history
<1>7. ASSUME NEW w \in Versions, Submit(w) PROVE SoundInv'
  BY <1>7, SubmitKeeps
<1> QED
  BY <1>2, <1>3, <1>4, <1>5, <1>6, <1>7 DEF CycleNext, Advance

-----------------------------------------------------------------------------
(***************************************************************************)
(* The first files, those of the bootstrapping.                            *)
(***************************************************************************)
LEMMA CycleInitTyped ==
  ASSUME CycleInit
  PROVE  Typed
<1>a. PICK S \in SUBSET (Call \ {Main}) : \E fla \in [S -> {f \in Lang : ~ Trivial(f)}] :
        /\ sumID = [n \in Call |-> IF n \in S THEN Numbered(S, 1)[n] ELSE 0]
        /\ maxID = Cardinality(S) + 1
        /\ store = PlusAll(<< >>, Numbered(S, 1), fla, TRUE)
        /\ prec = [n \in Call |-> IF n \in S THEN "SUMMARY" ELSE "INLINE"]
  BY DEF CycleInit
<1>0. PICK fla \in [S -> {f \in Lang : ~ Trivial(f)}] :
        /\ sumID = [n \in Call |-> IF n \in S THEN Numbered(S, 1)[n] ELSE 0]
        /\ maxID = Cardinality(S) + 1
        /\ store = PlusAll(<< >>, Numbered(S, 1), fla, TRUE)
        /\ prec = [n \in Call |-> IF n \in S THEN "SUMMARY" ELSE "INLINE"]
  BY <1>a
<1> DEFINE id == Numbered(S, 1)
           yes == TRUE
<1>1. /\ id \in [S -> Nat \ {0}]
      /\ \A n \in S : id[n] >= 1 /\ id[n] < 1 + Cardinality(S)
      /\ \A m, n \in S : id[m] = id[n] => m = n
      /\ Cardinality(S) \in Nat
  <2>1. S \in SUBSET Call /\ 1 \in Nat \ {0}
    OBVIOUS
  <2> QED
    BY <2>1, NumberedFacts
<1>2. /\ sumID = [n \in Call |-> IF n \in S THEN id[n] ELSE 0]
      /\ store = PlusAll(<< >>, id, fla, yes)
  BY <1>0
<1> HIDE DEF id, yes
<1>3. /\ DOMAIN id = S /\ DOMAIN << >> = {}
      /\ \A n \in DOMAIN id : id[n] \notin DOMAIN << >>
      /\ \A m, n \in DOMAIN id : id[m] = id[n] => m = n
  BY <1>1
<1>4. \A k : k \in DOMAIN PlusAll(<< >>, id, fla, yes)
                <=> k \in DOMAIN << >> \/ \E m \in DOMAIN id : k = id[m]
  BY ONLY <1>3, PlusAllFacts
<1>5. \A m \in DOMAIN id :
        PlusAll(<< >>, id, fla, yes)[id[m]] = [fn |-> FnOf[m], fla |-> fla[m], indexed |-> yes]
  BY <1>3, PlusAllFacts
<1>6. /\ \A k : k \in DOMAIN store <=> \E m \in S : k = id[m]
      /\ \A m \in S : store[id[m]] = [fn |-> FnOf[m], fla |-> fla[m], indexed |-> yes]
  BY <1>2, <1>3, <1>4, <1>5
<1>7. TypeOK
  <2>1. \A m \in S : [fn |-> FnOf[m], fla |-> fla[m], indexed |-> yes] \in StoredSummary
    BY FnAssumption, LangAssumption DEF StoredSummary, yes
  <2>2. ASSUME NEW k \in DOMAIN store PROVE store[k] \in StoredSummary
    <3>1. PICK m \in S : k = id[m]
      BY <1>6
    <3>2. store[k] = [fn |-> FnOf[m], fla |-> fla[m], indexed |-> yes]
      BY <1>6, <3>1
    <3> QED
      BY <2>1, <3>2
  <2>3. store = [k \in DOMAIN store |-> store[k]]
    BY <1>2 DEF PlusAll
  <2>4. store \in [DOMAIN store -> StoredSummary]
    BY <2>2, <2>3
  <2>5. maxID \in Nat \ {0} /\ DOMAIN store \subseteq 1 .. (maxID - 1)
    <3>1. maxID = Cardinality(S) + 1
      BY <1>0
    <3>2. \A m \in S : id[m] \in 1 .. Cardinality(S)
      BY <1>1
    <3> QED
      BY <1>1, <1>6, <3>1, <3>2
  <2>6. sumID \in [Call -> Nat] /\ prec \in [Call -> Precision]
    BY <1>0, <1>1, <1>2 DEF Precision
  <2>7. asserted \in Env
    BY DEF CycleInit, NotAsserted, Env
  <2>8. cur \in 0 .. NumCalls
    BY CallsAssumption DEF CycleInit
  <2>9. /\ ver \in Versions /\ preserved \subseteq Call
        /\ marked \subseteq Call /\ repaired \subseteq Fn /\ validated \in BOOLEAN
        /\ phase \in Phase /\ task \in Task /\ holds \in BOOLEAN
    BY DEF CycleInit, Phase, Task
  <2>10. houdini \in Repair
    BY NoRepairType DEF CycleInit
  <2> QED
    BY <2>4, <2>5, <2>6, <2>7, <2>8, <2>9, <2>10 DEF TypeOK
<1>8. Control
  BY DEF CycleInit, Control, Own
<1>9. CallTree
  <2>1. Main \in Call /\ Main \notin S
    BY CallFacts
  <2>2. sumID[Main] = 0 /\ prec[Main] = "INLINE"
    BY <1>0, <1>2, <2>1
  <2>3. ASSUME NEW n \in Call
        PROVE  /\ sumID[n] < maxID /\ prec[n] # "HAVOC"
               /\ prec[n] = "SUMMARY" => sumID[n] # 0
    <3>1. maxID = Cardinality(S) + 1
      BY <1>0
    <3>2. CASE n \in S
      BY <1>0, <1>1, <1>2, <3>1, <3>2
    <3>3. CASE n \notin S
      BY <1>0, <1>1, <1>2, <3>1, <3>3
    <3> QED
      BY <3>2, <3>3
  <2> QED
    BY <2>2, <2>3 DEF CallTree
<1> QED
  BY <1>7, <1>8, <1>9 DEF Typed

LEMMA SoundInit ==
  ASSUME CycleInit
  PROVE  SoundInv
<1>1. Typed
  BY CycleInitTyped
<1>2. /\ ver \in Versions /\ IsSafe(ver) /\ preserved = Call /\ cur = 0 /\ validated = TRUE
      /\ task = "none" /\ asserted = NotAsserted
      /\ omega = Omega /\ file = Serialized(store, maxID) /\ base = ver /\ told = file
  BY DEF CycleInit
<1>3. LiveSound
  <2>1. PICK X \in Env :
          /\ \A n \in Call : sumID[n] # 0 => X[n] = Models(SummaryOf(n))
          /\ \A n \in preserved : Post(ver, n, X) \subseteq X[n]
    BY DEF CycleInit, PriorProof
  <2>2. Closed(ver, X)
    BY <1>2, <2>1 DEF Closed
  <2>3. \A n \in Call : Concrete(ver)[n] \subseteq X[n]
    BY <2>2, ConcreteLeast
  <2> QED
    BY <1>1, <2>1, <2>3 DEF LiveSound, Typed, CallTree
<1>4. AssertedSound
  BY <1>2, ConcreteIsEnv DEF AssertedSound, NotAsserted, Env
<1>5. RunSound
  BY <1>2, <1>3, <1>4 DEF RunSound, AskSound, Walking
<1>6. ASSUME NEW n \in Call
      PROVE  omega[n].sum = sumID[n] /\ omega[n].prec = prec[n]
  <2>1. omega[n] = [sum |-> sumID[n], prec |-> prec[n]]
    BY <1>2 DEF Omega
  <2> QED
    BY <2>1
<1>7. told.max = maxID /\ DOMAIN told.sums = DOMAIN store
  BY <1>2, SerializedFacts
<1>8. ASSUME NEW id \in DOMAIN store PROVE told.sums[id].fla = store[id].fla
  <2>1. told.sums[id] = [fn |-> store[id].fn, fla |-> store[id].fla]
    BY <1>2, SerializedFacts
  <2> QED
    BY <2>1
<1>9. OmegaTyped
  <2>1. \A n \in Call : sumID[n] \in Nat /\ prec[n] \in {"SUMMARY", "INLINE"}
    BY <1>1 DEF Typed, TypeOK, CallTree, Precision
  <2>2. omega \in [Call -> [sum : Nat, prec : {"SUMMARY", "INLINE"}]]
    BY <1>2, <2>1 DEF Omega
  <2>3. omega[Main] = [sum |-> 0, prec |-> "INLINE"]
    BY <1>1, <1>2, CallFacts DEF Typed, CallTree, Omega
  <2>4. \A n \in Call : /\ omega[n].sum < told.max
                        /\ omega[n].prec = "SUMMARY" => omega[n].sum # 0
    BY <1>1, <1>6, <1>7 DEF Typed, CallTree
  <2> QED
    BY <1>2, <2>2, <2>3, <2>4 DEF OmegaTyped
<1>10. OmegaSound
  <2> SUFFICES ASSUME NEW n \in Call, omega[n].prec = "SUMMARY",
                      omega[n].sum \in DOMAIN told.sums
               PROVE  Concrete(base)[n] \subseteq Models(told.sums[omega[n].sum].fla)
    BY DEF OmegaSound
  <2>1. prec[n] = "SUMMARY" /\ Has(store, sumID[n])
    BY <1>6, <1>7 DEF Has
  <2>2. told.sums[omega[n].sum].fla = SummaryOf(n)
    BY <1>6, <1>8, <2>1 DEF Has, SummaryOf
  <2> QED
    BY <1>2, <1>3, <2>1, <2>2 DEF LiveSound
<1>11. FileTyped
  BY <1>1, <1>2, SerializedFacts, SerializedTyped DEF FileTyped, Typed
<1> QED
  BY <1>1, <1>5, <1>9, <1>10, <1>11 DEF SoundInv, DiskSound

-----------------------------------------------------------------------------
(***************************************************************************)
(* The theorems.                                                           *)
(***************************************************************************)
\* Whatever upgrades succeeded, failed or were killed: the files and the traversal
\* stay sound.
THEOREM SoundInvariance == (Logic = "prop") => (CycleSpec => []SoundInv)
<1> SUFFICES ASSUME Logic = "prop" PROVE CycleSpec => []SoundInv
  OBVIOUS
<1>1. CycleInit => SoundInv
  BY SoundInit
<1>2. CycleInv /\ SoundInv /\ [CycleNext]_cycleVars => SoundInv'
  BY SoundNext
<1> QED
  BY <1>1, <1>2, CycleInvariance, PTL DEF CycleSpec

\* The counters of the history and the flags have their types.
Flags == /\ upgrades \in 0 .. MaxUpgrades
         /\ stopped \in BOOLEAN /\ saving \in BOOLEAN /\ clean \in BOOLEAN

LEMMA FlagsStep ==
  ASSUME Typed, Flags, [CycleNext]_cycleVars
  PROVE  Flags'
<1>1. CASE UNCHANGED <<upgrades, stopped, saving, clean>>
  BY <1>1 DEF Flags
<1>2. CASE Advance
  BY <1>2 DEF Advance, Step, Interpolate, Validated, Failed, SaveSummaries, Die, Flags,
              disk, history
<1>3. CASE Kill \/ KillSaving \/ UNCHANGED cycleVars
  BY <1>3 DEF Kill, KillSaving, cycleVars, Flags, disk, history
<1>4. ASSUME NEW w \in Versions, Submit(w) PROVE Flags'
  <2>1. upgrades + 1 \in 0 .. MaxUpgrades
    BY <1>4, MaxUpgradesAssumption DEF Submit, Flags
  <2>2. clean' \in BOOLEAN
    BY <1>4 DEF Submit
  <2> QED
    BY <1>4, <2>1, <2>2 DEF Submit, Flags
<1> QED
  BY <1>2, <1>3, <1>4 DEF CycleNext

\* CycleTypeOK: the variables, and what is in the two files, keep their types.
THEOREM CycleTypeCorrect == (Logic = "prop") => (CycleSpec => []CycleTypeOK)
<1> SUFFICES ASSUME Logic = "prop" PROVE CycleSpec => []CycleTypeOK
  OBVIOUS
<1>1. CycleInit => Flags
  <2>1. CycleInit => /\ upgrades = 0 /\ stopped = FALSE /\ saving = FALSE /\ clean = TRUE
    BY DEF CycleInit
  <2>2. 0 \in 0 .. MaxUpgrades
    BY MaxUpgradesAssumption
  <2> QED
    BY <2>1, <2>2 DEF Flags
<1>2. SoundInv /\ Flags /\ [CycleNext]_cycleVars => Flags'
  BY FlagsStep DEF SoundInv
<1>3. CycleInv /\ SoundInv /\ Flags => CycleTypeOK
  <2> SUFFICES ASSUME CycleInv, SoundInv, Flags PROVE CycleTypeOK
    OBVIOUS
  <2>1. omega \in [Call -> [sum : Nat, prec : Precision]]
    BY DEF SoundInv, DiskSound, OmegaTyped, Precision
  <2>2. /\ file.max \in Nat \ {0} /\ DOMAIN file.sums \subseteq 1 .. (file.max - 1)
        /\ told.max \in Nat /\ DOMAIN told.sums \subseteq 1 .. (told.max - 1)
    BY DEF CycleInv, Filed, IDs
  <2>3. told.max # 0
    <3>1. 0 < told.max
      BY CallFacts DEF SoundInv, DiskSound, OmegaTyped
    <3> QED
      BY <2>2, <3>1
  <2> QED
    BY <2>1, <2>2, <2>3 DEF CycleTypeOK, SoundInv, Typed, DiskSound, OmegaTyped, Flags
<1> QED
  BY <1>1, <1>2, <1>3, CycleInvariance, SoundInvariance, PTL DEF CycleSpec

\* Neither a step of the traversal nor a new file changes the revision, and none but the
\* verdict ends the traversal.
LEMMA RevisionKept ==
  ASSUME PropControl, Control, Step \/ Interpolate
  PROVE  ver' = ver /\ phase # "done" /\ stopped' = stopped
<1>1. [Next]_vars
  BY StepIsNext DEF Step, Interpolate
<1>2. ver' = ver
  BY <1>1, StepFrame
<1> QED
  BY <1>2 DEF Step, Interpolate, Running

LEMMA StillRunning ==
  ASSUME Logic = "prop", PropControl, Step \/ Interpolate
  PROVE  phase' # "done"
<1>1. CASE Step
  BY <1>1, QuietIsCareful DEF Step, Careful
<1>2. CASE Interpolate
  BY <1>2 DEF Interpolate, Proved
<1> QED
  BY <1>1, <1>2

\* The safety of RightVerdicts: over any sequence of upgrades, failed and killed ones
\* among them, the user is only told what is true of the revision that was submitted
\* last, and once.  (That every process ends is the rest of RightVerdicts.)
THEOREM VerdictsAreRight == (Logic = "prop") => (CycleSpec => Promises!Safety)
<1> SUFFICES ASSUME Logic = "prop" PROVE CycleSpec => Promises!Safety
  OBVIOUS
<1>0. /\ Promises!IsSafe(ver) <=> IsSafe(ver)
      /\ \A v : Promises!IsSafe(v) <=> IsSafe(v)
  BY DEF IsSafe, Concrete, Closed, Post, Env, Call, Main, Promises!IsSafe, Promises!Concrete,
         Promises!Closed, Promises!Post, Promises!Env, Promises!Call, Promises!Main
<1>1. CycleInit => Promises!Init
  <2> SUFFICES ASSUME CycleInit PROVE Promises!Init
    OBVIOUS
  <2>1. ver \in Versions /\ IsSafe(ver) /\ phase = "done" /\ validated = TRUE /\ stopped = FALSE
    BY DEF CycleInit
  <2>2. verdict = "safe" /\ Promises!RightVerdict(ver) = "safe"
    BY <1>0, <2>1 DEF verdict, answer, Promises!RightVerdict
  <2> QED
    BY <2>1, <2>2 DEF Promises!Init
<1>2. ASSUME CycleInv, SoundInv, SoundInv', [CycleNext]_cycleVars
      PROVE  [Promises!Next]_<<ver, verdict>>
  <2>0. PropControl /\ Control
    BY <1>2 DEF CycleInv, SoundInv, Typed
  <2>1. CASE UNCHANGED <<vars, stopped>>
    BY <2>1 DEF vars, traversal, query, verdict, answer
  <2>2. CASE Step \/ Interpolate
    <3>1. ver' = ver /\ phase # "done" /\ phase' # "done" /\ stopped' = stopped
      BY <2>0, <2>2, RevisionKept, StillRunning
    <3> QED
      BY <3>1 DEF verdict, answer
  <2>3. CASE Validated \/ Failed
    <3>1. /\ ver' = ver /\ phase = "pick" /\ phase' = "done" /\ ~ stopped
          /\ stopped' = stopped /\ cur' = 0
      BY <2>3 DEF Validated, Failed, Conclude, Running, traversal
    <3>2. validated' <=> IsSafe(ver')
      BY <1>2, <3>1 DEF SoundInv, RunSound, Walking, AskSound
    <3>3. verdict = "pending" /\ verdict' = IF validated' THEN "safe" ELSE "unsafe"
      BY <3>1 DEF verdict, answer
    <3>4. verdict' = Promises!RightVerdict(ver)
      BY <1>0, <3>1, <3>2, <3>3 DEF Promises!RightVerdict
    <3> QED
      BY <3>1, <3>3, <3>4 DEF Promises!Next, Promises!Answer
  <2>4. CASE Die \/ Kill
    <3>1. ver' = ver /\ ~ stopped /\ phase # "done" /\ stopped'
      BY <2>4 DEF Die, Kill, Running, vars
    <3>2. verdict = "pending" /\ verdict' = "none"
      BY <3>1 DEF verdict, answer
    <3> QED
      BY <3>1, <3>2 DEF Promises!Next, Promises!GiveUp
  <2>5. CASE SaveSummaries \/ KillSaving \/ UNCHANGED cycleVars
    BY <2>1, <2>5 DEF SaveSummaries, KillSaving, cycleVars
  <2>6. ASSUME NEW w \in Versions, Submit(w) PROVE [Promises!Next]_<<ver, verdict>>
    <3>1. /\ ver' = w /\ phase' = "pick" /\ stopped' = FALSE
          /\ stopped \/ phase = "done"
      BY <2>6 DEF Submit, Ended
    <3>2. verdict # "pending" /\ verdict' = "pending"
      BY <3>1 DEF verdict, answer
    <3> QED
      BY <3>1, <3>2 DEF Promises!Next, Promises!Submit
  <2> QED
    BY <1>2, <2>2, <2>3, <2>4, <2>5, <2>6 DEF CycleNext, Advance
<1> QED
  BY <1>1, <1>2, CycleInvariance, SoundInvariance, PTL DEF CycleSpec, Promises!Safety

-----------------------------------------------------------------------------
(***************************************************************************)
(* Runs that all succeed.                                                  *)
(***************************************************************************)
\* A call that is encoded by its summary has one, and no two calls hold the same id:
\* what refinement takes from one call it takes from no other.
Backed ==
  /\ \A n \in Call : prec[n] = "SUMMARY" => Has(store, sumID[n])
  /\ \A m, n \in Call : (sumID[m] = sumID[n] /\ sumID[m] # 0) => m = n

\* Once a revision is validated, __omega is the call tree.
Settled ==
  (phase = "done" /\ validated) =>
    \A n \in Call : omega[n].sum = sumID[n] /\ omega[n].prec = prec[n]

CleanInv == clean => Backed /\ Settled

LEMMA RefineBacked ==
  ASSUME Typed, Backed, NEW U \in SUBSET Abstract(cur), Refine(U)
  PROVE  Backed'
<1> DEFINE gone == {m \in U : sumID[m] # 0}
           ids  == {sumID[m] : m \in gone}
<1>1. /\ store' = Minus(store, ids)
      /\ sumID' = [m \in Call |-> IF m \in U THEN 0 ELSE sumID[m]]
      /\ prec'  = [m \in Call |-> IF m \in U \/ (m = cur /\ gone # {})
                                  THEN "INLINE" ELSE prec[m]]
  BY DEF Refine
<1>2. U \subseteq Call
  BY PartitionFacts DEF Abstract, Refine, Typed, Control
<1>3. \A n \in Call \ U : sumID[n] # 0 => sumID[n] \notin ids
  BY <1>2 DEF Backed
<1> HIDE DEF gone, ids
<1>4. DOMAIN store' = DOMAIN store \ ids
  BY <1>1 DEF Minus
<1>5. \A n \in Call : prec'[n] = "SUMMARY" => Has(store', sumID'[n])
  BY <1>1, <1>3, <1>4 DEF Backed, Has, Typed, CallTree
<1>6. \A m, n \in Call : (sumID'[m] = sumID'[n] /\ sumID'[m] # 0) => m = n
  BY <1>1 DEF Backed
<1> QED
  BY <1>5, <1>6 DEF Backed, Has

LEMMA QuietBacked ==
  ASSUME CycleInv, SoundInv, Backed, Quiet
  PROVE  Backed'
<1>0. PropControl /\ Typed /\ RunSound
  BY DEF CycleInv, SoundInv
<1>1. CASE Skip \/ NoSummary \/ BeginFull \/ InvalidKept \/ AssertionsAnswered \/ Refuted
  <2>1. UNCHANGED <<sumID, prec, store>>
    BY <1>1 DEF Skip, NoSummary, BeginFull, InvalidKept, AssertionsAnswered, Refuted,
                callTree, summaries
  <2> QED
    BY <2>1 DEF Backed, Has
<1>2. CASE Unknown
  <2>1. prec' = [prec EXCEPT ![cur] = "INLINE"] /\ UNCHANGED <<sumID, store>>
    BY <1>2 DEF Unknown, summaries
  <2> QED
    BY <1>0, <2>1 DEF Backed, Has, Typed, TypeOK
<1>3. CASE Unusable
  <2>1. /\ cur \in Call /\ DOMAIN store' = DOMAIN store \ {sumID[cur]}
        /\ sumID' = [sumID EXCEPT ![cur] = 0] /\ prec' = [prec EXCEPT ![cur] = "INLINE"]
    BY <1>0, <1>3 DEF Unusable, Typed, Control, DropID, Minus
  <2>2. ASSUME NEW n \in Call, prec'[n] = "SUMMARY" PROVE Has(store', sumID'[n])
    <3>1. n # cur /\ prec[n] = "SUMMARY" /\ sumID'[n] = sumID[n]
      BY <1>0, <2>1, <2>2 DEF Typed, TypeOK
    <3>2. sumID[n] # 0 /\ sumID[n] \in DOMAIN store
      BY <1>0, <3>1 DEF Backed, Has, Typed, CallTree
    <3>3. sumID[n] # sumID[cur]
      BY <2>1, <3>1, <3>2 DEF Backed
    <3> QED
      BY <2>1, <3>1, <3>2, <3>3 DEF Has
  <2>3. \A m, n \in Call : (sumID'[m] = sumID'[n] /\ sumID'[m] # 0) => m = n
    BY <1>0, <2>1 DEF Backed, Typed, TypeOK
  <2> QED
    BY <2>2, <2>3 DEF Backed, Has
<1>4. ASSUME NEW U \in SUBSET Abstract(cur), Refine(U) PROVE Backed'
  BY <1>0, <1>4, RefineBacked
<1>5. CASE Walking
  BY <1>0, <1>1, <1>2, <1>3, <1>5, WalkingSteps DEF RunSound
<1>6. CASE ~ Walking
  BY <1>0, <1>1, <1>4, <1>6, AskingSteps DEF Typed
<1> QED
  BY <1>5, <1>6

\* The interpolants get ids that no call holds.
LEMMA ProvedBacked ==
  ASSUME Typed, Backed, NEW itp \in [Inlined(cur) -> Lang], Proved(itp)
  PROVE  Backed'
<1>1. cur \in Call
  BY DEF Proved, Typed, Control
<1>2. \A m \in New(itp) : NewID(itp)[m] \in Nat /\ NewID(itp)[m] >= maxID
  BY <1>1, GeneratedAbove DEF Typed
<1>3. /\ \A m \in New(itp) : NewID(itp)[m] \in DOMAIN store'
      /\ \A m, n \in New(itp) : NewID(itp)[m] = NewID(itp)[n] => m = n
      /\ DOMAIN store \subseteq DOMAIN store'
      /\ sumID' = [m \in Call |-> IF m \in New(itp) THEN NewID(itp)[m] ELSE sumID[m]]
      /\ prec'  = [m \in Call |-> IF m \in New(itp) THEN "SUMMARY" ELSE prec[m]]
  <2>1. DOMAIN store' = DOMAIN store \cup {NewID(itp)[m] : m \in New(itp)}
    BY <1>1, Generated DEF Typed
  <2>2. \A m, n \in New(itp) : NewID(itp)[m] = NewID(itp)[n] => m = n
    BY <1>1, Generated DEF Typed
  <2>3. /\ sumID' = [m \in Call |-> IF m \in New(itp) THEN NewID(itp)[m] ELSE sumID[m]]
        /\ prec'  = [m \in Call |-> IF m \in New(itp) THEN "SUMMARY" ELSE prec[m]]
    BY DEF Proved, New, NewID
  <2> QED
    BY <2>1, <2>2, <2>3
<1>4. \A n \in Call : prec'[n] = "SUMMARY" => Has(store', sumID'[n])
  BY <1>3 DEF Backed, Has
<1>5. ASSUME NEW m \in New(itp), NEW n \in Call PROVE NewID(itp)[m] # sumID[n]
  <2>1. sumID[n] \in Nat /\ sumID[n] < maxID /\ maxID \in Nat
    BY DEF Typed, TypeOK, CallTree
  <2> QED
    BY <1>2, <2>1
<1>6. \A m, n \in Call : (sumID'[m] = sumID'[n] /\ sumID'[m] # 0) => m = n
  BY <1>3, <1>5 DEF Backed
<1> QED
  BY <1>4, <1>6 DEF Backed, Has

LEMMA CleanNext ==
  ASSUME Logic = "prop", CycleInv, SoundInv, CleanInv, [CycleNext]_cycleVars
  PROVE  CleanInv'
<1> SUFFICES ASSUME clean' PROVE Backed' /\ Settled'
  BY DEF CleanInv
<1>0. PropControl /\ Typed /\ Filed
  BY DEF CycleInv, SoundInv
<1>1. CASE UNCHANGED vars /\ UNCHANGED <<omega, clean>>
  <2>1. UNCHANGED <<sumID, prec, store, phase, validated, omega, clean>>
    BY <1>1 DEF vars, callTree, summaries, traversal, query
  <2> QED
    BY <2>1 DEF CleanInv, Backed, Settled, Has
<1>2. CASE Step
  <2>1. Quiet /\ Running /\ clean
    BY <1>2 DEF Step, history
  <2>2. phase' # "done"
    BY <1>0, <2>1, QuietIsCareful DEF Careful
  <2> QED
    BY <2>1, <2>2, QuietBacked DEF CleanInv, Settled
<1>3. CASE Interpolate
  <2>1. clean
    BY <1>3 DEF Interpolate, history
  <2>2. PICK itp \in [Inlined(cur) -> Lang] : Proved(itp)
    BY <1>3 DEF Interpolate
  <2>3. phase' # "done"
    BY <2>2 DEF Proved
  <2> QED
    BY <1>0, <2>1, <2>2, <2>3, ProvedBacked DEF CleanInv, Settled
<1>4. CASE Validated \/ Failed
  <2>1. clean /\ UNCHANGED <<sumID, prec, store, validated>>
    BY <1>4 DEF Validated, Failed, Conclude, history, callTree, summaries, traversal
  <2>2. Backed'
    BY <2>1 DEF CleanInv, Backed, Has
  <2>3. CASE Failed
    BY <2>1, <2>2, <2>3 DEF Failed, Settled
  <2>4. CASE Validated
    <3>1. omega' = Omega
      BY <2>4 DEF Validated
    <3>2. ASSUME NEW n \in Call PROVE omega'[n].sum = sumID[n] /\ omega'[n].prec = prec[n]
      <4>1. omega'[n] = [sum |-> sumID[n], prec |-> prec[n]]
        BY <3>1 DEF Omega
      <4> QED
        BY <4>1
    <3> QED
      BY <2>1, <2>2, <3>2 DEF Settled
  <2> QED
    BY <1>4, <2>3, <2>4
<1>5. CASE Kill \/ KillSaving
  BY <1>5 DEF Kill, KillSaving
<1>6. CASE SaveSummaries \/ Die \/ UNCHANGED cycleVars
  BY <1>1, <1>6 DEF SaveSummaries, Die, cycleVars, disk, history
<1>7. ASSUME NEW w \in Versions, Submit(w) PROVE Backed' /\ Settled'
  <2>1. /\ clean /\ validated /\ phase = "done" /\ phase' = "pick"
        /\ sumID' = [n \in Call |-> omega[n].sum] /\ prec' = [n \in Call |-> omega[n].prec]
        /\ store' = Read(file)
    BY <1>7 DEF Submit, Ended
  <2>2. DOMAIN store \subseteq DOMAIN store'
    BY <1>0, <2>1 DEF Filed, Read, ReadIDs
  <2>3. \A n \in Call : sumID'[n] = sumID[n] /\ prec'[n] = prec[n]
    BY <2>1 DEF CleanInv, Settled
  <2>4. Backed'
    BY <2>1, <2>2, <2>3 DEF CleanInv, Backed, Has
  <2> QED
    BY <2>1, <2>4 DEF Settled
<1> QED
  BY <1>2, <1>3, <1>4, <1>5, <1>6, <1>7 DEF CycleNext, Advance

LEMMA CleanInit ==
  ASSUME CycleInit
  PROVE  CleanInv
<1>a. PICK S \in SUBSET (Call \ {Main}) : \E fla \in [S -> {f \in Lang : ~ Trivial(f)}] :
        /\ sumID = [n \in Call |-> IF n \in S THEN Numbered(S, 1)[n] ELSE 0]
        /\ store = PlusAll(<< >>, Numbered(S, 1), fla, TRUE)
        /\ prec = [n \in Call |-> IF n \in S THEN "SUMMARY" ELSE "INLINE"]
  BY DEF CycleInit
<1>0. PICK fla \in [S -> {f \in Lang : ~ Trivial(f)}] :
        /\ sumID = [n \in Call |-> IF n \in S THEN Numbered(S, 1)[n] ELSE 0]
        /\ store = PlusAll(<< >>, Numbered(S, 1), fla, TRUE)
        /\ prec = [n \in Call |-> IF n \in S THEN "SUMMARY" ELSE "INLINE"]
  BY <1>a
<1> DEFINE id == Numbered(S, 1)
           yes == TRUE
<1>1. id \in [S -> Nat \ {0}] /\ \A m, n \in S : id[m] = id[n] => m = n
  <2>1. S \in SUBSET Call /\ 1 \in Nat \ {0}
    OBVIOUS
  <2> QED
    BY <2>1, NumberedFacts
<1>2. /\ sumID = [n \in Call |-> IF n \in S THEN id[n] ELSE 0]
      /\ store = PlusAll(<< >>, id, fla, yes)
  BY <1>0
<1> HIDE DEF id, yes
<1>3. /\ DOMAIN id = S /\ DOMAIN << >> = {}
      /\ \A n \in DOMAIN id : id[n] \notin DOMAIN << >>
      /\ \A m, n \in DOMAIN id : id[m] = id[n] => m = n
  BY <1>1
<1>4. \A k : k \in DOMAIN PlusAll(<< >>, id, fla, yes)
                <=> k \in DOMAIN << >> \/ \E m \in DOMAIN id : k = id[m]
  BY ONLY <1>3, PlusAllFacts
<1>5. \A n \in S : id[n] \in DOMAIN store
  BY <1>2, <1>3, <1>4
<1>6. Backed
  BY <1>0, <1>1, <1>2, <1>5 DEF Backed, Has
<1>7. Settled
  <2> SUFFICES ASSUME NEW n \in Call PROVE omega[n].sum = sumID[n] /\ omega[n].prec = prec[n]
    BY DEF Settled
  <2>1. omega[n] = [sum |-> sumID[n], prec |-> prec[n]]
    BY DEF CycleInit, Omega
  <2> QED
    BY <2>1
<1> QED
  BY <1>6, <1>7 DEF CleanInv

\* CleanRunsMissNothing: with prop, as long as every upgrade is validated and none is
\* killed, what one process writes to __omega and to the summary file is all that the
\* queries of the next one look for.
THEOREM CleanRunsNeverMiss == (Logic = "prop") => (CycleSpec => []CleanRunsMissNothing)
<1> SUFFICES ASSUME Logic = "prop" PROVE CycleSpec => []CleanRunsMissNothing
  OBVIOUS
<1>1. CycleInit => CleanInv
  BY CleanInit
<1>2. CycleInv /\ SoundInv /\ CleanInv /\ [CycleNext]_cycleVars => CleanInv'
  BY CleanNext
<1>3. CycleInv /\ SoundInv /\ CleanInv => CleanRunsMissNothing
  <2> SUFFICES ASSUME SoundInv, Backed, phase = "solve", NEW n \in Summarized(cur)
               PROVE  Fits(n)
    BY DEF CleanRunsMissNothing, ReadsMissing, CleanInv
  <2>1. cur \in Call
    BY DEF SoundInv, Typed, Control
  <2>2. n \in Call /\ prec[n] = "SUMMARY"
    BY <2>1, PartitionFacts DEF Summarized, Abstract
  <2> QED
    BY <2>2 DEF Backed, Fits
<1> QED
  BY <1>1, <1>2, <1>3, CycleInvariance, SoundInvariance, PTL DEF CycleSpec
=============================================================================
