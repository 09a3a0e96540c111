---------------------------- MODULE UpgradeCycle ----------------------------
(***************************************************************************)
(* A sequence of upgrades of one program: what one run of UpProver leaves  *)
(* in its two files and the next one starts from.                          *)
(*                                                                         *)
(* __omega holds the summary id and the precision of each call, and is     *)
(* written when an upgrade was validated (core_checkert::serialize).  The  *)
(* summary file holds the summaries, and is written then too, but also     *)
(* after every query that had a proof (core_checkert::extract_interpolants)*)
(* whatever becomes of the upgrade afterwards.  Each upgrade is compared   *)
(* with the last revision that was bootstrapped or validated.              *)
(*                                                                         *)
(* The revisions have the same call tree (OmegaDiff and DiffedUpgrade are  *)
(* about those that have not).                                             *)
(***************************************************************************)
EXTENDS SummaryValidation

CONSTANT MaxUpgrades    \* bound: how often a revision is submitted

ASSUME MaxUpgradesAssumption == MaxUpgrades \in Nat

VARIABLES
  omega,      \* __omega: the id and the precision of each call
  file,       \* the summary file
  base,       \* the revision the next one is compared with
  stopped,    \* the process ended before it had a verdict
  saving,     \* __omega is written, the summary file is still to be
  upgrades,   \* how many revisions were submitted
  clean,      \* history: every revision submitted before this one was validated,
              \* and no process was killed
  told        \* history: what an id of __omega meant when __omega was written

disk == <<omega, file, base>>
history == <<clean, told>>
cycleVars == <<vars, disk, stopped, saving, upgrades, history>>

-----------------------------------------------------------------------------
(***************************************************************************)
(* The files.                                                              *)
(***************************************************************************)
\* A variant with a bug: only the summaries id_to_summary knows are written.
Serialized_Indexed(st, max) ==
  [max |-> max,
   sums |-> [k \in {j \in DOMAIN st : st[j].indexed} |-> [fn |-> st[k].fn, fla |-> st[k].fla]]]

\* summary_storet::serialize: the summaries in the order of their ids, with (prop)
\* or without (SMT) the ids; prop also writes max_id.
Serialized(st, max) ==
  [max |-> max, sums |-> [k \in DOMAIN st |-> [fn |-> st[k].fn, fla |-> st[k].fla]]]

\* deserialize: the SMT reader inserts what it reads into an empty store, so the
\* i-th summary of the file gets id i; prop takes the ids of the file.
ReadIDs(f) == IF Logic = "prop" THEN DOMAIN f.sums ELSE 1 .. Cardinality(DOMAIN f.sums)
WrittenAs(f, id) ==
  IF Logic = "prop" THEN id
  ELSE CHOOSE k \in DOMAIN f.sums : Cardinality({j \in DOMAIN f.sums : j <= k}) = id

\* A variant with a bug: prop does not restore max_id.
NextID_NotSaved(f) == 1 + Cardinality(DOMAIN f.sums)
NextID(f) == IF Logic = "prop" THEN f.max ELSE 1 + Cardinality(DOMAIN f.sums)

Read(f) ==
  [id \in ReadIDs(f) |->
     LET s == f.sums[WrittenAs(f, id)]
     IN  [fn |-> s.fn, fla |-> s.fla, indexed |-> Deserialized]]

\* subst_scenariot::serialize
Omega == [n \in Call |-> [sum |-> sumID[n], prec |-> prec[n]]]

-----------------------------------------------------------------------------
(***************************************************************************)
(* Bootstrapping succeeded: some calls have summaries that prove the first *)
(* revision, and both files are written.                                   *)
(***************************************************************************)
CycleInit ==
  /\ ver \in Versions /\ IsSafe(ver) /\ preserved = Call
  /\ \E S \in SUBSET (Call \ {Main}) :
     \E fla \in [S -> {f \in Lang : ~ Trivial(f)}] :
        LET ids == Numbered(S, 1)
        IN  /\ sumID = [n \in Call |-> IF n \in S THEN ids[n] ELSE 0]
            /\ maxID = Cardinality(S) + 1
            /\ store = PlusAll(<< >>, ids, fla, TRUE)
            /\ prec = [n \in Call |-> IF n \in S THEN "SUMMARY" ELSE "INLINE"]
  /\ PriorProof
  /\ marked = {} /\ repaired = {} /\ cur = 0 /\ validated = TRUE
  /\ phase = "done" /\ task = "none" /\ holds = FALSE /\ asserted = NotAsserted
  /\ houdini = NoRepair
  /\ omega = Omega /\ file = Serialized(store, maxID) /\ base = ver
  /\ stopped = FALSE /\ saving = FALSE /\ upgrades = 0
  /\ clean = TRUE /\ told = file

-----------------------------------------------------------------------------
(***************************************************************************)
(* One upgrade.                                                            *)
(***************************************************************************)
Ended == stopped \/ (phase = "done" /\ ~ saving)

\* A variant with a bug: the new revision is compared with the last one submitted.
Preserved_SinceLast(w) == {n \in Call : w[n] = ver[n]}

\* diff: the bodies that are as in the base revision.
Preserved(w) == {n \in Call : w[n] = base[n]}

\* launch_upprover and the start of call_graph_traversal: diff marks calls, then
\* omega.deserialize and init_solver_and_summary_store read the files.  An identical
\* program is not checked.
Submit(w) ==
  /\ Ended /\ upgrades < MaxUpgrades /\ Preserved(w) # Call
  /\ ver' = w /\ preserved' = Preserved(w)
  /\ sumID' = [n \in Call |-> omega[n].sum]
  /\ prec' = [n \in Call |-> omega[n].prec]
  /\ store' = Read(file) /\ maxID' = NextID(file)
  /\ marked' = {} /\ repaired' = {} /\ cur' = NumCalls /\ validated' = FALSE
  /\ phase' = "pick" /\ task' = "none" /\ holds' = FALSE
  /\ asserted' = NotAsserted /\ houdini' = NoRepair
  /\ stopped' = FALSE /\ upgrades' = upgrades + 1
  /\ clean' = (clean /\ ~ stopped /\ validated)
  /\ UNCHANGED <<disk, saving, told>>

Running == ~ stopped /\ phase # "done"

\* The summary that call n points to can be instantiated for it: the SMT solvers
\* compare its parameters with those of the call, prop does not.
Fits(n) == Has(store, sumID[n]) /\ (Logic # "prop" => store[sumID[n]].fn = FnOf[n])

\* The query encodes a call by a summary that find_summary does not find, or that
\* instantiate rejects.
ReadsMissing == phase = "solve" /\ \E n \in Summarized(cur) : ~ Fits(n)

\* The exception ends the process.
Die ==
  /\ Running /\ ReadsMissing
  /\ stopped' = TRUE
  /\ UNCHANGED <<vars, disk, saving, upgrades, history>>

\* The process is killed, by a user, a time or a memory limit.
Kill ==
  /\ Running
  /\ stopped' = TRUE /\ clean' = FALSE
  /\ UNCHANGED <<vars, disk, saving, upgrades, told>>

\* A step of the traversal that writes nothing.
Quiet == \/ Skip \/ NoSummary \/ BeginFull \/ AssertionsAnswered
         \/ (Prepared /\ Fits(cur)) \/ Unusable \/ Unknown \/ Refuted
         \/ \E U \in SUBSET Abstract(cur) : Refine(U)
         \/ Judge \/ Houdini

Step ==
  /\ Running /\ ~ ReadsMissing
  /\ Quiet
  /\ UNCHANGED <<disk, stopped, saving, upgrades, history>>

\* A variant with a bug: the file is only written at the end.
Interpolate_NotWritten ==
  /\ Running /\ ~ ReadsMissing
  /\ \E itp \in [Inlined(cur) -> Lang] : Proved(itp)
  /\ UNCHANGED <<disk, stopped, saving, upgrades, history>>

\* extract_interpolants writes the file when the interpolants are in the store.
Interpolate ==
  /\ Running /\ ~ ReadsMissing
  /\ \E itp \in [Inlined(cur) -> Lang] : Proved(itp)
  /\ file' = Serialized(store', maxID')
  /\ UNCHANGED <<omega, base, stopped, saving, upgrades, history>>

\* "Validation Done!": __omega is written first.
Validated ==
  /\ Running /\ Conclude /\ validated
  /\ omega' = Omega /\ base' = ver /\ saving' = TRUE
  /\ told' = Serialized(store, maxID)
  /\ UNCHANGED <<file, stopped, upgrades, clean>>

\* "Validation failed!": neither file is written.
Failed ==
  /\ Running /\ Conclude /\ ~ validated
  /\ UNCHANGED <<disk, stopped, saving, upgrades, history>>

SaveSummaries ==
  /\ saving
  /\ saving' = FALSE /\ file' = Serialized(store, maxID)
  /\ UNCHANGED <<vars, omega, base, stopped, upgrades, history>>

\* Killed between the two files.
KillSaving ==
  /\ saving
  /\ saving' = FALSE /\ clean' = FALSE
  /\ UNCHANGED <<vars, disk, stopped, upgrades, told>>

Advance == Step \/ Interpolate \/ Validated \/ Failed \/ SaveSummaries \/ Die

CycleNext == Advance \/ Kill \/ KillSaving \/ \E w \in Versions : Submit(w)

\* A process that runs goes on; whether and when it is killed, or a revision is
\* submitted, is up to the user.
CycleSpec == CycleInit /\ [][CycleNext]_cycleVars /\ WF_cycleVars(Advance)

-----------------------------------------------------------------------------
(***************************************************************************)
(* Properties.                                                             *)
(***************************************************************************)
CycleTypeOK ==
  /\ TypeOK
  /\ omega \in [Call -> [sum : Nat, prec : Precision]]
  /\ \A f \in {file, told} : /\ f.max \in Nat \ {0}
                             /\ DOMAIN f.sums \subseteq 1 .. (f.max - 1)
  /\ base \in Versions /\ upgrades \in 0 .. MaxUpgrades
  /\ stopped \in BOOLEAN /\ saving \in BOOLEAN /\ clean \in BOOLEAN

\* What the user sees.
verdict == IF stopped THEN "none" ELSE answer

Promises == INSTANCE IncrementalCheck WITH revision <- ver

\* Over any sequence of upgrades, failed and interrupted ones among them, every
\* verdict is right and every process ends, although the files may be of different
\* ages: the upgrades implement IncrementalCheck.
RightVerdicts == Promises!Spec

\* An id of __omega denotes, in the summary file, what it denoted when __omega was
\* written, or nothing: the upgrades that failed or were killed since, and rewrote
\* the file, may have lost summaries but never give a call a foreign one.
NoForeignSummary ==
  \A id \in ReadIDs(file) :
     id < told.max => /\ id \in DOMAIN told.sums
                      /\ file.sums[WrittenAs(file, id)] = told.sums[id]

\* After an upgrade that succeeded, even one that was killed before it wrote the
\* summary file for the last time, the next run reads every summary back under the
\* id it was written under.
SummaryIDsRemain ==
  (Ended /\ ~ stopped /\ validated) =>
    \A id \in DOMAIN told.sums :
       id \in ReadIDs(file) /\ file.sums[WrittenAs(file, id)] = told.sums[id]

\* As long as all upgrades succeed and none is killed, no query looks for a summary
\* that is not there: what one run writes is all that the next one needs.
CleanRunsMissNothing == clean => ~ ReadsMissing
=============================================================================
