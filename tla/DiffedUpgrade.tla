---------------------------- MODULE DiffedUpgrade ----------------------------
(***************************************************************************)
(* launch_upprover: OmegaDiff followed by SummaryValidation.               *)
(*                                                                         *)
(* SummaryValidation assumes that the old summaries prove the calls diff   *)
(* found unchanged.  Here nothing is assumed but a proof of the old        *)
(* revision; which summary each new call starts with, and which calls      *)
(* count as unchanged, is what do_diff writes.                             *)
(*                                                                         *)
(* A function of a revision also says what it does: for each of its        *)
(* executions, what its calls did and what it did itself.  Call n of       *)
(* SummaryValidation is call n + 1 of OmegaDiff, where call 1 is that of   *)
(* the initialiser.                                                        *)
(***************************************************************************)
EXTENDS SummaryValidation, OmegaDiff

CONSTANTS
  OldRevisions, NewRevisions   \* functions: name -> [type, body, does]

VARIABLE
  stage                        \* where launch_upprover is

ASSUME UpgradesAssumption == /\ Revisions = OldRevisions \cup NewRevisions
                             /\ \A r \in Revisions : DOMAIN r \subseteq Fn

\* Every revision first calls the initialiser, which calls nothing, and then main.
ASSUME StartAssumption ==
  \A r \in Revisions : /\ Callees(r[Entry].body) = <<Initializer, FnOf[Main]>>
                       /\ Callees(r[Initializer].body) = << >>

\* An execution says what each call of the body did; a function whose text is the
\* same does the same.
ASSUME DoesAssumption ==
  \A r \in Revisions : \A f \in DOMAIN r :
     /\ \A run \in r[f].does : /\ run.in \in [1 .. Len(Callees(r[f].body)) -> Val]
                               /\ run.out \in Val
     /\ \A s \in Revisions :
          (f \in DOMAIN s /\ Text(r[f].body) = Text(s[f].body)) => r[f].does = s[f].does

\* The bodies of the calls of a new revision.
VersionOf(r) ==
  [n \in Call |->
     {[calls |-> [c \in Children(n) |->
                    run.in[Cardinality({d \in Children(n) : d <= c})]],
       out |-> run.out] : run \in r[FnOf[n]].does}]

\* The new revisions make the calls that SummaryValidation is instantiated with.
ASSUME TreeAssumption ==
  \A r \in NewRevisions :
     LET calls == Unrolled(r)
     IN  /\ Len(calls) = NumCalls + 1
         /\ \A n \in Call : /\ calls[n + 1].fn = FnOf[n]
                            /\ Below(calls, n + 1) = {c + 1 : c \in Children(n)}
         /\ VersionOf(r) \in Versions

\* What call n of the old revision does when its calls do what X allows.
OldPost(n, X) ==
  {run.out : run \in {q \in old[functions_old[n].fn].does :
     \A k \in DOMAIN q.in : q.in[k] \in X[Location(functions_old, n, k)]}}

\* The check of the old revision left a proof: fla, the summaries of the calls of S.
OldProof(S, fla) ==
  \E X \in [2 .. Len(functions_old) -> SUBSET Val] :
     /\ \A n \in S : X[n] = Models(fla[n])
     /\ \A n \in 2 .. Len(functions_old) : OldPost(n, X) \subseteq X[n]
     /\ X[2] \subseteq Safe

UpgradeInit ==
  /\ old \in OldRevisions /\ new \in NewRevisions
  /\ ver = VersionOf(new)
  /\ \E S \in SUBSET (3 .. Len(Unrolled(old))) :
        LET omega == Omega(Unrolled(old), S, "INLINE")
        IN  /\ StartDiff(omega)
            /\ maxID = Cardinality(S) + 1
            /\ \E fla \in [S -> {f \in Lang : ~ Trivial(f)}] :
                 /\ OldProof(S, fla)
                 /\ store = [id \in 1 .. Cardinality(S) |->
                      LET n == CHOOSE n \in S : omega[n].sum = id
                      IN  [fn |-> omega[n].fn, fla |-> fla[n], indexed |-> Deserialized]]
  /\ preserved = {} /\ sumID = [n \in Call |-> 0] /\ prec = [n \in Call |-> "INLINE"]
  /\ marked = {} /\ repaired = {} /\ cur = NumCalls /\ validated = FALSE
  /\ phase = "pick" /\ task = "none" /\ holds = FALSE /\ asserted = NotAsserted
  /\ houdini = NoRepair
  /\ stage = "diff"

-----------------------------------------------------------------------------
Compare == stage = "diff" /\ DiffNext /\ UNCHANGED <<vars, stage>>

Identical ==
  /\ stage = "diff" /\ result = "identical"
  /\ stage' = "identical"
  /\ UNCHANGED <<vars, diffVars>>

\* subst_scenariot::deserialize: the calls of the new revision, with the entries
\* that do_diff wrote.
Load ==
  /\ stage = "diff" /\ result = "changed"
  /\ preserved' = {n \in Call : callhistory_new[n + 1].preserved}
  /\ sumID' = [n \in Call |-> callhistory_new[n + 1].sum]
  /\ prec' = [n \in Call |-> callhistory_new[n + 1].prec]
  /\ stage' = "validate"
  /\ UNCHANGED <<ver, summaries, traversal, repaired, query, houdini, diffVars>>

Validate == stage = "validate" /\ Next /\ UNCHANGED <<diffVars, stage>>

UpgradeNext == Compare \/ Identical \/ Load \/ Validate

UpgradeSpec == UpgradeInit /\ [][UpgradeNext]_<<vars, diffVars, stage>>

-----------------------------------------------------------------------------
\* No function is called twice: the call a summary comes from is then that of the
\* function of the call it goes to.
CalledOnce(r) ==
  \A m, n \in DOMAIN Unrolled(r) : Unrolled(r)[m].fn = Unrolled(r)[n].fn => m = n
OnceCalled == \A r \in Revisions : CalledOnce(r)

\* The traversal starts from summaries that prove the calls it will skip, whatever
\* diff matched, as SummaryValidation assumes of its initial states.
DiffKeepsProof ==
  [][stage' = "validate" =>
       /\ PriorProof' /\ preserved' # Call
       /\ \A n \in Call : sumID'[n] # 0 => Has(store, sumID'[n])
       /\ \A n \in preserved' : sumID'[n] # 0 => prec'[n] = "SUMMARY"]_stage

\* A revision that is taken for identical, and not checked, is safe.
IdenticalIsSafe == stage = "identical" => IsSafe(ver)
=============================================================================
