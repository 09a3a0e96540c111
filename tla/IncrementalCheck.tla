-------------------------- MODULE IncrementalCheck --------------------------
(***************************************************************************)
(* What UpProver promises its user, whatever it does with summaries: a     *)
(* revision that is submitted gets the right verdict, or none when the     *)
(* process ends without one, and it gets it in the end.                    *)
(***************************************************************************)
EXTENDS CallTreePrograms

VARIABLES
  revision,   \* the revision that was last submitted
  verdict     \* what was said of it

Verdict == {"pending", "safe", "unsafe", "none"}

RightVerdict(v) == IF IsSafe(v) THEN "safe" ELSE "unsafe"

Init == /\ revision \in Versions
        /\ verdict \in {"pending", RightVerdict(revision)}

Submit(w) ==
  /\ verdict # "pending"
  /\ revision' = w /\ verdict' = "pending"

Answer ==
  /\ verdict = "pending"
  /\ verdict' = RightVerdict(revision)
  /\ UNCHANGED revision

GiveUp ==
  /\ verdict = "pending"
  /\ verdict' = "none"
  /\ UNCHANGED revision

Next == Answer \/ GiveUp \/ \E w \in Versions : Submit(w)

Safety == Init /\ [][Next]_<<revision, verdict>>
Spec   == Safety /\ WF_<<revision, verdict>>(Answer \/ GiveUp)
=============================================================================
