---------------------------- MODULE VerdictService ----------------------------
(***************************************************************************)
(* What the back end promises whoever submits a run, whatever its tables,  *)
(* queues and retries: a verdict is shown only if a judge pronounced it on *)
(* a submission of that very run (or the run could not be submitted), and  *)
(* a verdict once shown is withdrawn only by a registered rejudge.         *)
(***************************************************************************)
CONSTANTS Runs, Verdicts, None, SubmitError

VARIABLES
  accepted,    \* runs the service has taken responsibility for
  pronounced,  \* verdicts judges have pronounced on each run
  shown,       \* the verdict clients see, or None
  rejudges     \* registered rejudge requests

vars == <<accepted, pronounced, shown, rejudges>>

Init ==
  /\ accepted = {}
  /\ pronounced = [r \in Runs |-> {}]
  /\ shown = [r \in Runs |-> None]
  /\ rejudges = {}

Accept(r) ==
  /\ r \notin accepted
  /\ accepted' = accepted \cup {r}
  /\ UNCHANGED <<pronounced, shown, rejudges>>

Pronounce(r, v) ==
  /\ r \in accepted
  /\ pronounced' = [pronounced EXCEPT ![r] = @ \cup {v}]
  /\ UNCHANGED <<accepted, shown, rejudges>>

Show(r, v) ==
  /\ r \in accepted
  /\ v \in pronounced[r] \cup {SubmitError}
  /\ shown' = [shown EXCEPT ![r] = v]
  /\ UNCHANGED <<accepted, pronounced, rejudges>>

\* The verdict may survive: one that arrived while the request was handled.
Rejudge(r, id) ==
  /\ r \in accepted
  /\ <<r, id>> \notin rejudges
  /\ rejudges' = rejudges \cup {<<r, id>>}
  /\ shown' \in {shown, [shown EXCEPT ![r] = None]}
  /\ UNCHANGED <<accepted, pronounced>>

Next ==
  \E r \in Runs :
    \/ Accept(r)
    \/ \E v \in Verdicts : Pronounce(r, v)
    \/ \E v \in Verdicts \cup {SubmitError} : Show(r, v)
    \/ \E p \in rejudges' : p[1] = r /\ Rejudge(r, p[2])

Spec == Init /\ [][Next]_vars
=============================================================================
