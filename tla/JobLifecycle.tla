---------------------------- MODULE JobLifecycle ----------------------------
(***************************************************************************)
(* What the queue promises its clients about one job, without saying how:  *)
(* a job that no mishap has befallen is queued, runs, and each run ends    *)
(* exactly once, in done, in error when the attempts are used up, or back  *)
(* in the queue while some are left.  A disturbed job (its worker died, a  *)
(* reply was lost, ...) may be taken again, finished twice or revived; the *)
(* queue still never un-counts an attempt, and still calls a job failed    *)
(* only when its attempts are used up.                                     *)
(***************************************************************************)
EXTENDS Integers

CONSTANTS Jobs, Allowed  \* Allowed[j]: max_attempts of j

VARIABLES status, attempts, disturbed

vars == <<status, attempts, disturbed>>

Init ==
    /\ status   = [j \in Jobs |-> "absent"]
    /\ attempts = [j \in Jobs |-> 0]
    /\ disturbed \in SUBSET Jobs

Move(j, from, to) ==
    /\ j \notin disturbed
    /\ status[j] = from
    /\ status' = [status EXCEPT ![j] = to]
    /\ UNCHANGED disturbed

Submit(j) == Move(j, "absent", "queued") /\ UNCHANGED attempts

\* The first run is always granted, the others while attempts are left.
Start(j) ==
    /\ attempts[j] = 0 \/ attempts[j] < Allowed[j]
    /\ Move(j, "queued", "running")
    /\ attempts' = [attempts EXCEPT ![j] = @ + 1]

Finish(j) == Move(j, "running", "done") /\ UNCHANGED attempts

Retry(j) ==
    /\ attempts[j] < Allowed[j]
    /\ Move(j, "running", "queued")
    /\ UNCHANGED attempts

GiveUp(j) ==
    /\ attempts[j] >= Allowed[j]
    /\ Move(j, "running", "error")
    /\ UNCHANGED attempts

\* Only what is or becomes disturbed changes, and within the two limits above.
Disturbance ==
    /\ disturbed \subseteq disturbed' /\ disturbed' \subseteq Jobs
    /\ \A j \in Jobs :
        /\ j \notin disturbed' => status'[j] = status[j] /\ attempts'[j] = attempts[j]
        /\ attempts'[j] \in {attempts[j], attempts[j] + 1}
        /\ status'[j] = "error" => status[j] = "error" \/ attempts'[j] >= Allowed[j]

Next ==
    \/ \E j \in Jobs : Submit(j) \/ Start(j) \/ Finish(j) \/ Retry(j) \/ GiveUp(j)
    \/ Disturbance

Spec == Init /\ [][Next]_vars
=============================================================================
