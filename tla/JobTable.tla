------------------------------ MODULE JobTable ------------------------------
(***************************************************************************)
(* The status column of the table jobs, as far as others than the queue    *)
(* can rely on it: a job appears in 'queued' and does not go away, and a   *)
(* statement that changes a status changes that of one job, to one of the  *)
(* four that the readers know.  Which changes come when is not said: a     *)
(* disturbed job can even leave 'done'.                                    *)
(*                                                                         *)
(* It is the interface of two modules: JobQueue implements it, and the     *)
(* streams of JobStream run beside any table that keeps to it.             *)
(***************************************************************************)
CONSTANT Jobs

VARIABLE status

Terminal == {"done", "error"}
Statuses == {"queued", "running"} \cup Terminal

Init == status = [j \in Jobs |-> "absent"]

Insert(j) ==
    /\ status[j] = "absent"
    /\ status' = [status EXCEPT ![j] = "queued"]

Update(j, new) ==
    /\ status[j] \notin {"absent", new}
    /\ status' = [status EXCEPT ![j] = new]

Next == \E j \in Jobs : Insert(j) \/ \E new \in Statuses : Update(j, new)

Spec == Init /\ [][Next]_status
=============================================================================
