----------------------------- MODULE StatusWatch -----------------------------
(***************************************************************************)
(* What a status stream promises its client, without connections, LISTEN   *)
(* and notifications: it behaves like a wait on a condition variable.  A   *)
(* stream that is due looks at the job at some moment and tells its client *)
(* what it sees; it may then fall asleep, and the next change of its job   *)
(* wakes it.  It ends when it has seen a final status or no job, or when   *)
(* the client or an error closes it.                                       *)
(***************************************************************************)
CONSTANTS Jobs, Streams, Of

VARIABLES
    status, \* jobs.status
    told,   \* what the client of each stream was told last
    phase   \* "due": it will look again; "asleep": a change will wake it

vars == <<status, told, phase>>

Table == INSTANCE JobTable

Init ==
    /\ Table!Init
    /\ told  = [s \in Streams |-> "none"]
    /\ phase = [s \in Streams |-> "off"]

\* The job of a stream that is asleep exists, so nobody waits for an INSERT.
Insert(j) == Table!Insert(j) /\ UNCHANGED <<told, phase>>

Change(j, new) ==
    /\ Table!Update(j, new)
    /\ phase' = [s \in Streams |-> IF phase[s] = "asleep" /\ Of[s] = j
                                   THEN "due" ELSE phase[s]]
    /\ UNCHANGED told

Move(s, from, to) ==
    /\ UNCHANGED <<status, told>>
    /\ phase[s] \in from
    /\ phase' = [phase EXCEPT ![s] = to]

Open(s)  == Move(s, {"off"}, "due")
\* For no reason that the client knows: a timeout, a dead connection.
Wake(s)  == Move(s, {"asleep"}, "due")
Close(s) == Move(s, {"due", "asleep"}, "ended")

Look(s) ==
    LET seen == status[Of[s]]
    IN  /\ UNCHANGED status
        /\ phase[s] = "due"
        /\ told' = IF seen = "absent" THEN told ELSE [told EXCEPT ![s] = seen]
        /\ \E next \in IF seen \in {"absent"} \cup Table!Terminal
                       THEN {"ended"} ELSE {"due", "asleep"} :
              phase' = [phase EXCEPT ![s] = next]

\* The first conjunct follows from the second: it spares TLC the search.
TableStep ==
    /\ status' # status
    /\ \E j \in Jobs : Insert(j) \/ \E new \in Table!Statuses : Change(j, new)

Next ==
    \/ TableStep
    \/ \E s \in Streams : Open(s) \/ Wake(s) \/ Close(s) \/ Look(s)

Spec == Init /\ [][Next]_vars

(***************************************************************************)
(* Why sleeping is safe: the client of a stream that is asleep knows the   *)
(* current status.  (In JobStream this is NoLostWakeup.)                   *)
(***************************************************************************)
SleepersAreCurrent == \A s \in Streams : phase[s] = "asleep" => told[s] = status[Of[s]]
=============================================================================
