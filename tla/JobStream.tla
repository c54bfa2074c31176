------------------------------ MODULE JobStream ------------------------------
(***************************************************************************)
(* The status streams of the core: handleJobStream, which keeps one        *)
(* connection of the pool for LISTEN job_update and reads the job with     *)
(* another one, its fallback handleJobStreamPoll, and StreamJob of the     *)
(* gRPC server, which poll.                                                *)
(*                                                                         *)
(* The jobs change as JobTable allows (JobQueue does no more than that);   *)
(* the trigger notifies the listening connections of an UPDATE that        *)
(* changes jobs.status.  A notification waits at its connection, in the    *)
(* socket or in pgx's buffer, until WaitForNotification takes it; a        *)
(* connection goes back to the pool without UNLISTEN, so it keeps          *)
(* collecting, and its next holder finds what it collected.                *)
(***************************************************************************)
EXTENDS Integers, FiniteSets, Sequences, SequencesExt

CONSTANTS
    Jobs,
    Streams,     \* the stream requests that clients ever make
    GrpcStreams, \* those of StreamJob; the others are GET /v1/jobs/{id}/stream
    Of,          \* Of[s]: the job of the request
    Conns,       \* the connections pgxpool may open
    NoConn,      \* null value
    MaxUpdates,  \* bound: MaxUpdates[j] changes of the status of j
    MaxMishaps   \* bound: statements and connections that fail

ASSUME StreamsAssumption ==
    /\ GrpcStreams \subseteq Streams
    /\ Of \in [Streams -> Jobs]

ASSUME ConnsAssumption == NoConn \notin Conns

ASSUME StreamBounds == MaxUpdates \in [Jobs -> Nat] /\ MaxMishaps \in Nat

VARIABLES
    status,    \* jobs.status; "absent" before the INSERT
    pc,        \* where each stream's handler is
    conn,      \* the connection it holds, or NoConn
    last,      \* lastStatus: what the client was told last; "none" is ""
    missed,    \* ghost: streams that lost a notification to a failed read
    listening, \* connections on which LISTEN was executed
    inbox,     \* inbox[c]: the payloads waiting at c
    broken,    \* connections that have died in the hands of their holder
    others,    \* connections in use by other handlers of the core
    updates,   \* counts the changes of each job's status, for the bound
    mishaps    \* counts the failures, for the bound

connVars == <<listening, inbox, broken>>
vars == <<status, pc, conn, last, missed, connVars, others, updates, mishaps>>
-----------------------------------------------------------------------------
Table    == INSTANCE JobTable
Terminal == Table!Terminal
Statuses == Table!Statuses

\* At "listening", "reading" and "checking" the handler is before that statement.
Listening == {"listening", "reading", "waiting", "checking"}
StreamPC  == {"off", "acquiring", "polling", "ended"} \cup Listening

Idle == Conns \ (others \cup {conn[s] : s \in Streams})

TypeOK ==
    /\ status    \in [Jobs -> {"absent"} \cup Statuses]
    /\ pc        \in [Streams -> StreamPC]
    /\ conn      \in [Streams -> Conns \cup {NoConn}]
    /\ last      \in [Streams -> {"none"} \cup Statuses]
    /\ missed    \in SUBSET Streams
    /\ listening \in SUBSET Conns
    /\ inbox     \in [Conns -> Seq(Jobs)]
    /\ broken    \in SUBSET Conns
    /\ others    \in SUBSET Conns
    /\ updates   \in [Jobs -> Nat]
    /\ mishaps   \in 0..MaxMishaps

Init ==
    /\ status    = [j \in Jobs |-> "absent"]
    /\ pc        = [s \in Streams |-> "off"]
    /\ conn      = [s \in Streams |-> NoConn]
    /\ last      = [s \in Streams |-> "none"]
    /\ missed    = {}
    /\ listening = {}
    /\ inbox     = [c \in Conns |-> <<>>]
    /\ broken    = {}
    /\ others    = {}
    /\ updates   = [j \in Jobs |-> 0]
    /\ mishaps   = 0

Mishap == mishaps < MaxMishaps /\ mishaps' = mishaps + 1
-----------------------------------------------------------------------------
(* The table jobs and its trigger. *)

\* The trigger fires on UPDATE only.
InsertJob(j) ==
    /\ Table!Insert(j)
    /\ UNCHANGED <<pc, conn, last, missed, connVars, others, updates, mishaps>>

UpdateStatus(j, new) ==
    /\ Table!Update(j, new)
    /\ updates[j] < MaxUpdates[j]
    /\ updates' = [updates EXCEPT ![j] = @ + 1]
    /\ inbox'   = [c \in Conns |-> IF c \in listening \ broken
                                   THEN Append(inbox[c], j) ELSE inbox[c]]
    /\ UNCHANGED <<pc, conn, last, missed, listening, broken, others, mishaps>>
-----------------------------------------------------------------------------
(* External: the connection pool. *)

\* A statement of another handler, which ends, if only by its timeout.
OtherTakes(c) ==
    /\ c \in Idle
    /\ others' = others \cup {c}
    /\ UNCHANGED <<status, pc, conn, last, missed, connVars, updates, mishaps>>

OtherReturns(c) ==
    /\ c \in others
    /\ others' = others \ {c}
    /\ UNCHANGED <<status, pc, conn, last, missed, connVars, updates, mishaps>>

\* conn.Release(): the pool replaces a dead connection and keeps any other as it is.
Release(s) ==
    LET dead == {conn[s]} \cap broken
    IN  /\ conn'      = [conn EXCEPT ![s] = NoConn]
        /\ listening' = listening \ dead
        /\ inbox'     = [c \in Conns |-> IF c \in dead THEN <<>> ELSE inbox[c]]
        /\ broken'    = broken \ dead

\* The connection a stream listens on dies.
ConnBreaks(s) ==
    /\ pc[s] \in Listening /\ conn[s] \notin broken
    /\ Mishap
    /\ broken' = broken \cup {conn[s]}
    /\ UNCHANGED <<status, pc, conn, last, missed, listening, inbox, others, updates>>
-----------------------------------------------------------------------------
(* The handlers of the streams. *)

Goto(s, next) == pc' = [pc EXCEPT ![s] = next] /\ UNCHANGED <<conn, connVars>>

\* Error: a return that does not reach the release.
EndWithoutRelease(s) == Goto(s, "ended")

End(s) == pc' = [pc EXCEPT ![s] = "ended"] /\ Release(s)

\* A client asks for the stream of its job.
Connect(s) ==
    /\ pc[s] = "off"
    /\ Goto(s, IF s \in GrpcStreams THEN "polling" ELSE "acquiring")
    /\ UNCHANGED <<status, last, missed, others, updates, mishaps>>

\* The client goes away: whatever the handler waits for returns an error.
Disconnect(s) ==
    /\ pc[s] \notin {"off", "ended"}
    /\ End(s)
    /\ UNCHANGED <<status, last, missed, others, updates, mishaps>>

\* s.DB.Acquire(ctx) waits, without a timeout, for a connection.
Acquire(s, c) ==
    /\ pc[s] = "acquiring" /\ c \in Idle
    /\ pc'   = [pc EXCEPT ![s] = "listening"]
    /\ conn' = [conn EXCEPT ![s] = c]
    /\ UNCHANGED <<status, last, missed, connVars, others, updates, mishaps>>

AcquireFails(s) ==
    /\ pc[s] = "acquiring"
    /\ Mishap
    /\ End(s)
    /\ UNCHANGED <<status, last, missed, others, updates>>

\* Error: the first read before LISTEN takes effect.
ListenLate(s) ==
    /\ pc[s] = "listening"
    /\ Goto(s, "reading")
    /\ UNCHANGED <<status, last, missed, others, updates, mishaps>>

Listen(s) ==
    /\ pc[s] = "listening" /\ conn[s] \notin broken
    /\ pc'        = [pc EXCEPT ![s] = "reading"]
    /\ listening' = listening \cup {conn[s]}
    /\ UNCHANGED <<status, conn, last, missed, inbox, broken, others, updates, mishaps>>

\* The fallback polls, and still holds the connection.
ListenFails(s) ==
    /\ pc[s] = "listening"
    /\ IF conn[s] \in broken THEN UNCHANGED mishaps ELSE Mishap
    /\ Goto(s, "polling")
    /\ UNCHANGED <<status, last, missed, others, updates>>

\* Error: a job that is not there is reported like any other.
ToldAnything(s, seen) == [last EXCEPT ![s] = seen]

Told(s, seen) == IF seen = "absent" THEN last ELSE [last EXCEPT ![s] = seen]

(***************************************************************************)
(* fetchJob on another connection, again without a timeout, and what is    *)
(* done with the row: a status that differs from the last one is sent, and *)
(* the stream of a finished or unknown job ends.                           *)
(***************************************************************************)
Read(s, next) ==
    LET seen == status[Of[s]]
    IN  /\ Idle # {}
        /\ last'   = Told(s, seen)
        /\ missed' = missed \ {s}
        /\ IF seen \in {"absent"} \cup Terminal THEN End(s) ELSE Goto(s, next)
        /\ UNCHANGED <<status, others, updates, mishaps>>

ReadFirst(s) == pc[s] = "reading" /\ Read(s, "waiting")

ReadFirstFails(s) ==
    /\ pc[s] = "reading"
    /\ Mishap
    /\ End(s)
    /\ UNCHANGED <<status, last, missed, others, updates>>

\* Error: WaitForNotification takes all that has arrived and returns the first.
NotifiedOfFirst(s) ==
    LET c == conn[s]
    IN  /\ pc[s] = "waiting" /\ inbox[c] # <<>>
        /\ inbox' = [inbox EXCEPT ![c] = <<>>]
        /\ pc'    = [pc EXCEPT ![s] = IF Head(inbox[c]) = Of[s] THEN "checking" ELSE @]
        /\ UNCHANGED <<status, conn, last, missed, listening, broken, others,
                       updates, mishaps>>

\* WaitForNotification returns; notifications of other jobs are skipped.
Notified(s) ==
    LET c == conn[s]
    IN  /\ pc[s] = "waiting" /\ inbox[c] # <<>>
        /\ inbox' = [inbox EXCEPT ![c] = Tail(@)]
        /\ pc'    = [pc EXCEPT ![s] = IF Head(inbox[c]) = Of[s] THEN "checking" ELSE @]
        /\ UNCHANGED <<status, conn, last, missed, listening, broken, others,
                       updates, mishaps>>

\* Error: no fallback.
NeverTimesOut(s) == FALSE /\ UNCHANGED vars

\* 15 seconds without a notification, or an error of the connection.
TimesOut(s) ==
    /\ pc[s] = "waiting"
    /\ conn[s] \in broken \/ inbox[conn[s]] = <<>>
    /\ Goto(s, "checking")
    /\ UNCHANGED <<status, last, missed, others, updates, mishaps>>

Check(s) == pc[s] = "checking" /\ Read(s, "waiting")

\* The error is ignored, and with it the notification.
CheckFails(s) ==
    /\ pc[s] = "checking"
    /\ Mishap
    /\ missed' = missed \cup {s}
    /\ Goto(s, "waiting")
    /\ UNCHANGED <<status, last, others, updates>>

Poll(s) == pc[s] = "polling" /\ Read(s, "polling")

\* The gRPC stream ends with the error, the HTTP fallback tries again.
PollFails(s) ==
    /\ pc[s] = "polling"
    /\ Mishap
    /\ IF s \in GrpcStreams THEN End(s) ELSE UNCHANGED <<pc, conn, connVars>>
    /\ UNCHANGED <<status, last, missed, others, updates>>

StreamStep(s) ==
    \/ \E c \in Conns : Acquire(s, c)
    \/ Listen(s) \/ ReadFirst(s)
    \/ Notified(s) \/ TimesOut(s) \/ Check(s)
    \/ Poll(s)

StreamFails(s) ==
    \/ AcquireFails(s) \/ ListenFails(s) \/ ReadFirstFails(s) \/ CheckFails(s)
    \/ PollFails(s) \/ ConnBreaks(s)

Next ==
    \/ \E j \in Jobs : InsertJob(j) \/ (\E new \in Statuses : UpdateStatus(j, new))
    \/ \E c \in Conns : OtherTakes(c) \/ OtherReturns(c)
    \/ \E s \in Streams : Connect(s) \/ Disconnect(s) \/ StreamStep(s) \/ StreamFails(s)

Spec == Init /\ [][Next]_vars

(***************************************************************************)
(* Handlers run; the pool serves its waiters in the order of arrival, so a *)
(* handler that finds a free connection again and again is served; other   *)
(* handlers have timeouts.  No client has to come or go.                   *)
(***************************************************************************)
Fairness ==
    /\ \A s \in Streams : SF_vars(StreamStep(s) \/ (conn[s] \in broken /\ ListenFails(s)))
    /\ \A c \in Conns : WF_vars(OtherReturns(c))

LiveSpec == Spec /\ Fairness
-----------------------------------------------------------------------------
(***************************************************************************)
(* No lost wake-up: a handler that waits while its client has not been     *)
(* told the current status has the notification waiting at its connection, *)
(* unless the connection died or a failed read used the notification up.   *)
(* LISTEN comes before the first read, whatever the pool handed out.       *)
(***************************************************************************)
NoLostWakeup ==
    \A s \in Streams :
        pc[s] = "waiting" /\ status[Of[s]] # last[s] /\ s \notin missed =>
            \/ conn[s] \in broken
            \/ Of[s] \in Range(inbox[conn[s]])

(***************************************************************************)
(* The streams implement StatusWatch.  A handler in WaitForNotification is *)
(* asleep if it hangs on the next notification of its job: none is waiting *)
(* for it, its connection lives, and no failed read has used one up.       *)
(***************************************************************************)
Asleep(s) ==
    /\ pc[s] = "waiting" /\ s \notin missed
    /\ conn[s] \notin broken /\ Of[s] \notin Range(inbox[conn[s]])

Phase(s) ==
    CASE pc[s] \in {"off", "ended"} -> pc[s]
      [] Asleep(s) -> "asleep"
      [] OTHER     -> "due"

Watch == INSTANCE StatusWatch WITH
    told  <- last,
    phase <- [s \in Streams |-> Phase(s)]

ImplementsWatch == Watch!Spec

(***************************************************************************)
(* The pool's connections are accounted for: one holder each, held by the  *)
(* handlers that are between Acquire and their return and by nobody else,  *)
(* and dead ones never go back.                                            *)
(***************************************************************************)
ConnsAccounted ==
    /\ \A s \in Streams :
        /\ pc[s] \in Listening => conn[s] \in Conns
        /\ pc[s] \in {"off", "acquiring", "ended"} \/ s \in GrpcStreams => conn[s] = NoConn
        /\ conn[s] \notin others
        /\ \A t \in Streams : conn[s] = conn[t] /\ conn[s] # NoConn => s = t
    /\ \A c \in broken : \E s \in Streams : conn[s] = c

(***************************************************************************)
(* While the pool has more connections than there are streams, the stream  *)
(* of a job that stays finished ends, after any failed reads, dead         *)
(* connections and notifications of other jobs: with the final status, or  *)
(* with an error event.                                                    *)
(***************************************************************************)
EndIsDelivered ==
    \A s \in Streams :
        (<>[](status[Of[s]] \in Terminal)) =>
            (pc[s] \in {"acquiring", "polling"} ~> pc[s] = "ended")

(***************************************************************************)
(* The comment of the loop of handleJobStream and CHANGELOG.md ("fallback  *)
(* poll in 15 s in case of a missed notify"): a status that a waiting      *)
(* stream has not seen is read after all.                                  *)
(***************************************************************************)
FallbackCoversMissed ==
    \A s \in Streams :
        (pc[s] = "waiting" /\ status[Of[s]] # last[s])
            ~> (pc[s] = "ended" \/ status[Of[s]] = last[s])
=============================================================================
