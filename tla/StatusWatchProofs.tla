-------------------------- MODULE StatusWatchProofs --------------------------
(***************************************************************************)
(* The promise of StatusWatch itself, for any table, any streams and any   *)
(* choice of what each stream watches.                                     *)
(***************************************************************************)
EXTENDS StatusWatch, TLAPS

USE DEF Table!Statuses, Table!Terminal

WellFormed ==
    /\ status \in [Jobs -> {"absent"} \cup Table!Statuses]
    /\ told   \in [Streams -> {"none"} \cup Table!Statuses]
    /\ phase  \in [Streams -> {"off", "due", "asleep", "ended"}]

(***************************************************************************)
(* The rows, what was told and the phases keep their kinds.                *)
(***************************************************************************)
LEMMA StaysWellFormed ==
    ASSUME Of \in [Streams -> Jobs], WellFormed, Next
    PROVE  WellFormed'
BY DEF WellFormed, Next, TableStep, Insert, Table!Insert, Change, Table!Update, Open, Wake, Close,
   Move, Look

(***************************************************************************)
(* A stream falls asleep by looking at the current status.  One that was   *)
(* asleep sleeps on only if the step is not a change of its job, so what   *)
(* could still make its client's view stale is the INSERT.                 *)
(***************************************************************************)
LEMMA WaysToBeAsleep ==
    ASSUME Of \in [Streams -> Jobs], WellFormed, Next,
           NEW s \in Streams, phase'[s] = "asleep"
    PROVE  \/ told'[s] = status'[Of[s]]
           \/ /\ phase[s] = "asleep" /\ told'[s] = told[s]
              /\ status'[Of[s]] = status[Of[s]] \/ status[Of[s]] = "absent"
<1> USE DEF WellFormed
<1> DEFINE SleepsOn == /\ phase[s] = "asleep" /\ told'[s] = told[s]
                       /\ status'[Of[s]] = status[Of[s]] \/ status[Of[s]] = "absent"
<1>change. ASSUME TableStep PROVE SleepsOn
  BY <1>change DEF TableStep, Insert, Table!Insert, Change, Table!Update
<1>own. ASSUME Look(s) PROVE told'[s] = status'[Of[s]]
  BY <1>own DEF Look
<1>other. ASSUME NEW t \in Streams, Open(t) \/ Wake(t) \/ Close(t) \/ (t # s /\ Look(t))
          PROVE  SleepsOn
  BY <1>other DEF Open, Wake, Close, Move, Look
<1> QED
  BY <1>change, <1>own, <1>other DEF Next

(***************************************************************************)
(* Sleeping is safe.  Nobody is told "absent", so a sleeper that knows the *)
(* status has a job with a row, and no INSERT concerns it.                 *)
(***************************************************************************)
THEOREM SleepIsSafe ==
    ASSUME Of \in [Streams -> Jobs]
    PROVE  Spec => []SleepersAreCurrent
<1>start. Init => WellFormed /\ SleepersAreCurrent
  BY DEF Init, Table!Init, WellFormed, SleepersAreCurrent
<1>step. ASSUME WellFormed, SleepersAreCurrent, Next PROVE SleepersAreCurrent'
  <2> SUFFICES ASSUME NEW s \in Streams, phase'[s] = "asleep"
               PROVE  told'[s] = status'[Of[s]]
    BY DEF SleepersAreCurrent
  <2>1. phase[s] = "asleep" => told[s] = status[Of[s]] /\ status[Of[s]] # "absent"
    BY <1>step DEF WellFormed, SleepersAreCurrent
  <2>2. QED
    BY <1>step, <2>1, WaysToBeAsleep
<1>idle. WellFormed /\ SleepersAreCurrent /\ UNCHANGED vars => (WellFormed /\ SleepersAreCurrent)'
  BY DEF WellFormed, SleepersAreCurrent, vars
<1>kept. WellFormed /\ Next => WellFormed'
  BY StaysWellFormed
<1> QED
  BY <1>start, <1>step, <1>idle, <1>kept, PTL DEF Spec
=============================================================================
