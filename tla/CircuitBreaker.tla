--------------------------- MODULE CircuitBreaker ---------------------------
(***************************************************************************)
(* The circuit breaker of routing.Router: the map circuits, which counts   *)
(* the failures of a device in a row.  Every method holds the mutex, so    *)
(* each is one step.  A device without an entry has 0 failures.  The count *)
(* is only compared with the threshold, and is kept up to it; DegradedAt   *)
(* is only compared with five minutes ago.                                 *)
(***************************************************************************)
EXTENDS Naturals

CONSTANTS
    Devices,
    Threshold  \* failures that degrade a device (3 in router.go)

VARIABLES
    failures, \* circuits[d].Failures
    fresh     \* devices whose DegradedAt is less than five minutes ago

TypeOK ==
    /\ failures \in [Devices -> 0..Threshold]
    /\ fresh    \in SUBSET Devices

Init ==
    /\ failures = [d \in Devices |-> 0]
    /\ fresh    = {}

Failed(d) == IF failures[d] < Threshold THEN failures[d] + 1 ELSE Threshold

RecordDeviceResult(d, success) ==
    IF success
    THEN /\ failures' = [failures EXCEPT ![d] = 0]
         /\ fresh'    = fresh \ {d}
    ELSE /\ failures' = [failures EXCEPT ![d] = Failed(d)]
         /\ fresh'    = IF Failed(d) = Threshold THEN fresh \cup {d} ELSE fresh

IsDeviceDegraded(d) == failures[d] = Threshold /\ d \in fresh

\* Five minutes without a failure of d: each one at the threshold sets DegradedAt
\* again, so while failures keep coming this may never happen.
FiveMinutesPass(d) ==
    /\ d \in fresh
    /\ fresh' = fresh \ {d}
    /\ UNCHANGED failures

\* The map lives in the memory of the core.
Restart ==
    /\ failures' = [d \in Devices |-> 0]
    /\ fresh'    = {}
=============================================================================
