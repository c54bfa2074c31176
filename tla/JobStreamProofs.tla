-------------------------- MODULE JobStreamProofs --------------------------
(***************************************************************************)
(* Theorems about JobStream, for every set of jobs, streams and            *)
(* connections and every value of the bounds.                              *)
(***************************************************************************)
EXTENDS JobStream, TLAPS

USE StreamsAssumption, ConnsAssumption, StreamBounds
USE DEF Terminal, Statuses, Listening, StreamPC, connVars
USE DEF Table!Terminal, Table!Statuses, Table!Insert, Table!Update

(***************************************************************************)
(* A notification that waits in an inbox is still there when another one   *)
(* is put behind it,                                                       *)
(***************************************************************************)
LEMMA AppendKeeps ==
    ASSUME NEW S, NEW q \in Seq(S), NEW new \in S
    PROVE  /\ Append(q, new) \in Seq(S)
           /\ new \in Range(Append(q, new))
           /\ \A x \in Range(q) : x \in Range(Append(q, new))
           /\ \A x \in Range(Append(q, new)) : x \in Range(q) \/ x = new
<1>1. /\ Append(q, new) \in Seq(S)
      /\ DOMAIN q = 1..Len(q) /\ DOMAIN Append(q, new) = 1..(Len(q) + 1)
      /\ Append(q, new)[Len(q) + 1] = new
      /\ \A i \in 1..Len(q) : Append(q, new)[i] = q[i]
      /\ Len(q) \in Nat
  OBVIOUS
<1>2. QED
  BY <1>1 DEF Range

(***************************************************************************)
(* and when the first one, not this one, is taken out.                     *)
(***************************************************************************)
LEMMA TailKeeps ==
    ASSUME NEW S, NEW q \in Seq(S), q # <<>>
    PROVE  /\ Tail(q) \in Seq(S) /\ Head(q) \in S
           /\ \A x \in Range(q) : x # Head(q) => x \in Range(Tail(q))
           /\ \A x \in Range(Tail(q)) : x \in Range(q)
           /\ Head(q) \in Range(q)
<1>1. /\ Tail(q) \in Seq(S) /\ Head(q) \in S /\ Head(q) = q[1]
      /\ DOMAIN q = 1..Len(q) /\ DOMAIN Tail(q) = 1..(Len(q) - 1)
      /\ \A i \in 1..(Len(q) - 1) : Tail(q)[i] = q[i + 1]
      /\ Len(q) \in Nat /\ Len(q) > 0
  OBVIOUS
<1>2. ASSUME NEW x \in Range(q), x # Head(q) PROVE x \in Range(Tail(q))
  <2>1. PICK i \in 1..Len(q) : x = q[i]
    BY <1>1 DEF Range
  <2>2. i # 1 /\ i - 1 \in 1..(Len(q) - 1)
    BY <1>1, <1>2, <2>1
  <2>3. Tail(q)[i - 1] = x
    BY <1>1, <2>1, <2>2
  <2>4. QED
    BY <1>1, <2>2, <2>3 DEF Range
<1>3. ASSUME NEW x \in Range(Tail(q)) PROVE x \in Range(q)
  <2>1. PICK i \in 1..(Len(q) - 1) : x = q[i + 1]
    BY <1>1, <1>3 DEF Range
  <2>2. i + 1 \in 1..Len(q)
    BY <1>1
  <2>3. QED
    BY <1>1, <2>1, <2>2 DEF Range
<1>4. Head(q) \in Range(q)
  BY <1>1 DEF Range
<1>5. QED
  BY <1>1, <1>2, <1>3, <1>4

(***************************************************************************)
(* Giving a connection back keeps the types.                               *)
(***************************************************************************)
LEMMA EndType ==
    ASSUME TypeOK, NEW s \in Streams, End(s)
    PROVE  /\ pc' \in [Streams -> StreamPC]
           /\ conn' \in [Streams -> Conns \cup {NoConn}]
           /\ listening' \in SUBSET Conns
           /\ inbox' \in [Conns -> Seq(Jobs)]
           /\ broken' \in SUBSET Conns
<1>1. inbox' \in [Conns -> Seq(Jobs)]
  <2>1. <<>> \in Seq(Jobs)
    OBVIOUS
  <2>2. QED
    BY <2>1 DEF TypeOK, End, Release
<1>2. QED
  BY <1>1 DEF TypeOK, End, Release

\* Between Acquire and its return an SSE handler holds a connection.
HoldsConn == \A s \in Streams : pc[s] \in Listening => conn[s] \in Conns

(***************************************************************************)
(* Type correctness, with what the connections need for it.                *)
(***************************************************************************)
THEOREM StreamTypeCorrect == Spec => [](TypeOK /\ HoldsConn)
<1>1. Init => TypeOK /\ HoldsConn
  <2>1. <<>> \in Seq(Jobs)
    OBVIOUS
  <2>2. QED
    BY <2>1 DEF Init, TypeOK, HoldsConn
<1>2. TypeOK /\ HoldsConn /\ [Next]_vars => TypeOK'
  <2> SUFFICES ASSUME TypeOK, HoldsConn, [Next]_vars PROVE TypeOK'
    OBVIOUS
  <2>1. ASSUME NEW j \in Jobs, InsertJob(j) PROVE TypeOK'
    BY <2>1 DEF TypeOK, InsertJob
  <2>2. ASSUME NEW j \in Jobs, NEW new \in Statuses, UpdateStatus(j, new) PROVE TypeOK'
    <3>1. inbox' \in [Conns -> Seq(Jobs)]
      <4>1. \A c \in Conns : Append(inbox[c], j) \in Seq(Jobs)
        BY AppendKeeps DEF TypeOK
      <4>2. QED
        BY <2>2, <4>1 DEF TypeOK, UpdateStatus
    <3>2. QED
      BY <2>2, <3>1 DEF TypeOK, UpdateStatus
  <2>3. ASSUME NEW c \in Conns, OtherTakes(c) \/ OtherReturns(c) PROVE TypeOK'
    BY <2>3 DEF TypeOK, OtherTakes, OtherReturns
  <2>4. ASSUME NEW s \in Streams, Connect(s) PROVE TypeOK'
    BY <2>4 DEF TypeOK, Connect, Goto
  <2>5. ASSUME NEW s \in Streams, Disconnect(s) PROVE TypeOK'
    BY <2>5, EndType DEF TypeOK, Disconnect
  <2>6. ASSUME NEW s \in Streams, NEW c \in Conns, Acquire(s, c) PROVE TypeOK'
    BY <2>6 DEF TypeOK, Acquire
  <2>7. ASSUME NEW s \in Streams, NEW next \in {"waiting", "polling"}, Read(s, next)
        PROVE TypeOK'
    <3>1. status[Of[s]] \in {"absent"} \cup Statuses
      BY DEF TypeOK
    <3>2. last' \in [Streams -> {"none"} \cup Statuses] /\ missed' \in SUBSET Streams
      BY <2>7, <3>1 DEF TypeOK, Read, Told
    <3>3. CASE status[Of[s]] \in {"absent"} \cup Terminal
      BY <2>7, <3>2, <3>3, EndType DEF TypeOK, Read
    <3>4. CASE status[Of[s]] \notin {"absent"} \cup Terminal
      BY <2>7, <3>2, <3>4 DEF TypeOK, Read, Goto
    <3>5. QED
      BY <3>3, <3>4
  <2>8. ASSUME NEW s \in Streams, Listen(s) PROVE TypeOK'
    BY <2>8 DEF TypeOK, HoldsConn, Listen
  <2>9. ASSUME NEW s \in Streams, Notified(s) PROVE TypeOK'
    <3>1. inbox' \in [Conns -> Seq(Jobs)]
      BY <2>9, TailKeeps DEF TypeOK, Notified
    <3>2. QED
      BY <2>9, <3>1 DEF TypeOK, Notified
  <2>10. ASSUME NEW s \in Streams, TimesOut(s) PROVE TypeOK'
    BY <2>10 DEF TypeOK, TimesOut, Goto
  <2>11. ASSUME NEW s \in Streams, ReadFirst(s) \/ Check(s) \/ Poll(s) PROVE TypeOK'
    BY <2>7, <2>11 DEF ReadFirst, Check, Poll
  <2>12. ASSUME NEW s \in Streams, AcquireFails(s) \/ ReadFirstFails(s) PROVE TypeOK'
    BY <2>12, EndType DEF TypeOK, AcquireFails, ReadFirstFails, Mishap
  <2>13. ASSUME NEW s \in Streams, ListenFails(s) PROVE TypeOK'
    BY <2>13 DEF TypeOK, ListenFails, Mishap, Goto
  <2>14. ASSUME NEW s \in Streams, CheckFails(s) PROVE TypeOK'
    BY <2>14 DEF TypeOK, CheckFails, Mishap, Goto
  <2>15. ASSUME NEW s \in Streams, PollFails(s) PROVE TypeOK'
    <3>1. CASE s \in GrpcStreams
      BY <2>15, <3>1, EndType DEF TypeOK, PollFails, Mishap
    <3>2. CASE s \notin GrpcStreams
      BY <2>15, <3>2 DEF TypeOK, PollFails, Mishap
    <3>3. QED
      BY <3>1, <3>2
  <2>16. ASSUME NEW s \in Streams, ConnBreaks(s) PROVE TypeOK'
    BY <2>16 DEF TypeOK, HoldsConn, ConnBreaks, Mishap
  <2>17. CASE UNCHANGED vars
    BY <2>17 DEF TypeOK, vars
  <2>18. QED
    BY <2>1, <2>2, <2>3, <2>4, <2>5, <2>6, <2>8, <2>9, <2>10, <2>11, <2>12, <2>13,
       <2>14, <2>15, <2>16, <2>17 DEF Next, StreamStep, StreamFails
<1>3. TypeOK /\ HoldsConn /\ [Next]_vars => HoldsConn'
  <2> SUFFICES ASSUME TypeOK, HoldsConn, [Next]_vars PROVE HoldsConn'
    OBVIOUS
  <2>1. ASSUME NEW s \in Streams, End(s) PROVE HoldsConn'
    BY <2>1 DEF TypeOK, HoldsConn, End, Release
  <2>2. ASSUME NEW s \in Streams, NEW next \in {"polling", "acquiring"}, Goto(s, next)
        PROVE HoldsConn'
    BY <2>2 DEF TypeOK, HoldsConn, Goto
  <2>3. ASSUME NEW s \in Streams, pc[s] \in Listening, NEW next \in StreamPC, Goto(s, next)
        PROVE HoldsConn'
    BY <2>3 DEF TypeOK, HoldsConn, Goto
  <2>4. ASSUME NEW s \in Streams, NEW c \in Conns, Acquire(s, c) PROVE HoldsConn'
    BY <2>4 DEF TypeOK, HoldsConn, Acquire, Idle
  <2>5. ASSUME NEW s \in Streams, Listen(s) \/ Notified(s) PROVE HoldsConn'
    BY <2>5 DEF TypeOK, HoldsConn, Listen, Notified
  <2>6. CASE UNCHANGED <<pc, conn>>
    BY <2>6 DEF HoldsConn
  <2>7. ASSUME NEW s \in Streams, StreamStep(s) PROVE HoldsConn'
    BY <2>1, <2>2, <2>3, <2>4, <2>5, <2>7
       DEF StreamStep, ReadFirst, Check, Poll, Read, TimesOut
  <2>8. ASSUME NEW s \in Streams, StreamFails(s) PROVE HoldsConn'
    BY <2>1, <2>2, <2>3, <2>6, <2>8
       DEF StreamFails, AcquireFails, ListenFails, ReadFirstFails, CheckFails,
           PollFails, ConnBreaks
  <2>9. ASSUME NEW s \in Streams, Connect(s) \/ Disconnect(s) PROVE HoldsConn'
    BY <2>1, <2>2, <2>9 DEF Connect, Disconnect
  <2>10. QED
    BY <2>6, <2>7, <2>8, <2>9
       DEF Next, InsertJob, UpdateStatus, OtherTakes, OtherReturns, vars
<1>4. QED
  BY <1>1, <1>2, <1>3, PTL DEF Spec

(***************************************************************************)
(* The pool.  The inductive invariant is ConnsAccounted, and that gRPC     *)
(* streams never acquire a connection of their own.                        *)
(***************************************************************************)
GrpcPolls == \A s \in GrpcStreams : pc[s] \in {"off", "polling", "ended"}
ConnInv   == ConnsAccounted /\ GrpcPolls

(***************************************************************************)
(* A handler that returns leaves the other connections where they are.     *)
(***************************************************************************)
LEMMA EndKeepsConns ==
    ASSUME TypeOK, HoldsConn, ConnInv, NEW s \in Streams, End(s), UNCHANGED others
    PROVE  ConnInv'
<1>1. /\ pc' = [pc EXCEPT ![s] = "ended"] /\ conn' = [conn EXCEPT ![s] = NoConn]
      /\ broken' = broken \ {conn[s]}
  BY DEF End, Release
<1>2. GrpcPolls'
  BY <1>1 DEF TypeOK, ConnInv, GrpcPolls
<1>3. ASSUME NEW t \in Streams
      PROVE  /\ pc'[t] \in Listening => conn'[t] \in Conns
             /\ pc'[t] \in {"off", "acquiring", "ended"} \/ t \in GrpcStreams
                    => conn'[t] = NoConn
             /\ conn'[t] \notin others'
             /\ \A u \in Streams : conn'[t] = conn'[u] /\ conn'[t] # NoConn => t = u
  BY <1>1 DEF TypeOK, ConnInv, ConnsAccounted
<1>4. ASSUME NEW c \in broken' PROVE \E t \in Streams : conn'[t] = c
  <2>1. PICK t \in Streams : conn[t] = c
    BY <1>1, <1>4 DEF ConnInv, ConnsAccounted
  <2>2. t # s /\ conn'[t] = c
    BY <1>1, <1>4, <2>1 DEF TypeOK
  <2>3. QED
    BY <2>2
<1>5. QED
  BY <1>2, <1>3, <1>4 DEF ConnInv, ConnsAccounted

(***************************************************************************)
(* A step of a handler's control leaves the pool alone.                    *)
(***************************************************************************)
LEMMA GotoKeepsConns ==
    ASSUME TypeOK, HoldsConn, ConnInv, NEW s \in Streams, NEW next \in StreamPC,
           Goto(s, next), UNCHANGED others,
           next \in Listening => pc[s] \in Listening,
           next = "acquiring" => pc[s] = "off" /\ s \notin GrpcStreams,
           next \notin {"off", "ended"}
    PROVE  ConnInv'
<1>1. pc' = [pc EXCEPT ![s] = next] /\ UNCHANGED <<conn, broken, others>>
  BY DEF Goto
<1>2. pc[s] \in Listening => s \notin GrpcStreams
  BY DEF ConnInv, GrpcPolls
<1>3. GrpcPolls'
  BY <1>1, <1>2 DEF TypeOK, ConnInv, GrpcPolls
<1>4. ASSUME NEW t \in Streams
      PROVE  /\ pc'[t] \in Listening => conn'[t] \in Conns
             /\ pc'[t] \in {"off", "acquiring", "ended"} \/ t \in GrpcStreams
                    => conn'[t] = NoConn
             /\ conn'[t] \notin others'
             /\ \A u \in Streams : conn'[t] = conn'[u] /\ conn'[t] # NoConn => t = u
  BY <1>1 DEF TypeOK, HoldsConn, ConnInv, ConnsAccounted
<1>5. QED
  BY <1>1, <1>3, <1>4 DEF ConnInv, ConnsAccounted

(***************************************************************************)
(* Every connection has one holder at most, handlers that have returned    *)
(* hold none, and dead connections do not go back to the pool.             *)
(***************************************************************************)
THEOREM PoolSafe == Spec => []ConnInv
<1>1. Init => ConnInv
  BY DEF Init, ConnInv, ConnsAccounted, GrpcPolls
<1>2. TypeOK /\ HoldsConn /\ ConnInv /\ [Next]_vars => ConnInv'
  <2> SUFFICES ASSUME TypeOK, HoldsConn, ConnInv, [Next]_vars PROVE ConnInv'
    OBVIOUS
  <2>1. ASSUME NEW s \in Streams, NEW c \in Conns, Acquire(s, c) PROVE ConnInv'
    <3>1. /\ pc' = [pc EXCEPT ![s] = "listening"] /\ conn' = [conn EXCEPT ![s] = c]
          /\ UNCHANGED <<broken, others>>
          /\ pc[s] = "acquiring" /\ conn[s] = NoConn
          /\ c \notin others /\ \A t \in Streams : conn[t] # c
      BY <2>1 DEF Acquire, Idle, ConnInv, ConnsAccounted
    <3>2. s \notin GrpcStreams
      BY <3>1 DEF ConnInv, GrpcPolls
    <3>3. GrpcPolls'
      BY <3>1, <3>2 DEF TypeOK, ConnInv, GrpcPolls
    <3>4. ASSUME NEW t \in Streams
          PROVE  /\ pc'[t] \in Listening => conn'[t] \in Conns
                 /\ pc'[t] \in {"off", "acquiring", "ended"} \/ t \in GrpcStreams
                        => conn'[t] = NoConn
                 /\ conn'[t] \notin others'
                 /\ \A u \in Streams : conn'[t] = conn'[u] /\ conn'[t] # NoConn => t = u
      BY <3>1, <3>2 DEF TypeOK, ConnInv, ConnsAccounted
    <3>5. ASSUME NEW b \in broken' PROVE \E t \in Streams : conn'[t] = b
      <4>1. PICK t \in Streams : conn[t] = b
        BY <3>1, <3>5 DEF ConnInv, ConnsAccounted
      <4>2. b # NoConn
        BY <3>1, <3>5 DEF TypeOK
      <4>3. QED
        BY <3>1, <4>1, <4>2 DEF TypeOK
    <3>6. QED
      BY <3>3, <3>4, <3>5 DEF ConnInv, ConnsAccounted
  <2>2. ASSUME NEW s \in Streams, Listen(s) PROVE ConnInv'
    <3>1. pc' = [pc EXCEPT ![s] = "reading"] /\ pc[s] = "listening"
          /\ UNCHANGED <<conn, broken, others>>
      BY <2>2 DEF Listen
    <3>2. QED
      BY <3>1 DEF TypeOK, ConnInv, ConnsAccounted, GrpcPolls
  <2>3. ASSUME NEW s \in Streams, Notified(s) PROVE ConnInv'
    <3>1. /\ pc[s] = "waiting" /\ UNCHANGED <<conn, broken, others>>
          /\ \A t \in Streams : pc'[t] = pc[t] \/ (t = s /\ pc'[t] = "checking")
      BY <2>3 DEF Notified, TypeOK
    <3>2. QED
      BY <3>1 DEF TypeOK, ConnInv, ConnsAccounted, GrpcPolls
  <2>4. ASSUME NEW s \in Streams, ConnBreaks(s) PROVE ConnInv'
    <3>1. UNCHANGED <<pc, conn, others>> /\ broken' = broken \cup {conn[s]}
      BY <2>4 DEF ConnBreaks
    <3>2. QED
      BY <3>1 DEF ConnInv, ConnsAccounted, GrpcPolls
  <2>5. ASSUME NEW c \in Conns, OtherTakes(c) \/ OtherReturns(c) PROVE ConnInv'
    <3>1. UNCHANGED <<pc, conn, broken>>
          /\ \A t \in Streams : conn[t] \notin others'
      BY <2>5 DEF OtherTakes, OtherReturns, Idle, ConnInv, ConnsAccounted
    <3>2. QED
      BY <3>1 DEF ConnInv, ConnsAccounted, GrpcPolls
  <2>6. ASSUME NEW s \in Streams, NEW next \in {"waiting", "polling"}, Read(s, next),
               pc[s] \in Listening \/ (pc[s] = "polling" /\ next = "polling")
        PROVE  ConnInv'
    <3>1. (End(s) \/ Goto(s, next)) /\ UNCHANGED others
      BY <2>6 DEF Read
    <3>2. QED
      BY <2>6, <3>1, EndKeepsConns, GotoKeepsConns
  <2>7. ASSUME NEW s \in Streams, ReadFirst(s) \/ Check(s) \/ Poll(s) PROVE ConnInv'
    BY <2>6, <2>7 DEF ReadFirst, Check, Poll
  <2>8. ASSUME NEW s \in Streams, TimesOut(s) PROVE ConnInv'
    BY <2>8, GotoKeepsConns DEF TimesOut
  <2>9. CASE UNCHANGED <<pc, conn, broken, others>>
    BY <2>9 DEF ConnInv, ConnsAccounted, GrpcPolls
  <2>10. ASSUME NEW s \in Streams, AcquireFails(s) \/ ReadFirstFails(s) \/ Disconnect(s)
         PROVE ConnInv'
    BY <2>10, EndKeepsConns DEF AcquireFails, ReadFirstFails, Disconnect
  <2>11. ASSUME NEW s \in Streams, ListenFails(s) \/ CheckFails(s) PROVE ConnInv'
    BY <2>11, GotoKeepsConns DEF ListenFails, CheckFails
  <2>12. ASSUME NEW s \in Streams, PollFails(s) PROVE ConnInv'
    BY <2>9, <2>12, EndKeepsConns DEF PollFails
  <2>13. ASSUME NEW s \in Streams, Connect(s) PROVE ConnInv'
    BY <2>13, GotoKeepsConns DEF Connect
  <2>14. CASE \E j \in Jobs : InsertJob(j) \/ \E new \in Statuses : UpdateStatus(j, new)
    BY <2>9, <2>14 DEF InsertJob, UpdateStatus
  <2>15. CASE UNCHANGED vars
    BY <2>9, <2>15 DEF vars
  <2>16. QED
    BY <2>1, <2>2, <2>3, <2>4, <2>5, <2>7, <2>8, <2>10, <2>11, <2>12, <2>13, <2>14, <2>15
       DEF Next, StreamStep, StreamFails
<1>3. QED
  BY <1>1, <1>2, StreamTypeCorrect, PTL DEF Spec

(***************************************************************************)
(* PoolSafe, as the runs state it.                                         *)
(***************************************************************************)
COROLLARY PoolAccounted == Spec => []ConnsAccounted
<1>1. ConnInv => ConnsAccounted
  BY DEF ConnInv
<1>2. QED
  BY <1>1, PoolSafe, PTL

(***************************************************************************)
(* No lost wake-up.  NoLostWakeup becomes inductive with what precedes     *)
(* it: from its first read on a handler listens, and its job exists.       *)
(***************************************************************************)
Subscribed == \A s \in Streams :
    pc[s] \in {"reading", "waiting", "checking"} => conn[s] \in listening
JobExists == \A s \in Streams :
    pc[s] \in {"waiting", "checking"} => status[Of[s]] # "absent"
WakeInv == Subscribed /\ JobExists /\ NoLostWakeup

\* What WakeInv says of one handler.
Wakeable(s) ==
    /\ pc[s] \in {"reading", "waiting", "checking"} => conn[s] \in listening
    /\ pc[s] \in {"waiting", "checking"} => status[Of[s]] # "absent"
    /\ pc[s] = "waiting" /\ status[Of[s]] # last[s] /\ s \notin missed =>
        conn[s] \in broken \/ Of[s] \in Range(inbox[conn[s]])

(***************************************************************************)
(* WakeInv, one handler at a time.                                         *)
(***************************************************************************)
LEMMA WakeableAll ==
    /\ WakeInv => \A s \in Streams : Wakeable(s)
    /\ (\A s \in Streams : Wakeable(s)') => WakeInv'
BY DEF WakeInv, Subscribed, JobExists, NoLostWakeup, Wakeable

(***************************************************************************)
(* A handler is as it was if its variables are and its connection is.      *)
(***************************************************************************)
LEMMA WakeableKept ==
    ASSUME NEW s \in Streams, Wakeable(s),
           pc'[s] = pc[s], conn'[s] = conn[s], last'[s] = last[s], UNCHANGED status,
           s \in missed => s \in missed',
           pc[s] \in Listening =>
               /\ conn[s] \in listening => conn[s] \in listening'
               /\ conn[s] \in broken => conn[s] \in broken'
               /\ inbox'[conn[s]] = inbox[conn[s]]
    PROVE  Wakeable(s)'
BY DEF Wakeable

(***************************************************************************)
(* A handler that returns is no longer concerned, and gives back a         *)
(* connection that no other handler has.                                   *)
(***************************************************************************)
LEMMA EndKeepsWakeable ==
    ASSUME TypeOK, HoldsConn, ConnInv, WakeInv, NEW s \in Streams, End(s), UNCHANGED status,
           \A t \in Streams \ {s} : last'[t] = last[t] /\ (t \in missed => t \in missed')
    PROVE  WakeInv'
<1>1. ASSUME NEW t \in Streams PROVE Wakeable(t)'
  <2>1. CASE t = s
    BY <2>1 DEF TypeOK, End, Wakeable
  <2>2. CASE t # s
    <3>1. pc'[t] = pc[t] /\ conn'[t] = conn[t]
      BY <2>2 DEF TypeOK, End, Release
    <3>2. pc[t] \in Listening => conn[t] \in Conns /\ conn[t] # conn[s]
      BY <2>2 DEF HoldsConn, ConnInv, ConnsAccounted
    <3>3. pc[t] \in Listening =>
            /\ conn[t] \in listening => conn[t] \in listening'
            /\ conn[t] \in broken => conn[t] \in broken'
            /\ inbox'[conn[t]] = inbox[conn[t]]
      BY <3>2 DEF End, Release
    <3>4. QED
      BY <2>2, <3>1, <3>3, WakeableKept, WakeableAll
  <2>3. QED
    BY <2>1, <2>2
<1>2. QED
  BY <1>1, WakeableAll

(***************************************************************************)
(* A step of one handler's control, which has no reason to wait in vain.   *)
(***************************************************************************)
LEMMA GotoKeepsWakeable ==
    ASSUME TypeOK, WakeInv, NEW s \in Streams, NEW next \in StreamPC, Goto(s, next),
           UNCHANGED status,
           next \in {"reading", "waiting", "checking"} => conn[s] \in listening,
           next \in {"waiting", "checking"} => status[Of[s]] # "absent",
           next = "waiting" => last'[s] = status[Of[s]] \/ s \in missed',
           \A t \in Streams \ {s} : last'[t] = last[t] /\ (t \in missed => t \in missed')
    PROVE  WakeInv'
<1>1. ASSUME NEW t \in Streams PROVE Wakeable(t)'
  <2>1. CASE t = s
    BY <2>1 DEF TypeOK, Goto, Wakeable
  <2>2. CASE t # s
    BY <2>2, WakeableKept, WakeableAll DEF TypeOK, Goto
  <2>3. QED
    BY <2>1, <2>2
<1>2. QED
  BY <1>1, WakeableAll

(***************************************************************************)
(* A handler that is past LISTEN is subscribed, and misses no change of    *)
(* its job from its first read on, in every reachable state.               *)
(***************************************************************************)
THEOREM WakeSafe == Spec => []WakeInv
<1>1. Init => WakeInv
  BY DEF Init, WakeInv, Subscribed, JobExists, NoLostWakeup
<1>2. TypeOK /\ HoldsConn /\ ConnInv /\ WakeInv /\ [Next]_vars => WakeInv'
  <2> SUFFICES ASSUME TypeOK, HoldsConn, ConnInv, WakeInv, [Next]_vars PROVE WakeInv'
    OBVIOUS
  <2> USE WakeableAll
  <2>1. ASSUME NEW j \in Jobs, InsertJob(j) PROVE WakeInv'
    <3>1. ASSUME NEW t \in Streams PROVE Wakeable(t)'
      <4>1. CASE pc[t] \in {"waiting", "checking"}
        <5>1. Of[t] # j
          BY <2>1, <4>1 DEF InsertJob, WakeInv, JobExists
        <5>2. QED
          BY <2>1, <4>1, <5>1 DEF InsertJob, TypeOK, Wakeable
      <4>2. CASE pc[t] \notin {"waiting", "checking"}
        BY <2>1, <4>2 DEF InsertJob, Wakeable
      <4>3. QED
        BY <4>1, <4>2
    <3>2. QED
      BY <3>1
  <2>2. ASSUME NEW j \in Jobs, NEW new \in Statuses, UpdateStatus(j, new) PROVE WakeInv'
    <3>1. ASSUME NEW t \in Streams PROVE Wakeable(t)'
      <4>1. CASE pc[t] \notin {"reading", "waiting", "checking"}
        BY <2>2, <4>1 DEF UpdateStatus, Wakeable
      <4>2. CASE pc[t] \in {"reading", "waiting", "checking"}
        <5>1. conn[t] \in Conns /\ conn[t] \in listening
          BY <4>2 DEF HoldsConn, WakeInv, Subscribed
        <5>2. status'[Of[t]] # "absent" \/ pc[t] = "reading"
          BY <2>2, <4>2 DEF UpdateStatus, TypeOK, WakeInv, JobExists
        <5>3. CASE conn[t] \in broken
          BY <2>2, <4>2, <5>1, <5>2, <5>3 DEF UpdateStatus, Wakeable
        <5>4. CASE conn[t] \notin broken
          <6>1. inbox'[conn[t]] = Append(inbox[conn[t]], j)
            BY <2>2, <5>1, <5>4 DEF UpdateStatus
          <6>2. /\ j \in Range(inbox'[conn[t]])
                /\ \A x \in Range(inbox[conn[t]]) : x \in Range(inbox'[conn[t]])
            BY <5>1, <6>1, AppendKeeps DEF TypeOK
          <6>3. Of[t] # j => status'[Of[t]] = status[Of[t]]
            BY <2>2 DEF UpdateStatus, TypeOK
          <6>4. Wakeable(t)
            OBVIOUS
          <6>5. QED
            BY <2>2, <4>2, <5>1, <5>2, <6>2, <6>3, <6>4 DEF UpdateStatus, Wakeable
        <5>5. QED
          BY <5>3, <5>4
      <4>3. QED
        BY <4>1, <4>2
    <3>2. QED
      BY <3>1
  <2>3. ASSUME NEW s \in Streams, NEW c \in Conns, Acquire(s, c) PROVE WakeInv'
    BY <2>3, WakeableKept DEF Acquire, TypeOK, Wakeable
  <2>4. ASSUME NEW s \in Streams, Listen(s) PROVE WakeInv'
    BY <2>4, WakeableKept DEF Listen, TypeOK, Wakeable
  <2>5. ASSUME NEW s \in Streams, Notified(s) PROVE WakeInv'
    <3> DEFINE c == conn[s]
    <3>1. c \in Conns /\ inbox[c] \in Seq(Jobs) /\ inbox[c] # <<>>
      BY <2>5 DEF Notified, HoldsConn, TypeOK
    <3>2. ASSUME NEW t \in Streams, t # s PROVE Wakeable(t)'
      <4>1. pc[t] \in Listening => conn[t] # c
        BY <2>5, <3>1, <3>2 DEF ConnInv, ConnsAccounted
      <4>2. QED
        BY <2>5, <3>2, <4>1, WakeableKept DEF Notified, TypeOK
    <3>3. Wakeable(s)'
      <4>1. inbox'[c] = Tail(inbox[c])
        BY <2>5, <3>1 DEF Notified, TypeOK
      <4>2. \A x \in Range(inbox[c]) : x # Head(inbox[c]) => x \in Range(inbox'[c])
        BY <3>1, <4>1, TailKeeps
      <4>3. Wakeable(s)
        OBVIOUS
      <4>4. QED
        BY <2>5, <4>2, <4>3 DEF Notified, TypeOK, Wakeable
    <3>4. QED
      BY <3>2, <3>3
  <2>6. ASSUME NEW s \in Streams, NEW next \in {"waiting", "polling"}, Read(s, next),
               next = "waiting" => pc[s] \in {"reading", "checking"}
        PROVE  WakeInv'
    <3>1. \A t \in Streams \ {s} : last'[t] = last[t] /\ (t \in missed => t \in missed')
      BY <2>6 DEF Read, Told, TypeOK
    <3>2. CASE status[Of[s]] \in {"absent"} \cup Terminal
      BY <2>6, <3>1, <3>2, EndKeepsWakeable DEF Read
    <3>3. CASE status[Of[s]] \notin {"absent"} \cup Terminal
      <4>1. last'[s] = status[Of[s]] /\ Goto(s, next)
        BY <2>6, <3>3 DEF Read, Told, TypeOK
      <4>2. next = "waiting" => conn[s] \in listening
        BY <2>6 DEF WakeInv, Subscribed
      <4>3. QED
        BY <2>6, <3>1, <3>3, <4>1, <4>2, GotoKeepsWakeable DEF Read
    <3>4. QED
      BY <3>2, <3>3
  <2>7. ASSUME NEW s \in Streams, ReadFirst(s) \/ Check(s) \/ Poll(s) PROVE WakeInv'
    BY <2>6, <2>7 DEF ReadFirst, Check, Poll
  <2>8. ASSUME NEW s \in Streams, TimesOut(s) PROVE WakeInv'
    BY <2>8, GotoKeepsWakeable DEF TimesOut, WakeInv, Subscribed, JobExists
  <2>9. ASSUME NEW s \in Streams, CheckFails(s) PROVE WakeInv'
    BY <2>9, GotoKeepsWakeable DEF CheckFails, WakeInv, Subscribed, JobExists
  <2>10. ASSUME NEW s \in Streams, AcquireFails(s) \/ ReadFirstFails(s) \/ Disconnect(s)
         PROVE WakeInv'
    BY <2>10, EndKeepsWakeable DEF AcquireFails, ReadFirstFails, Disconnect
  <2>11. ASSUME NEW s \in Streams, ListenFails(s) \/ Connect(s) PROVE WakeInv'
    BY <2>11, GotoKeepsWakeable DEF ListenFails, Connect
  <2>12. ASSUME NEW s \in Streams, PollFails(s) PROVE WakeInv'
    BY <2>12, EndKeepsWakeable, WakeableKept DEF PollFails
  <2>13. ASSUME NEW s \in Streams, ConnBreaks(s) PROVE WakeInv'
    BY <2>13, WakeableKept DEF ConnBreaks
  <2>14. CASE \E c \in Conns : OtherTakes(c) \/ OtherReturns(c)
    BY <2>14, WakeableKept DEF OtherTakes, OtherReturns
  <2>15. CASE UNCHANGED vars
    BY <2>15, WakeableKept DEF vars
  <2>16. QED
    BY <2>1, <2>2, <2>3, <2>4, <2>5, <2>7, <2>8, <2>9, <2>10, <2>11, <2>12, <2>13,
       <2>14, <2>15 DEF Next, StreamStep, StreamFails
<1>3. QED
  BY <1>1, <1>2, StreamTypeCorrect, PoolSafe, PTL DEF Spec

(***************************************************************************)
(* A handler that waits while its client has not been told the current     *)
(* status has the notification waiting at its connection, unless that died *)
(* or a failed read used the notification up.                              *)
(***************************************************************************)
COROLLARY WakeupsKept == Spec => []NoLostWakeup
<1>1. WakeInv => NoLostWakeup
  BY DEF WakeInv
<1>2. QED
  BY <1>1, WakeSafe, PTL
-----------------------------------------------------------------------------
(* The streams implement StatusWatch. *)

(***************************************************************************)
(* The phase of a handler, before and after a step.                        *)
(***************************************************************************)
LEMMA PhaseIs ==
    ASSUME NEW s \in Streams
    PROVE  /\ pc[s] \in {"off", "ended"} => Phase(s) = pc[s]
           /\ Asleep(s) => Phase(s) = "asleep"
           /\ pc[s] \notin {"off", "ended"} /\ ~Asleep(s) => Phase(s) = "due"
           /\ pc'[s] \in {"off", "ended"} => Phase(s)' = pc'[s]
           /\ Asleep(s)' => Phase(s)' = "asleep"
           /\ pc'[s] \notin {"off", "ended"} /\ ~Asleep(s)' => Phase(s)' = "due"
BY DEF Phase, Asleep

(***************************************************************************)
(* A handler is in the phase it was in if it and its connection are as     *)
(* they were.                                                              *)
(***************************************************************************)
LEMMA SamePhase ==
    ASSUME NEW t \in Streams, pc'[t] = pc[t],
           pc[t] = "waiting" =>
               /\ conn'[t] = conn[t]
               /\ t \in missed' <=> t \in missed
               /\ conn[t] \in broken' <=> conn[t] \in broken
               /\ Of[t] \in Range(inbox'[conn[t]]) <=> Of[t] \in Range(inbox[conn[t]])
    PROVE  Phase(t)' = Phase(t)
<1>1. Asleep(t)' <=> Asleep(t)
  BY DEF Asleep
<1>2. QED
  BY <1>1, PhaseIs

(***************************************************************************)
(* A handler that waits has a connection that no other handler has.        *)
(***************************************************************************)
LEMMA OwnConn ==
    ASSUME HoldsConn, ConnInv, NEW s \in Streams, NEW t \in Streams, t # s,
           pc[t] \in Listening
    PROVE  conn[t] \in Conns /\ conn[t] # conn[s]
BY DEF HoldsConn, ConnInv, ConnsAccounted

(***************************************************************************)
(* A handler that returns has ended, and the others notice nothing.        *)
(***************************************************************************)
LEMMA EndPhases ==
    ASSUME TypeOK, HoldsConn, ConnInv, NEW s \in Streams, End(s),
           \A t \in Streams \ {s} : t \in missed' <=> t \in missed
    PROVE  /\ Phase(s)' = "ended"
           /\ \A t \in Streams \ {s} : Phase(t)' = Phase(t)
<1>1. pc' = [pc EXCEPT ![s] = "ended"] /\ conn' = [conn EXCEPT ![s] = NoConn]
  BY DEF End, Release
<1>2. Phase(s)' = "ended"
  BY <1>1, PhaseIs DEF TypeOK
<1>3. ASSUME NEW t \in Streams \ {s} PROVE Phase(t)' = Phase(t)
  <2>1. pc'[t] = pc[t] /\ conn'[t] = conn[t]
    BY <1>1 DEF TypeOK
  <2>2. pc[t] = "waiting" => conn[t] \in Conns /\ conn[t] # conn[s]
    BY OwnConn
  <2>3. pc[t] = "waiting" =>
          /\ conn[t] \in broken' <=> conn[t] \in broken
          /\ inbox'[conn[t]] = inbox[conn[t]]
    BY <2>2 DEF End, Release
  <2>4. QED
    BY <2>1, <2>3, SamePhase
<1>4. QED
  BY <1>2, <1>3

(***************************************************************************)
(* A step of one handler's control leaves the others in their phases.      *)
(***************************************************************************)
LEMMA GotoPhases ==
    ASSUME TypeOK, NEW s \in Streams, NEW next \in StreamPC, Goto(s, next),
           \A t \in Streams \ {s} : t \in missed' <=> t \in missed
    PROVE  /\ pc'[s] = next
           /\ \A t \in Streams \ {s} : Phase(t)' = Phase(t)
<1>1. pc' = [pc EXCEPT ![s] = next] /\ UNCHANGED <<conn, broken, inbox>>
  BY DEF Goto
<1>2. QED
  BY <1>1, SamePhase DEF TypeOK

(***************************************************************************)
(* The steps of StatusWatch, seen from a step of the streams: none,        *)
(***************************************************************************)
LEMMA WatchStutters ==
    ASSUME UNCHANGED <<status, last>>, \A t \in Streams : Phase(t)' = Phase(t)
    PROVE  UNCHANGED Watch!vars
BY DEF Watch!vars

(***************************************************************************)
(* a stream that opens, wakes or closes,                                   *)
(***************************************************************************)
LEMMA WatchMoves ==
    ASSUME NEW s \in Streams, UNCHANGED <<status, last>>, NEW from, NEW to,
           Phase(s) \in from, Phase(s)' = to,
           \A t \in Streams \ {s} : Phase(t)' = Phase(t)
    PROVE  Watch!Move(s, from, to)
BY DEF Watch!Move

(***************************************************************************)
(* a stream that looks.                                                    *)
(***************************************************************************)
LEMMA WatchLooks ==
    ASSUME NEW s \in Streams, UNCHANGED status, last' = Told(s, status[Of[s]]),
           Phase(s) = "due",
           status[Of[s]] \in {"absent"} \cup Terminal => Phase(s)' = "ended",
           status[Of[s]] \notin {"absent"} \cup Terminal => Phase(s)' \in {"due", "asleep"},
           \A t \in Streams \ {s} : Phase(t)' = Phase(t)
    PROVE  Watch!Look(s)
<1> DEFINE ends == status[Of[s]] \in {"absent"} \cup Terminal
<1>1. Phase(s)' \in IF ends THEN {"ended"} ELSE {"due", "asleep"}
  OBVIOUS
<1>2. [t \in Streams |-> Phase(t)]' = [[t \in Streams |-> Phase(t)] EXCEPT ![s] = Phase(s)']
  OBVIOUS
<1>3. QED
  BY <1>1, <1>2 DEF Watch!Look, Told, Watch!Table!Terminal

(***************************************************************************)
(* The streams implement StatusWatch: every step of handlers, connections, *)
(* notifications and the table is, for the clients, a step of a wait on a  *)
(* condition variable, or none at all.                                     *)
(***************************************************************************)
THEOREM StreamsImplementWatch == Spec => ImplementsWatch
<1>1. Init => Watch!Init
  BY PhaseIs DEF Init, Watch!Init, Watch!Table!Init
<1>2. TypeOK /\ HoldsConn /\ ConnInv /\ WakeInv /\ [Next]_vars => [Watch!Next]_(Watch!vars)
  <2> SUFFICES ASSUME TypeOK, HoldsConn, ConnInv, WakeInv, [Next]_vars
               PROVE  Watch!Next \/ UNCHANGED Watch!vars
    OBVIOUS
  <2>1. ASSUME NEW s \in Streams, NEW from \in {{"off"}, {"asleep"}}, Watch!Move(s, from, "due")
        PROVE  Watch!Next
    BY <2>1 DEF Watch!Next, Watch!Open, Watch!Wake
  <2>2. ASSUME NEW s \in Streams, pc[s] \notin {"off", "ended"}, End(s), UNCHANGED <<status, last>>,
               \A t \in Streams \ {s} : t \in missed' <=> t \in missed
        PROVE  Watch!Next
    <3>1. Phase(s) \in {"due", "asleep"}
      BY <2>2, PhaseIs
    <3>2. Watch!Move(s, {"due", "asleep"}, "ended")
      BY <2>2, <3>1, EndPhases, WatchMoves
    <3>3. QED
      BY <3>2 DEF Watch!Next, Watch!Close
  \* The handler of s goes on, or is woken from WaitForNotification.
  <2>3. ASSUME NEW s \in Streams, pc[s] \notin {"off", "ended"}, UNCHANGED <<status, last>>,
               Phase(s)' = "due", \A t \in Streams \ {s} : Phase(t)' = Phase(t)
        PROVE  Watch!Next \/ UNCHANGED Watch!vars
    <3>1. CASE Phase(s) = "due"
      BY <2>3, <3>1, WatchStutters
    <3>2. CASE Phase(s) = "asleep"
      BY <2>1, <2>3, <3>2, WatchMoves
    <3>3. QED
      BY <2>3, <3>1, <3>2, PhaseIs
  <2>4. ASSUME NEW j \in Jobs, InsertJob(j) PROVE Watch!Next
    <3>1. \A t \in Streams : Phase(t)' = Phase(t)
      BY <2>4, SamePhase DEF InsertJob
    <3>2. Watch!Insert(j) /\ status' # status
      BY <2>4, <3>1 DEF InsertJob, Watch!Insert, Watch!Table!Insert, TypeOK
    <3>3. QED
      BY <3>2 DEF Watch!Next, Watch!TableStep
  <2>5. ASSUME NEW j \in Jobs, NEW new \in Statuses, UpdateStatus(j, new) PROVE Watch!Next
    <3>1. ASSUME NEW t \in Streams
          PROVE  Phase(t)' = IF Phase(t) = "asleep" /\ Of[t] = j THEN "due" ELSE Phase(t)
      <4>1. UNCHANGED <<pc, conn, missed, broken>>
        BY <2>5 DEF UpdateStatus
      <4>2. CASE pc[t] # "waiting"
        BY <4>1, <4>2, PhaseIs DEF Asleep
      <4>3. CASE pc[t] = "waiting" /\ conn[t] \in broken
        BY <4>1, <4>3, PhaseIs DEF Asleep
      <4>4. CASE pc[t] = "waiting" /\ conn[t] \notin broken
        <5>1. conn[t] \in Conns /\ conn[t] \in listening
          BY <4>4 DEF HoldsConn, WakeInv, Subscribed
        <5>2. inbox'[conn[t]] = Append(inbox[conn[t]], j) /\ inbox[conn[t]] \in Seq(Jobs)
          BY <2>5, <4>4, <5>1 DEF UpdateStatus, TypeOK
        <5>3. Of[t] \in Range(inbox'[conn[t]]) <=> Of[t] \in Range(inbox[conn[t]]) \/ Of[t] = j
          BY <5>2, AppendKeeps
        <5>4. Asleep(t)' <=> Asleep(t) /\ Of[t] # j
          BY <4>1, <5>3 DEF Asleep
        <5>5. QED
          BY <4>1, <4>4, <5>4, PhaseIs
      <4>5. QED
        BY <4>2, <4>3, <4>4
    <3>2. Watch!Change(j, new)
      BY <2>5, <3>1 DEF UpdateStatus, Watch!Change, Watch!Table!Update
    <3>3. new \in Watch!Table!Statuses /\ status' # status
      BY <2>5 DEF UpdateStatus, TypeOK, Watch!Table!Statuses, Watch!Table!Terminal
    <3>4. QED
      BY <3>2, <3>3 DEF Watch!Next, Watch!TableStep
  <2>6. ASSUME NEW c \in Conns, OtherTakes(c) \/ OtherReturns(c) PROVE UNCHANGED Watch!vars
    BY <2>6, SamePhase, WatchStutters DEF OtherTakes, OtherReturns
  <2>7. ASSUME NEW s \in Streams, Connect(s) PROVE Watch!Next
    <3>1. PICK next \in {"polling", "acquiring"} : Goto(s, next)
      BY <2>7 DEF Connect
    <3>2. Phase(s) = "off" /\ Phase(s)' = "due"
      BY <2>7, <3>1, GotoPhases, PhaseIs DEF Connect, Asleep
    <3>3. QED
      BY <2>1, <2>7, <3>1, <3>2, GotoPhases, WatchMoves DEF Connect
  <2>8. ASSUME NEW s \in Streams, Disconnect(s) PROVE Watch!Next
    BY <2>2, <2>8 DEF Disconnect
  <2>9. ASSUME NEW s \in Streams, NEW c \in Conns, Acquire(s, c) PROVE UNCHANGED Watch!vars
    <3>1. /\ pc' = [pc EXCEPT ![s] = "listening"] /\ conn' = [conn EXCEPT ![s] = c]
          /\ pc[s] = "acquiring" /\ UNCHANGED <<status, last, missed, broken, inbox>>
      BY <2>9 DEF Acquire
    <3>2. ASSUME NEW t \in Streams PROVE Phase(t)' = Phase(t)
      <4>1. CASE t = s
        BY <3>1, <4>1, PhaseIs DEF TypeOK, Asleep
      <4>2. CASE t # s
        BY <3>1, <4>2, SamePhase DEF TypeOK
      <4>3. QED
        BY <4>1, <4>2
    <3>3. QED
      BY <3>1, <3>2, WatchStutters
  <2>10. ASSUME NEW s \in Streams, Listen(s) PROVE UNCHANGED Watch!vars
    <3>1. /\ pc' = [pc EXCEPT ![s] = "reading"] /\ pc[s] = "listening"
          /\ UNCHANGED <<status, conn, last, missed, broken, inbox>>
      BY <2>10 DEF Listen
    <3>2. ASSUME NEW t \in Streams PROVE Phase(t)' = Phase(t)
      <4>1. CASE t = s
        BY <3>1, <4>1, PhaseIs DEF TypeOK, Asleep
      <4>2. CASE t # s
        BY <3>1, <4>2, SamePhase DEF TypeOK
      <4>3. QED
        BY <4>1, <4>2
    <3>3. QED
      BY <3>1, <3>2, WatchStutters
  <2>11. ASSUME NEW s \in Streams, NEW next \in {"waiting", "polling"}, Read(s, next),
                pc[s] \in {"reading", "checking", "polling"}
         PROVE  Watch!Next
    <3>1. \A t \in Streams \ {s} : t \in missed' <=> t \in missed
      BY <2>11 DEF Read
    <3>2. /\ Phase(s) = "due"
          /\ last' = Told(s, status[Of[s]]) /\ UNCHANGED status
      BY <2>11, PhaseIs DEF Read, Asleep
    <3>3. CASE status[Of[s]] \in {"absent"} \cup Terminal
      <4>1. End(s)
        BY <2>11, <3>3 DEF Read
      <4>2. Watch!Look(s)
        BY <3>1, <3>2, <3>3, <4>1, EndPhases, WatchLooks
      <4>3. QED
        BY <4>2 DEF Watch!Next
    <3>4. CASE status[Of[s]] \notin {"absent"} \cup Terminal
      <4>1. Goto(s, next)
        BY <2>11, <3>4 DEF Read
      <4>2. /\ pc'[s] = next
            /\ \A t \in Streams \ {s} : Phase(t)' = Phase(t)
        BY <3>1, <4>1, GotoPhases
      <4>3. Phase(s)' \in {"due", "asleep"}
        BY <4>2, PhaseIs
      <4>4. Watch!Look(s)
        BY <3>2, <3>4, <4>2, <4>3, WatchLooks
      <4>5. QED
        BY <4>4 DEF Watch!Next
    <3>5. QED
      BY <3>3, <3>4
  <2>12. ASSUME NEW s \in Streams, ReadFirst(s) \/ Check(s) \/ Poll(s) PROVE Watch!Next
    BY <2>11, <2>12 DEF ReadFirst, Check, Poll
  <2>13. ASSUME NEW s \in Streams, Notified(s) PROVE UNCHANGED Watch!vars
    <3> DEFINE c == conn[s]
    <3>1. /\ c \in Conns /\ inbox[c] \in Seq(Jobs) /\ inbox[c] # <<>> /\ pc[s] = "waiting"
          /\ UNCHANGED <<status, conn, last, missed, broken>>
      BY <2>13 DEF Notified, HoldsConn, TypeOK
    <3>2. ASSUME NEW t \in Streams, t # s PROVE Phase(t)' = Phase(t)
      <4>1. pc[t] = "waiting" => conn[t] # c
        BY <3>2, OwnConn
      <4>2. pc'[t] = pc[t] /\ (pc[t] = "waiting" => inbox'[conn[t]] = inbox[conn[t]])
        BY <2>13, <3>2, <4>1 DEF Notified, TypeOK
      <4>3. QED
        BY <3>1, <4>2, SamePhase
    <3>3. Phase(s)' = Phase(s)
      <4>1. inbox'[c] = Tail(inbox[c])
        BY <2>13, <3>1 DEF Notified, TypeOK
      <4>2. CASE Head(inbox[c]) = Of[s]
        <5>1. pc'[s] = "checking"
          BY <2>13, <4>2 DEF Notified, TypeOK
        <5>2. ~Asleep(s) /\ ~Asleep(s)'
          BY <3>1, <4>2, <5>1, TailKeeps DEF Asleep
        <5>3. QED
          BY <3>1, <5>1, <5>2, PhaseIs
      <4>3. CASE Head(inbox[c]) # Of[s]
        <5>1. pc'[s] = pc[s]
          BY <2>13, <4>3 DEF Notified, TypeOK
        <5>2. Of[s] \in Range(inbox'[c]) <=> Of[s] \in Range(inbox[c])
          BY <3>1, <4>1, <4>3, TailKeeps
        <5>3. QED
          BY <3>1, <5>1, <5>2, SamePhase
      <4>4. QED
        BY <4>2, <4>3
    <3>4. QED
      BY <3>1, <3>2, <3>3, WatchStutters
  <2>14. ASSUME NEW s \in Streams, TimesOut(s) \/ ListenFails(s) \/ CheckFails(s)
         PROVE  Watch!Next \/ UNCHANGED Watch!vars
    <3>1. PICK next \in {"checking", "polling", "waiting"} :
            Goto(s, next) /\ (next = "waiting" => s \in missed')
      BY <2>14 DEF TimesOut, ListenFails, CheckFails, TypeOK
    <3>2. /\ UNCHANGED <<status, last>> /\ pc[s] \notin {"off", "ended"}
          /\ \A t \in Streams \ {s} : t \in missed' <=> t \in missed
      BY <2>14 DEF TimesOut, ListenFails, CheckFails
    <3>3. Phase(s)' = "due" /\ \A t \in Streams \ {s} : Phase(t)' = Phase(t)
      BY <3>1, <3>2, GotoPhases, PhaseIs DEF Asleep
    <3>4. QED
      BY <2>3, <3>2, <3>3
  <2>15. ASSUME NEW s \in Streams, AcquireFails(s) \/ ReadFirstFails(s) PROVE Watch!Next
    BY <2>2, <2>15 DEF AcquireFails, ReadFirstFails
  <2>16. ASSUME NEW s \in Streams, PollFails(s) PROVE Watch!Next \/ UNCHANGED Watch!vars
    <3>1. CASE s \in GrpcStreams
      BY <2>2, <2>16, <3>1 DEF PollFails
    <3>2. CASE s \notin GrpcStreams
      BY <2>16, <3>2, SamePhase, WatchStutters DEF PollFails
    <3>3. QED
      BY <3>1, <3>2
  <2>17. ASSUME NEW s \in Streams, ConnBreaks(s) PROVE Watch!Next \/ UNCHANGED Watch!vars
    <3>1. /\ UNCHANGED <<status, pc, conn, last, missed, inbox>>
          /\ broken' = broken \cup {conn[s]} /\ pc[s] \in Listening
      BY <2>17 DEF ConnBreaks
    <3>2. \A t \in Streams \ {s} : Phase(t)' = Phase(t)
      BY <3>1, OwnConn, SamePhase
    <3>3. Phase(s)' = "due"
      BY <3>1, PhaseIs DEF Asleep
    <3>4. QED
      BY <2>3, <3>1, <3>2, <3>3
  <2>18. CASE UNCHANGED vars
    BY <2>18, SamePhase, WatchStutters DEF vars
  <2>19. QED
    BY <2>4, <2>5, <2>6, <2>7, <2>8, <2>9, <2>10, <2>12, <2>13, <2>14, <2>15, <2>16, <2>17, <2>18
       DEF Next, StreamStep, StreamFails
<1>3. QED
  BY <1>1, <1>2, StreamTypeCorrect, PoolSafe, WakeSafe, PTL
     DEF Spec, ImplementsWatch, Watch!Spec
=============================================================================
