---------------------------- MODULE HealthProofs ----------------------------
(***************************************************************************)
(* Proofs about Health, for any hosts, slots for requests, maximal age,    *)
(* skew and bounds.                                                        *)
(***************************************************************************)
EXTENDS Health, TLAPS

-----------------------------------------------------------------------------
(* Type correctness.                                                       *)

\* The fields of a start time.
LEMMA StampFields ==
  ASSUME NEW s \in Stamps
  PROVE  s.clock \in Int /\ s.real \in Int
  BY HealthAssumption DEF Stamps, Time

\* A clock that is read at a time within the bound gives a start time.
LEMMA ClockStamp ==
  ASSUME TypeOK, NEW h \in Hosts
  PROVE  /\ Clock(h) \in 0..(MaxTime + Skew)
         /\ [clock |-> Clock(h), real |-> now] \in Stamps
<1>1. now \in 0..MaxTime /\ off[h] \in 0..Skew
  BY DEF TypeOK, Time, Offsets
<1>2. now + off[h] \in 0..(MaxTime + Skew)
  BY <1>1, HealthAssumption
<1> QED
  BY <1>1, <1>2 DEF Clock, Stamps, Time

\* The initial states have their types.
LEMMA InitTypeOK == Init => TypeOK
  BY HealthAssumption DEF Init, TypeOK, Time

\* A step of the backups, the restores or the clocks keeps the types.
LEMMA ClusterTypeOK ==
  ASSUME TypeOK, \/ Tick \/ Overwrite
                 \/ \E h \in Hosts : SetClock(h) \/ StartRound(h) \/ Ack(h) \/ Abandon(h)
  PROVE  TypeOK'
<1> USE DEF TypeOK
<1>1. CASE Tick
  <2>1. now' \in Time
    BY <1>1, HealthAssumption DEF Tick, Time
  <2> QED
    BY <1>1, <2>1 DEF Tick, cluster_vars, request_vars
<1>2. CASE Overwrite
  <2>1. key' \in Stamps \cup {None, Junk}
    BY <1>2 DEF Overwrite
  <2> QED
    BY <1>2, <2>1 DEF Overwrite, request_vars
<1>3. ASSUME NEW h \in Hosts, SetClock(h)
      PROVE  TypeOK'
  BY <1>3 DEF SetClock, request_vars
<1>4. ASSUME NEW h \in Hosts, StartRound(h)
      PROVE  TypeOK'
  <2>1. round' \in [Hosts -> Stamps \cup {None}]
    BY <1>4, ClockStamp DEF StartRound
  <2>2. kept' \in Stamps \cup {None, Junk}
    BY <1>4 DEF StartRound
  <2> QED
    BY <1>4, <2>1, <2>2 DEF StartRound, request_vars
<1>5. ASSUME NEW h \in Hosts, Ack(h)
      PROVE  TypeOK'
  <2>1. key' \in Stamps
    BY <1>5 DEF Ack
  <2> QED
    BY <1>5, <2>1 DEF Ack, request_vars
<1>6. ASSUME NEW h \in Hosts, Abandon(h)
      PROVE  TypeOK'
  BY <1>6 DEF Abandon, request_vars
<1> QED
  BY <1>1, <1>2, <1>3, <1>4, <1>5, <1>6

\* The budget stays within its bound.
LEMMA FaultType ==
  ASSUME TypeOK, Fault \/ NoFault
  PROVE  faults' \in 0..MaxFaults
  BY HealthAssumption DEF TypeOK, Fault, NoFault

\* A reply is well typed.
LEMMA ReplyType ==
  ASSUME TypeOK, NEW q \in Requests, NEW status \in {200, 500, None}, Reply(q, status)
  PROVE  /\ hstep'  \in [Requests -> HandlerSteps \cup {"idle"}]
         /\ answer' \in [Requests -> {200, 500, None}]
  BY DEF TypeOK, Reply

\* A step of the server keeps the types.
LEMMA ServerTypeOK ==
  ASSUME TypeOK, StartServer \/ \E q \in Requests : Request(q) \/ Handler(q)
  PROVE  TypeOK'
<1>1. CASE StartServer
  BY <1>1, FaultType DEF TypeOK, StartServer, cluster_vars, request_vars
<1>2. ASSUME NEW q \in Requests, Request(q)
      PROVE  TypeOK'
  BY <1>2 DEF TypeOK, Request, HandlerSteps, cluster_vars
<1>3. ASSUME NEW q \in Requests, NewClient(q)
      PROVE  TypeOK'
  <2>1. /\ hstep'  \in [Requests -> HandlerSteps \cup {"idle"}]
        /\ answer' \in [Requests -> {200, 500, None}]
    BY <1>3, ReplyType DEF NewClient, TypeOK, HandlerSteps
  <2>2. faults' \in 0..MaxFaults
    BY <1>3, FaultType DEF NewClient
  <2> QED
    BY <1>3, <2>1, <2>2 DEF NewClient, cluster_vars, TypeOK
<1>4. ASSUME NEW q \in Requests, Get(q)
      PROVE  TypeOK'
  <2>1. /\ hstep'  \in [Requests -> HandlerSteps \cup {"idle"}]
        /\ answer' \in [Requests -> {200, 500, None}]
    BY <1>4, ReplyType DEF Get, TypeOK, HandlerSteps
  <2>2. read' \in [Requests -> Stamps \cup {None}]
    BY <1>4 DEF Get, TypeOK
  <2>3. faults' \in 0..MaxFaults
    BY <1>4, FaultType DEF Get
  <2> QED
    BY <1>4, <2>1, <2>2, <2>3 DEF Get, cluster_vars, TypeOK
<1>5. ASSUME NEW q \in Requests, ReadClock(q)
      PROVE  TypeOK'
  <2>1. /\ hstep'  \in [Requests -> HandlerSteps \cup {"idle"}]
        /\ answer' \in [Requests -> {200, 500, None}]
    BY <1>5, ReplyType DEF ReadClock, Verdict
  <2> QED
    BY <1>5, <2>1 DEF ReadClock, cluster_vars, TypeOK
<1> QED
  BY <1>1, <1>2, <1>3, <1>4, <1>5 DEF Handler

\* Every step keeps the types.
LEMMA NextTypeOK == TypeOK /\ [Next]_vars => TypeOK'
<1> SUFFICES ASSUME TypeOK, [Next]_vars PROVE TypeOK'
  OBVIOUS
<1>1. CASE Next
  BY <1>1, ClusterTypeOK, ServerTypeOK DEF Next
<1>2. CASE UNCHANGED vars
  BY <1>2 DEF TypeOK, vars
<1> QED
  BY <1>1, <1>2

\* The state of the endpoint and of the cluster around it is well typed.
THEOREM TypeCorrect == Spec => []TypeOK
  BY InitTypeOK, NextTypeOK, PTL DEF Spec

-----------------------------------------------------------------------------
(* What an answer says.  The clock of the host that made a backup was at   *)
(* most Skew ahead of the time when the start time was taken from it, and  *)
(* the start time stays what it is wherever it is kept or read.            *)

\* The clock that s was taken from was right, give or take Skew.
Near(s) == s.clock - s.real \in 0..Skew

\* Every start time in the cluster is near its time.
NearStamps ==
  /\ \A h \in Hosts : round[h] # None => Near(round[h])
  /\ key  \in Stamps => Near(key)
  /\ kept \in Stamps => Near(kept)
  /\ \A q \in Requests : read[q] # None => Near(read[q])

\* A handler that has come to the clock has read a start time.
ReadFirst == \A q \in Requests : hstep[q] = "clock" => read[q] # None

\* A request in progress has no answer.
NotAnswered == \A q \in Requests : hstep[q] # "idle" => answer[q] = None

AnswerInv == NearStamps /\ ReadFirst /\ NotAnswered

\* In the initial states there is no start time and no request.
LEMMA InitAnswer == Init => AnswerInv
  BY StampAssumption DEF Init, AnswerInv, NearStamps, ReadFirst, NotAnswered

\* A start time that is taken is near.
LEMMA ClockNear ==
  ASSUME TypeOK, NEW h \in Hosts
  PROVE  Near([clock |-> Clock(h), real |-> now])
<1>1. now \in Int /\ off[h] \in 0..Skew
  BY HealthAssumption DEF TypeOK, Time, Offsets
<1> QED
  BY <1>1, HealthAssumption DEF Near, Clock

\* No step makes a start time that is not near.
LEMMA NextNear ==
  ASSUME TypeOK, NearStamps, Next
  PROVE  NearStamps'
<1> USE DEF NearStamps
<1>1. CASE Tick
  BY <1>1 DEF Tick, cluster_vars, request_vars, Near
<1>2. CASE Overwrite
  BY <1>2, StampAssumption DEF Overwrite, request_vars, Near
<1>3. ASSUME NEW h \in Hosts, SetClock(h)
      PROVE  NearStamps'
  BY <1>3 DEF SetClock, request_vars, Near
<1>4. ASSUME NEW h \in Hosts, StartRound(h)
      PROVE  NearStamps'
  <2>1. \A i \in Hosts : round'[i] = IF i = h THEN [clock |-> Clock(h), real |-> now]
                                     ELSE round[i]
    BY <1>4 DEF StartRound, TypeOK
  <2>2. \A i \in Hosts : round'[i] # None => Near(round'[i])
    BY <2>1, ClockNear
  <2>3. kept' \in Stamps => Near(kept')
    BY <1>4 DEF StartRound
  <2> QED
    BY <1>4, <2>2, <2>3 DEF StartRound, request_vars, Near
<1>5. ASSUME NEW h \in Hosts, Ack(h)
      PROVE  NearStamps'
  <2>1. \A i \in Hosts : round'[i] # None => round'[i] = round[i]
    BY <1>5 DEF Ack, TypeOK
  <2>2. Near(key')
    BY <1>5 DEF Ack
  <2> QED
    BY <1>5, <2>1, <2>2 DEF Ack, request_vars, Near
<1>6. ASSUME NEW h \in Hosts, Abandon(h)
      PROVE  NearStamps'
  <2>1. \A i \in Hosts : round'[i] # None => round'[i] = round[i]
    BY <1>6 DEF Abandon, TypeOK
  <2> QED
    BY <1>6, <2>1 DEF Abandon, request_vars, Near
<1>7. CASE StartServer
  BY <1>7 DEF StartServer, cluster_vars, request_vars, Near
<1>8. ASSUME NEW q \in Requests, Request(q) \/ Handler(q)
      PROVE  NearStamps'
  <2>1. CASE UNCHANGED read
    BY <1>8, <2>1 DEF Request, Handler, NewClient, Get, ReadClock, cluster_vars, Near
  <2>2. CASE Request(q)
    <3>1. \A r \in Requests : read'[r] # None => read'[r] = read[r]
      BY <2>2 DEF Request, TypeOK
    <3> QED
      BY <2>2, <3>1 DEF Request, cluster_vars, Near
  <2>3. CASE Get(q) /\ key \in Stamps /\ read' = [read EXCEPT ![q] = key]
    <3>1. \A r \in Requests : read'[r] # read[r] => read'[r] = key
      BY <2>3 DEF TypeOK
    <3> QED
      BY <2>3, <3>1 DEF Get, cluster_vars, Near
  <2> QED
    BY <1>8, <2>1, <2>2, <2>3 DEF Handler, NewClient, Get, ReadClock
<1> QED
  BY <1>1, <1>2, <1>3, <1>4, <1>5, <1>6, <1>7, <1>8 DEF Next

\* A handler comes to the clock by way of the key, and answers as its last step.
LEMMA NextHandlers ==
  ASSUME TypeOK, ReadFirst, NotAnswered, Next
  PROVE  ReadFirst' /\ NotAnswered'
<1> USE DEF ReadFirst, NotAnswered
<1>1. CASE UNCHANGED request_vars
  BY <1>1 DEF request_vars
<1>2. ASSUME NEW q \in Requests, Request(q)
      PROVE  ReadFirst' /\ NotAnswered'
  BY <1>2 DEF Request, TypeOK
<1>3. ASSUME NEW q \in Requests, NewClient(q)
      PROVE  ReadFirst' /\ NotAnswered'
  BY <1>3 DEF NewClient, Reply, TypeOK
<1>4. ASSUME NEW q \in Requests, Get(q)
      PROVE  ReadFirst' /\ NotAnswered'
  BY <1>4, StampAssumption DEF Get, Reply, TypeOK
<1>5. ASSUME NEW q \in Requests, ReadClock(q)
      PROVE  ReadFirst' /\ NotAnswered'
  BY <1>5 DEF ReadClock, Reply, TypeOK
<1>6. \/ UNCHANGED request_vars
      \/ \E q \in Requests : Request(q) \/ NewClient(q) \/ Get(q) \/ ReadClock(q)
  BY DEF Next, Handler, Tick, SetClock, StartRound, Ack, Abandon, Overwrite, StartServer,
         request_vars
<1> QED
  BY <1>1, <1>2, <1>3, <1>4, <1>5, <1>6

\* Every step keeps the invariant.
LEMMA NextAnswer == TypeOK /\ AnswerInv /\ [Next]_vars => AnswerInv'
<1> SUFFICES ASSUME TypeOK, AnswerInv, [Next]_vars PROVE AnswerInv'
  OBVIOUS
<1>1. CASE Next
  BY <1>1, NextNear, NextHandlers DEF AnswerInv
<1>2. CASE UNCHANGED vars
  BY <1>2 DEF AnswerInv, NearStamps, ReadFirst, NotAnswered, Near, vars
<1> QED
  BY <1>1, <1>2

\* A handler that is at the clock gets an answer only by reading it.
LEMMA AnswerStep ==
  ASSUME TypeOK, AnswerInv, [Next]_vars, NEW q \in Requests, hstep[q] = "clock",
         answer'[q] # None
  PROVE  answer'[q] = Verdict(q)
<1>1. answer[q] = None
  BY DEF AnswerInv, NotAnswered
<1>2. answer' # answer
  BY <1>1
<1>3. PICK r \in Requests : Request(r) \/ NewClient(r) \/ Get(r) \/ ReadClock(r)
  BY <1>2 DEF Next, Handler, Tick, SetClock, StartRound, Ack, Abandon, Overwrite, StartServer,
              request_vars, vars
<1>4. hstep[r] # "clock" \/ ReadClock(r)
  BY <1>3 DEF Request, NewClient, Get
<1>5. r = q
  BY <1>1, <1>3 DEF Request, NewClient, Get, ReadClock, Reply, TypeOK
<1> QED
  BY <1>4, <1>5 DEF ReadClock, Reply, TypeOK

\* What the handler reads: the time, its clock, and a start time that is near.
LEMMA ClockAndStamp ==
  ASSUME TypeOK, AnswerInv, NEW q \in Requests, hstep[q] = "clock"
  PROVE  /\ now \in Int /\ Clock(Here) - now \in 0..Skew /\ Clock(Here) \in Int
         /\ read[q].clock \in Int /\ read[q].real \in Int
         /\ read[q].clock - read[q].real \in 0..Skew
<1>1. now \in Int /\ off[Here] \in 0..Skew
  BY HealthAssumption DEF TypeOK, Time, Offsets
<1>2. read[q] \in Stamps /\ Near(read[q])
  BY DEF TypeOK, AnswerInv, ReadFirst, NearStamps
<1> QED
  BY <1>1, <1>2, StampFields, HealthAssumption DEF Clock, Near

\* An answer 200 is about a backup that started at most MaxAge + Skew ago.
LEMMA TrueStep ==
  ASSUME TypeOK, AnswerInv, [Next]_vars, NEW q \in Requests, hstep[q] = "clock",
         answer'[q] = 200
  PROVE  now - read[q].real <= MaxAge + Skew
<1>1. Verdict(q) = 200
  BY AnswerStep, StampAssumption
<1>2. ~(Clock(Here) - read[q].clock > MaxAge)
  BY <1>1 DEF Verdict
<1> QED
  BY <1>2, ClockAndStamp, HealthAssumption

\* An answer 500 at the clock is about one that started more than MaxAge - Skew ago.
LEMMA AlarmStep ==
  ASSUME TypeOK, AnswerInv, [Next]_vars, NEW q \in Requests, hstep[q] = "clock",
         answer'[q] = 500
  PROVE  now - read[q].real > MaxAge - Skew
<1>1. Verdict(q) = 500
  BY AnswerStep, StampAssumption
<1>2. Clock(Here) - read[q].clock > MaxAge
  BY <1>1 DEF Verdict
<1> QED
  BY <1>2, ClockAndStamp, HealthAssumption

\* The answer 200 of /health means a backup that started within the maximal age, give or
\* take the skew, however the clocks are set and the handler is delayed.
THEOREM AnswersAreTrue == Spec => TrueAnswer
<1>1. TypeOK /\ AnswerInv /\ [Next]_vars
        => [\A q \in Requests : hstep[q] = "clock" /\ answer'[q] = 200 =>
              now - read[q].real <= MaxAge + Skew]_vars
  BY TrueStep
<1> QED
  BY <1>1, InitTypeOK, NextTypeOK, InitAnswer, NextAnswer, PTL DEF Spec, TrueAnswer

\* The answer 500 about a key that was read means a backup that started longer ago than
\* the maximal age, give or take the same.
THEOREM NoAlarmIsFalse == Spec => NoFalseAlarm
<1>1. TypeOK /\ AnswerInv /\ [Next]_vars
        => [\A q \in Requests : hstep[q] = "clock" /\ answer'[q] = 500 =>
              now - read[q].real > MaxAge - Skew]_vars
  BY AlarmStep
<1> QED
  BY <1>1, InitTypeOK, NextTypeOK, InitAnswer, NextAnswer, PTL DEF Spec, NoFalseAlarm
=============================================================================
