------------------------------- MODULE Health -------------------------------
(***************************************************************************)
(* The health endpoint of a daemon, as steps, on hosts whose clocks differ *)
(* and are set.  The handler reads the key, then its host's clock; the     *)
(* number in the key was read from the clock of the host that made the     *)
(* backup.  Backups are here what they do to the key; restores put an      *)
(* older value of it back.                                                 *)
(***************************************************************************)
EXTENDS Integers

CONSTANTS
  Hosts,      \* hosts that make backups
  Here,       \* the host of the endpoint
  Requests,   \* slots for requests in progress
  MaxAge,     \* 3600 seconds
  Skew,       \* the clocks of two hosts are at most Skew apart
  None,       \* no key, no round, no answer
  Junk,       \* a value of the key that is no number
  MaxTime,    \* bound on the time
  MaxFaults   \* bound on the faults of a behaviour

ASSUME HealthAssumption ==
  /\ Here \in Hosts
  /\ MaxAge \in Nat /\ Skew \in Nat /\ MaxTime \in Nat /\ MaxFaults \in Nat

Time    == 0..MaxTime
Offsets == 0..Skew

\* A start time: what the host's clock said, and, for the properties only, when it was.
Stamps == [clock : 0..(MaxTime + Skew), real : Time]

ASSUME StampAssumption == None \notin Stamps \cup {200, 500} /\ Junk \notin Stamps \cup {None}

VARIABLES
  now,      \* the time
  off,      \* off[h] is how far the clock of h is ahead of it
  round,    \* round[h] is the start time of h's round, or None
  key,      \* the key service/consul-snapshot/lastbackup
  kept,     \* the key as the archive that is going to be restored has it
  server,   \* the listener: "starting", "up", or "failed"
  hstep,    \* hstep[q] is the next step of the handler for request q
  read,     \* read[q] is the key the handler got
  answer,   \* answer[q] is 200, 500, or None, the connection closed without one
  faults

vars == <<now, off, round, key, kept, server, hstep, read, answer, faults>>

cluster_vars == <<off, round, key, kept>>
request_vars == <<hstep, read, answer>>

HandlerSteps == {"client", "get", "clock"}

TypeOK ==
  /\ now \in Time /\ faults \in 0..MaxFaults
  /\ off \in [Hosts -> Offsets]
  /\ round \in [Hosts -> Stamps \cup {None}]
  /\ key \in Stamps \cup {None, Junk}
  /\ kept \in Stamps \cup {None, Junk}
  /\ server \in {"starting", "up", "failed"}
  /\ hstep \in [Requests -> HandlerSteps \cup {"idle"}]
  /\ read \in [Requests -> Stamps \cup {None}]
  /\ answer \in [Requests -> {200, 500, None}]

Init ==
  /\ now = 0 /\ faults = 0
  /\ off \in [Hosts -> Offsets]
  /\ round = [h \in Hosts |-> None]
  /\ key = None
  /\ kept = None
  /\ server = "starting"
  /\ hstep  = [q \in Requests |-> "idle"]
  /\ read   = [q \in Requests |-> None]
  /\ answer = [q \in Requests |-> None]

Fault   == faults < MaxFaults /\ faults' = faults + 1
NoFault == UNCHANGED faults

Clock(h) == now + off[h]

-----------------------------------------------------------------------------
(* The backups, the restores and the clocks.                               *)

Tick ==
  /\ now < MaxTime /\ now' = now + 1
  /\ UNCHANGED <<cluster_vars, server, request_vars, faults>>

\* The clock of h is set, forward or back.
SetClock(h) ==
  /\ \E o \in Offsets : off' = [off EXCEPT ![h] = o]
  /\ UNCHANGED <<now, round, key, kept, server, request_vars, faults>>

\* Mutant: the start time in nanoseconds.
StartRoundNano(h) ==
  /\ round[h] = None
  /\ round' = [round EXCEPT ![h] = [clock |-> Clock(h) * 1000, real |-> now]]
  /\ kept' \in {kept, key}
  /\ UNCHANGED <<now, off, key, server, request_vars, faults>>

\* A round of h takes its start time, and lists the key with all others.
StartRound(h) ==
  /\ round[h] = None
  /\ round' = [round EXCEPT ![h] = [clock |-> Clock(h), real |-> now]]
  /\ kept' \in {kept, key}
  /\ UNCHANGED <<now, off, key, server, request_vars, faults>>

\* Mutant: the key gets the time at which the round ends.
AckEndTime(h) ==
  /\ round[h] # None
  /\ key' = [round[h] EXCEPT !.clock = Clock(h)]
  /\ round' = [round EXCEPT ![h] = None]
  /\ UNCHANGED <<now, off, kept, server, request_vars, faults>>

\* The round ends: it writes the start time to the key.
Ack(h) ==
  /\ round[h] # None
  /\ key' = round[h]
  /\ round' = [round EXCEPT ![h] = None]
  /\ UNCHANGED <<now, off, kept, server, request_vars, faults>>

\* Or its process dies.
Abandon(h) ==
  /\ round[h] # None
  /\ round' = [round EXCEPT ![h] = None]
  /\ UNCHANGED <<now, off, key, kept, server, request_vars, faults>>

\* A restore puts the key of its backup back; another client writes what is no number.
Overwrite ==
  /\ key' \in {kept, Junk} \ {None}
  /\ UNCHANGED <<now, off, round, kept, server, request_vars, faults>>

-----------------------------------------------------------------------------
\* StartServer: the error of ListenAndServe is dropped, and the daemon goes on.
StartServer ==
  /\ server = "starting"
  /\ \/ server' = "up" /\ NoFault
     \/ server' = "failed" /\ Fault
  /\ UNCHANGED <<now, cluster_vars, request_vars>>

Request(q) ==
  /\ server = "up" /\ hstep[q] = "idle"
  /\ hstep'  = [hstep  EXCEPT ![q] = "client"]
  /\ read'   = [read   EXCEPT ![q] = None]
  /\ answer' = [answer EXCEPT ![q] = None]
  /\ UNCHANGED <<now, cluster_vars, server, faults>>

Reply(q, status) ==
  /\ hstep'  = [hstep  EXCEPT ![q] = "idle"]
  /\ answer' = [answer EXCEPT ![q] = status]

\* After a failed NewClient the handler goes on with a nil client and panics: net/http
\* closes the connection, with the 500 if that was already sent.
NewClient(q) ==
  /\ hstep[q] = "client"
  /\ \/ hstep' = [hstep EXCEPT ![q] = "get"] /\ UNCHANGED answer /\ NoFault
     \/ (Reply(q, 500) \/ Reply(q, None)) /\ Fault
  /\ UNCHANGED <<now, cluster_vars, server, read>>

\* Mutant: a blocking query, which waits for the key.
GetBlocking(q) ==
  /\ hstep[q] = "get"
  /\ \/ /\ key \in Stamps /\ NoFault
        /\ read' = [read EXCEPT ![q] = key]
        /\ hstep' = [hstep EXCEPT ![q] = "clock"] /\ UNCHANGED answer
     \/ Reply(q, 500) /\ Fault /\ UNCHANGED read
  /\ UNCHANGED <<now, cluster_vars, server>>

\* Gets the key: an error, no key and no number are answered with 500.
Get(q) ==
  /\ hstep[q] = "get"
  /\ \/ /\ key \in Stamps /\ NoFault
        /\ read' = [read EXCEPT ![q] = key]
        /\ hstep' = [hstep EXCEPT ![q] = "clock"] /\ UNCHANGED answer
     \/ key \notin Stamps /\ Reply(q, 500) /\ NoFault /\ UNCHANGED read
     \/ Reply(q, 500) /\ Fault /\ UNCHANGED read
  /\ UNCHANGED <<now, cluster_vars, server>>

\* Mutant: a backup of exactly the age is refused.
VerdictStrict(q) == IF Clock(Here) - read[q].clock >= MaxAge THEN 500 ELSE 200

\* What the clock, read now, says of the key.
Verdict(q) == IF Clock(Here) - read[q].clock > MaxAge THEN 500 ELSE 200

ReadClock(q) ==
  /\ hstep[q] = "clock"
  /\ Reply(q, Verdict(q))
  /\ UNCHANGED <<now, cluster_vars, server, read, faults>>

Handler(q) == NewClient(q) \/ Get(q) \/ ReadClock(q)

Next ==
  \/ Tick
  \/ \E h \in Hosts : SetClock(h) \/ StartRound(h) \/ Ack(h) \/ Abandon(h)
  \/ Overwrite
  \/ StartServer
  \/ \E q \in Requests : Request(q) \/ Handler(q)

Spec == Init /\ [][Next]_vars

\* net/http runs each handler in a goroutine; a call to consul returns.
FairSpec == Spec /\ \A q \in Requests : WF_vars(Handler(q))
-----------------------------------------------------------------------------
(* What an answer says.                                                    *)

\* 200: the backup started at most MaxAge before the answer, give or take the difference of
\* two clocks, however they are set in between, however long the handler takes between the
\* key and the clock, and whatever is written to the key meanwhile.
TrueAnswer ==
  [][\A q \in Requests : hstep[q] = "clock" /\ answer'[q] = 200 =>
       now - read[q].real <= MaxAge + Skew]_vars

\* 500, of a key that could be read: the backup it names is older than MaxAge, give or take
\* the same difference.
NoFalseAlarm ==
  [][\A q \in Requests : hstep[q] = "clock" /\ answer'[q] = 500 =>
       now - read[q].real > MaxAge - Skew]_vars

\* A request is answered or its connection is closed, whatever fails and whether or not
\* there has been a backup.
RequestsEnd == \A q \in Requests : hstep[q] # "idle" ~> hstep[q] = "idle"
=============================================================================
