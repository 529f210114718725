----------------------------- MODULE BackupStore -----------------------------
(***************************************************************************)
(* What the services promise together, without files, calls that fail or   *)
(* processes: a store in which a backup appears under its host and start   *)
(* second, no older than that second says and newer than those of its host *)
(* before, and is never removed; and, for each host, an answer that names  *)
(* a backup only when the store has it.  Restores do not touch either.     *)
(*                                                                         *)
(* A host that starts several backups in one second gives them one name.   *)
(* The later one may then replace the earlier, with what is as recent.     *)
(* Only a host that restores as well loses more: it may damage the object. *)
(***************************************************************************)
EXTENDS Naturals

CONSTANTS
  Hosts,      \* the hosts that back up
  Restorers,  \* those that restore as well
  Times,      \* the times a backup can start at, numbers
  Recent,     \* Recent[t] is the set of archives that were read at or after time t
  NoObject,   \* there is no backup of that name
  NoAnswer    \* the last call has not returned nil

VARIABLES
  objects,    \* objects[n] is the archive under a name: a host and a start time
  answer,     \* answer[h] is the start time of the backup that h was told is stored
  repeated    \* repeated[h] is the set of times at which h started several backups

StoreInit ==
  /\ objects  = [n \in Hosts \X Times |-> NoObject]
  /\ answer   = [h \in Hosts |-> NoAnswer]
  /\ repeated = [h \in Hosts |-> {}]

\* A backup of h appears.
Keep(h, t) ==
  /\ t \notin repeated[h]
  /\ \A s \in Times : objects[<<h, s>>] # NoObject => s < t
  /\ objects'[<<h, t>>] \in Recent[t]
  /\ objects' = [objects EXCEPT ![<<h, t>>] = objects'[<<h, t>>]]
  /\ UNCHANGED <<answer, repeated>>

\* One of several backups of a time appears, or takes the place of another.
Replace(h, t) ==
  /\ t \in repeated[h]
  /\ \A s \in Times : objects[<<h, s>>] # NoObject => s <= t
  /\ objects'[<<h, t>>] # NoObject
  /\ h \notin Restorers => objects'[<<h, t>>] \in Recent[t]
  /\ objects' = [objects EXCEPT ![<<h, t>>] = objects'[<<h, t>>]]
  /\ UNCHANGED <<answer, repeated>>

\* Its caller is told.
Report(h, t) ==
  /\ objects[<<h, t>>] # NoObject
  /\ answer' = [answer EXCEPT ![h] = t]
  /\ UNCHANGED <<objects, repeated>>

\* The caller asks for another one,
Ask(h) == answer' = [answer EXCEPT ![h] = NoAnswer] /\ UNCHANGED <<objects, repeated>>

\* in the second of the last one.
AskAgain(h, t) ==
  /\ \A s \in Times : objects[<<h, s>>] # NoObject => s <= t
  /\ answer'   = [answer EXCEPT ![h] = NoAnswer]
  /\ repeated' = [repeated EXCEPT ![h] = @ \cup {t}]
  /\ UNCHANGED objects

StoreNext ==
  \E h \in Hosts :
    \/ Ask(h)
    \/ \E t \in Times : AskAgain(h, t) \/ Keep(h, t) \/ Replace(h, t) \/ Report(h, t)

StoreSpec == StoreInit /\ [][StoreNext]_<<objects, answer, repeated>>
=============================================================================
