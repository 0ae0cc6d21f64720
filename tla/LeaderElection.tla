----------------------------- MODULE LeaderElection -----------------------------
(***************************************************************************)
(* The election of internal/leader: every replica campaigns for one        *)
(* session-scoped advisory lock of PostgreSQL, and the replica that holds  *)
(* it runs the background workers.                                         *)
(*                                                                         *)
(* The lock belongs to a database session, so a replica learns that it     *)
(* lost it only when a ping fails.  Each round trip is split where the     *)
(* server has acted and the replica has not heard: a lock can be granted   *)
(* to a process that will never know.  A session whose client is gone is   *)
(* Orphan until the server notices.                                        *)
(***************************************************************************)
EXTENDS Naturals

CONSTANTS
  Replicas,
  Free, Orphan, \* holders of the lock that are no replica
  FaultKinds,   \* of {"crash", "stop", "session", "network"}
  MaxFaults     \* bound: faults

ASSUME LockAssumption == Free \notin Replicas /\ Orphan \notin Replicas /\ Free # Orphan
ASSUME FaultAssumption ==
  FaultKinds \subseteq {"crash", "stop", "session", "network"} /\ MaxFaults \in Nat

VARIABLES
  up,      \* "up", "stopping" once the process's context is cancelled, or "down"
  elector, \* what the campaign loop is in the middle of
  flag,    \* Elector.leader; the session is set and dropped with it, under the mutex
  lock,    \* who holds the advisory lock
  lost,    \* history: the server ended the session of this replica's last grant
  faults   \* faults so far

electionVars == <<up, elector, flag, lock, lost, faults>>

Fault(kind) == kind \in FaultKinds /\ faults < MaxFaults /\ faults' = faults + 1

\* Mutant: the connection goes back to the pool with whatever it holds.
Pooled(r) == lock

\* The client closes a connection: its session lives until the server notices.
Disconnected(r) == IF lock = r THEN Orphan ELSE lock

ElectionInit ==
  /\ up = [r \in Replicas |-> "up"]
  /\ elector = [r \in Replicas |-> "idle"]
  /\ flag = [r \in Replicas |-> FALSE]
  /\ lock = Free
  /\ lost = [r \in Replicas |-> FALSE]
  /\ faults = 0

(* Elect: TryLock, and what it answers.                                    *)

Campaign(r) ==
  /\ up[r] = "up" /\ elector[r] = "idle" /\ ~flag[r]
  /\ elector' = [elector EXCEPT ![r] = "asked"]
  /\ UNCHANGED <<up, flag, lock, lost, faults>>

\* PostgreSQL runs pg_try_advisory_lock.
Granted(r) ==
  /\ elector[r] = "asked"
  /\ IF lock = Free
     THEN /\ lock' = r
          /\ lost' = [lost EXCEPT ![r] = FALSE]
          /\ elector' = [elector EXCEPT ![r] = "granted"]
     ELSE /\ elector' = [elector EXCEPT ![r] = "refused"]
          /\ UNCHANGED <<lock, lost>>
  /\ UNCHANGED <<up, flag, faults>>

Elect(r) ==
  /\ elector[r] \in {"granted", "refused"}
  /\ flag' = [flag EXCEPT ![r] = elector[r] = "granted"]
  /\ elector' = [elector EXCEPT ![r] = "idle"]
  /\ UNCHANGED <<up, lock, lost, faults>>

\* No connection, or a reply that does not come: the connection is broken and the pool
\* closes it, also when the lock was granted.
CampaignFails(r) ==
  /\ elector[r] \in {"asked", "granted", "refused"}
  /\ \/ Fault("network")
     \/ up[r] = "stopping" /\ UNCHANGED faults
  /\ elector' = [elector EXCEPT ![r] = "idle"]
  /\ lock' = Disconnected(r)
  /\ UNCHANGED <<up, flag, lost>>

(* Heartbeat and Resign: the flag is cleared first, then the lock released. *)

\* Mutant: the lock is released and the flag forgotten.
FlagKept(r) ==
  /\ elector' = [elector EXCEPT ![r] = "unlock"]
  /\ UNCHANGED <<flag, up, lock, lost>>

StandDown(r) ==
  /\ flag' = [flag EXCEPT ![r] = FALSE]
  /\ elector' = [elector EXCEPT ![r] = "unlock"]
  /\ UNCHANGED <<up, lock, lost>>

\* Mutant: the ping takes any connection of the pool.
PingAnyConnection(r) ==
  /\ up[r] = "up" /\ elector[r] = "idle" /\ flag[r]
  /\ IF lock = r THEN Fault("network") /\ StandDown(r) ELSE UNCHANGED electionVars

\* A ping of a dead session fails; a ping of a live one fails with the network.
Heartbeat(r) ==
  /\ up[r] = "up" /\ elector[r] = "idle" /\ flag[r]
  /\ \/ lock # r /\ UNCHANGED faults
     \/ lock = r /\ Fault("network")
  /\ StandDown(r)

Resign(r) ==
  /\ up[r] = "stopping" /\ elector[r] = "idle" /\ flag[r]
  /\ UNCHANGED faults
  /\ StandDown(r)

\* pg_advisory_unlock answers and the connection is pooled again, or it fails and the
\* connection is destroyed.
Release(r) ==
  /\ elector[r] = "unlock"
  /\ \/ lock = r /\ lock' = Free /\ UNCHANGED faults
     \/ lock # r /\ UNCHANGED <<lock, faults>>
     \/ lock = r /\ lock' = Disconnected(r) /\ Fault("network")
  /\ elector' = [elector EXCEPT ![r] = "idle"]
  /\ UNCHANGED <<up, flag, lost>>

ElectorStep(r) ==
  \/ Campaign(r) \/ Granted(r) \/ Elect(r) \/ CampaignFails(r)
  \/ Heartbeat(r) \/ Resign(r) \/ Release(r)

-----------------------------------------------------------------------------
(* Processes and sessions.                                                 *)

\* SIGTERM cancels the context of every goroutine.
Stop(r) ==
  /\ up[r] = "up" /\ Fault("stop")
  /\ up' = [up EXCEPT ![r] = "stopping"]
  /\ UNCHANGED <<elector, flag, lock, lost>>

Exit(r) ==
  /\ up[r] = "stopping" /\ elector[r] = "idle" /\ ~flag[r]
  /\ up' = [up EXCEPT ![r] = "down"]
  /\ UNCHANGED <<elector, flag, lock, lost, faults>>

Crash(r) ==
  /\ up[r] # "down" /\ Fault("crash")
  /\ up' = [up EXCEPT ![r] = "down"]
  /\ elector' = [elector EXCEPT ![r] = "idle"]
  /\ flag' = [flag EXCEPT ![r] = FALSE]
  /\ lock' = Disconnected(r)
  /\ UNCHANGED lost

Restart(r) ==
  /\ up[r] = "down"
  /\ up' = [up EXCEPT ![r] = "up"]
  /\ UNCHANGED <<elector, flag, lock, lost, faults>>

\* The server ends the session that holds the lock: a failover, a terminated backend.
SessionEnds ==
  /\ lock \in Replicas /\ Fault("session")
  /\ lost' = [lost EXCEPT ![lock] = TRUE]
  /\ lock' = Free
  /\ UNCHANGED <<up, elector, flag>>

\* The server notices that the client of a session is gone.
OrphanEnds ==
  /\ lock = Orphan
  /\ lock' = Free
  /\ UNCHANGED <<up, elector, flag, lost, faults>>

ElectionNext ==
  \/ \E r \in Replicas :
       ElectorStep(r) \/ Stop(r) \/ Exit(r) \/ Crash(r) \/ Restart(r)
  \/ SessionEnds
  \/ OrphanEnds

ElectionSpec == ElectionInit /\ [][ElectionNext]_electionVars

-----------------------------------------------------------------------------
(* Properties.                                                             *)

\* Every variable has its type, and a process that is down neither campaigns nor leads.
ElectionTypeOK ==
  /\ up \in [Replicas -> {"up", "stopping", "down"}]
  /\ elector \in [Replicas -> {"idle", "asked", "granted", "refused", "unlock"}]
  /\ flag \in [Replicas -> BOOLEAN]
  /\ lock \in Replicas \cup {Free, Orphan}
  /\ lost \in [Replicas -> BOOLEAN]
  /\ faults \in 0..MaxFaults
  /\ \A r \in Replicas : up[r] = "down" => elector[r] = "idle" /\ ~flag[r]

\* A replica that reports leadership holds the lock, unless the server ended its session
\* under it: two replicas report it at once only while one has such a session.
LeadersHoldTheLock == \A r \in Replicas : flag[r] => lock = r \/ lost[r]

\* The lock is never held by a connection nobody will release: its holder leads, is about
\* to learn that it does, is releasing it, or is a session without a client.
HolderWillRelease ==
  \A r \in Replicas :
    lock = r => up[r] # "down" /\ (flag[r] \/ elector[r] \in {"granted", "unlock"})

\* When the faults end, one replica leads and stays the leader, and no other reports that
\* it does: whatever was granted to processes and sessions that are gone comes back, and
\* a replica that lost its lock stands down.
LeaderEmerges ==
  <>[](\E r \in Replicas : flag[r] /\ lock = r /\ \A q \in Replicas \ {r} : ~flag[q])

=============================================================================
