--------------------------- MODULE ScheduledRotation ---------------------------
(***************************************************************************)
(* The scheduled rotation of internal/rotator and api.RotateDueSecrets on  *)
(* every replica, gated by the election of LeaderElection.                 *)
(*                                                                         *)
(* A pass reads the gate once, lists what is due, then writes one secret   *)
(* after another: leadership, the schedule and the secrets may all change  *)
(* while it runs.  Secrets are numbered in the order of their secret_id,   *)
(* the order of the listing.                                               *)
(***************************************************************************)
EXTENDS LeaderElection, FiniteSets

CONSTANTS
  MaxSecret, \* secrets with an enabled policy
  Broken,    \* secrets whose write fails every time: an unusable key, say
  Batch,     \* secrets one pass takes
  Gated,     \* is there an election?
  MaxDue     \* bound: times secrets become due

ASSUME RotationAssumption ==
  /\ MaxSecret \in Nat /\ Broken \subseteq 1..MaxSecret
  /\ Batch \in Nat \ {0} /\ Gated \in BOOLEAN /\ MaxDue \in Nat

VARIABLES
  due,       \* is rotated_at (or created_at) an interval ago?
  pass,      \* the pass of each replica
  rotations, \* scheduled rotations of each secret since it became due
  disturbed, \* history: a stop, a lost session or the network met the election
  dues       \* times a secret became due so far

rotationVars == <<due, pass, rotations, dues>>
vars == <<up, elector, flag, lock, lost, faults, due, pass, rotations, disturbed, dues>>

Secrets == 1..MaxSecret

Pass == [pc : {"idle", "list", "next", "write"}, todo : SUBSET Secrets]
NoPass == [pc |-> "idle", todo |-> {}]
Becomes(r, p) == pass' = [pass EXCEPT ![r] = p]

\* Mutant: no election is read as leadership, and so is a lost one.
AlwaysHolds(r) == TRUE

Holds(r) == ~Gated \/ flag[r]

Overdue == {s \in Secrets : due[s]}
IsFirst(s, S) == s \in S /\ \A t \in S : s <= t

\* Mutant: the last of the listing is cut off.
AllButOne == {s \in Overdue : Cardinality({t \in Overdue : t < s}) < Batch - 1}

\* The first Batch secrets that are due; a failing one counts.
DueRotations == {s \in Overdue : Cardinality({t \in Overdue : t < s}) < Batch}

Init ==
  /\ ElectionInit
  /\ due = [s \in Secrets |-> FALSE]
  /\ pass = [r \in Replicas |-> NoPass]
  /\ rotations = [s \in Secrets |-> 0]
  /\ disturbed = FALSE
  /\ dues = 0

\* Tick: the gate.
Tick(r) ==
  /\ up[r] = "up" /\ pass[r].pc = "idle" /\ Holds(r)
  /\ Becomes(r, [pc |-> "list", todo |-> {}])
  /\ UNCHANGED <<electionVars, due, rotations, disturbed, dues>>

\* The listing; a pass that cannot list is retried on the next tick.
List(r) ==
  /\ pass[r].pc = "list"
  /\ \/ /\ up[r] = "up" /\ DueRotations # {}
        /\ Becomes(r, [pc |-> "next", todo |-> DueRotations])
     \/ /\ up[r] = "stopping" \/ DueRotations = {}
        /\ Becomes(r, NoPass)
  /\ UNCHANGED <<electionVars, due, rotations, disturbed, dues>>

\* The next secret of the pass; with the context cancelled every write that is left fails.
NextSecret(r) ==
  /\ pass[r].pc = "next"
  /\ IF pass[r].todo = {} \/ up[r] = "stopping"
     THEN Becomes(r, NoPass)
     ELSE Becomes(r, [pass[r] EXCEPT !.pc = "write"])
  /\ UNCHANGED <<electionVars, due, rotations, disturbed, dues>>

Rotated(s) ==
  /\ due' = [due EXCEPT ![s] = FALSE]
  /\ rotations' = [rotations EXCEPT ![s] = @ + 1]

\* PutSecret commits, or fails: always for a broken secret, and for any other when a fault
\* or the cancelled context meets it.
PutSecret(r) ==
  /\ pass[r].pc = "write"
  /\ \E s \in Secrets :
       /\ IsFirst(s, pass[r].todo)
       /\ \/ s \notin Broken /\ Rotated(s) /\ UNCHANGED faults
          \/ /\ UNCHANGED <<due, rotations>>
             /\ \/ (s \in Broken \/ up[r] = "stopping") /\ UNCHANGED faults
                \/ Fault("network")
       /\ Becomes(r, [pc |-> "next", todo |-> pass[r].todo \ {s}])
  /\ UNCHANGED <<up, elector, flag, lock, lost, disturbed, dues>>

PassStep(r) == Tick(r) \/ List(r) \/ NextSecret(r) \/ PutSecret(r)

-----------------------------------------------------------------------------
(* What the passes run beside.                                             *)

\* The interval of a secret runs out.
BecomeDue(s) ==
  /\ ~due[s] /\ dues < MaxDue
  /\ dues' = dues + 1
  /\ due' = [due EXCEPT ![s] = TRUE]
  /\ rotations' = [rotations EXCEPT ![s] = 0]
  /\ UNCHANGED <<electionVars, pass, disturbed>>

\* An operator writes a new value or takes the policy off.
NoLongerDue(s) ==
  /\ due[s]
  /\ due' = [due EXCEPT ![s] = FALSE]
  /\ UNCHANGED <<electionVars, pass, rotations, disturbed, dues>>

\* A write under way when the process crashes has been committed or never is.
CrashWith(r) ==
  /\ Crash(r)
  /\ Becomes(r, NoPass)
  /\ \/ UNCHANGED <<due, rotations>>
     \/ /\ pass[r].pc = "write"
        /\ \E s \in Secrets \ Broken : IsFirst(s, pass[r].todo) /\ Rotated(s)
  /\ UNCHANGED <<disturbed, dues>>

\* The process ends when every goroutine has returned.
ExitWith(r) ==
  /\ pass[r].pc = "idle"
  /\ Exit(r)
  /\ UNCHANGED <<rotationVars, disturbed>>

\* The passes stand still, and what went wrong is on record.
Beside ==
  /\ UNCHANGED rotationVars
  /\ disturbed' = (disturbed \/ faults' # faults)

Election ==
  \/ \E r \in Replicas : ElectorStep(r) \/ Stop(r) \/ Restart(r)
  \/ SessionEnds
  \/ OrphanEnds

Next ==
  \/ Election /\ Beside
  \/ \E r \in Replicas : PassStep(r) \/ CrashWith(r) \/ ExitWith(r)
  \/ \E s \in Secrets : BecomeDue(s) \/ NoLongerDue(s)

Spec == Init /\ [][Next]_vars

\* The election's fairness, and passes that tick and go on.
Fairness ==
  /\ \A r \in Replicas :
       /\ WF_vars(ElectorStep(r) /\ Beside)
       /\ WF_vars(Restart(r) /\ Beside)
       /\ WF_vars(ExitWith(r))
       /\ WF_vars(PassStep(r))
  /\ WF_vars(OrphanEnds /\ Beside)

FairSpec == Spec /\ Fairness

-----------------------------------------------------------------------------
(* Properties.                                                             *)

\* Every variable has its type; a pass about to write has something to write.
TypeOK ==
  /\ ElectionTypeOK
  /\ due \in [Secrets -> BOOLEAN]
  /\ pass \in [Replicas -> Pass]
  /\ \A r \in Replicas : pass[r].pc = "write" => pass[r].todo # {}
  /\ rotations \in [Secrets -> Nat]
  /\ disturbed \in BOOLEAN
  /\ dues \in 0..MaxDue

\* A secret that became due is rotated once, by one replica, however many replicas crash in
\* whatever they are doing.  Only a replica that is told to stop, loses its session or its
\* connection can still be writing when another has taken over.
RotatedOncePerDue == disturbed \/ \A s \in Secrets : rotations[s] <= 1

\* A secret that is due is rotated, or stops being due, although replicas crash, stop and
\* lose their sessions; fewer secrets than a batch are broken.
DueIsRotated == \A s \in Secrets \ Broken : due[s] ~> ~due[s]

=============================================================================
