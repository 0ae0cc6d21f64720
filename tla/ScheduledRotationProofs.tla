------------------------ MODULE ScheduledRotationProofs ------------------------
(***************************************************************************)
(* What LeaderElection guarantees for every set of replicas and any number *)
(* of faults, and what the election is worth to the rotator: however many  *)
(* replicas crash, no secret is rotated twice for one due date while none  *)
(* is told to stop, loses its session or its connection; for any number of *)
(* replicas, secrets and faults.                                           *)
(***************************************************************************)
EXTENDS ScheduledRotation, TLAPS

-----------------------------------------------------------------------------
(* The election alone.                                                     *)

\* A replica in the middle of a campaign or a release reports no leadership, and a grant
\* on its way names the holder of the lock, unless its session ended meanwhile.
MidwayFollows ==
  \A r \in Replicas :
    /\ elector[r] # "idle" => ~flag[r]
    /\ elector[r] = "granted" => lock = r \/ lost[r]

ElectionInv == ElectionTypeOK /\ MidwayFollows /\ LeadersHoldTheLock /\ HolderWillRelease

\* The election's invariant holds at the start.
LEMMA ElectionStarts == ElectionInit => ElectionInv
BY LockAssumption, FaultAssumption
   DEF ElectionInit, ElectionInv, ElectionTypeOK, MidwayFollows, LeadersHoldTheLock,
       HolderWillRelease

\* Each step of one replica's campaign loop keeps the invariant.
LEMMA ElectorKeeps ==
  ASSUME ElectionInv, NEW r \in Replicas, ElectorStep(r)
  PROVE  ElectionInv'
<1> USE LockAssumption, FaultAssumption
    DEF ElectionInv, ElectionTypeOK, MidwayFollows, LeadersHoldTheLock, HolderWillRelease
<1>1. CASE Campaign(r)
  <2>1. /\ up[r] # "down" /\ ~flag[r] /\ elector[r] = "idle"
        /\ elector' = [elector EXCEPT ![r] = "asked"]
        /\ UNCHANGED <<up, flag, lock, lost, faults>>
    BY <1>1 DEF Campaign
  <2>2. ElectionTypeOK'     BY <2>1
  <2>3. MidwayFollows'      BY <2>1
  <2>4. LeadersHoldTheLock' BY <2>1
  <2>5. HolderWillRelease'  BY <2>1
  <2>6. QED BY <2>2, <2>3, <2>4, <2>5
<1>2. CASE Granted(r)
  <2>1. /\ elector[r] = "asked"
        /\ UNCHANGED <<up, flag, faults>>
    BY <1>2 DEF Granted
  <2>2. CASE /\ lock = Free
             /\ lock' = r
             /\ lost' = [lost EXCEPT ![r] = FALSE]
             /\ elector' = [elector EXCEPT ![r] = "granted"]
    <3>1. ElectionTypeOK'     BY <2>1, <2>2
    <3>2. MidwayFollows'      BY <2>1, <2>2
    <3>3. LeadersHoldTheLock' BY <2>1, <2>2
    <3>4. HolderWillRelease'  BY <2>1, <2>2
    <3>5. QED BY <3>1, <3>2, <3>3, <3>4
  <2>3. CASE /\ lock # Free
             /\ elector' = [elector EXCEPT ![r] = "refused"]
             /\ UNCHANGED <<lock, lost>>
    <3>1. ElectionTypeOK'     BY <2>1, <2>3
    <3>2. MidwayFollows'      BY <2>1, <2>3
    <3>3. LeadersHoldTheLock' BY <2>1, <2>3
    <3>4. HolderWillRelease'  BY <2>1, <2>3
    <3>5. QED BY <3>1, <3>2, <3>3, <3>4
  <2>4. QED BY <1>2, <2>2, <2>3 DEF Granted
<1>3. CASE Elect(r)
  <2>1. /\ elector[r] \in {"granted", "refused"}
        /\ flag' = [flag EXCEPT ![r] = elector[r] = "granted"]
        /\ elector' = [elector EXCEPT ![r] = "idle"]
        /\ UNCHANGED <<up, lock, lost, faults>>
    BY <1>3 DEF Elect
  <2>2. ElectionTypeOK'     BY <2>1
  <2>3. MidwayFollows'      BY <2>1
  <2>4. LeadersHoldTheLock' BY <2>1
  <2>5. HolderWillRelease'  BY <2>1
  <2>6. QED BY <2>2, <2>3, <2>4, <2>5
<1>4. CASE CampaignFails(r)
  <2>1. /\ elector[r] \in {"asked", "granted", "refused"}
        /\ elector' = [elector EXCEPT ![r] = "idle"]
        /\ lock' = IF lock = r THEN Orphan ELSE lock
        /\ UNCHANGED <<up, flag, lost>>
        /\ faults' \in 0..MaxFaults
    BY <1>4 DEF CampaignFails, Disconnected, Fault
  <2>2. ElectionTypeOK'     BY <2>1
  <2>3. MidwayFollows'      BY <2>1
  <2>4. LeadersHoldTheLock' BY <2>1
  <2>5. HolderWillRelease'  BY <2>1
  <2>6. QED BY <2>2, <2>3, <2>4, <2>5
<1>5. ASSUME Heartbeat(r) \/ Resign(r) PROVE ElectionInv'
  <2>1. /\ up[r] # "down" /\ elector[r] = "idle" /\ flag[r]
        /\ flag' = [flag EXCEPT ![r] = FALSE]
        /\ elector' = [elector EXCEPT ![r] = "unlock"]
        /\ UNCHANGED <<up, lock, lost>>
        /\ faults' \in 0..MaxFaults
    BY <1>5 DEF Heartbeat, Resign, StandDown, Fault
  <2>2. ElectionTypeOK'     BY <2>1
  <2>3. MidwayFollows'      BY <2>1
  <2>4. LeadersHoldTheLock' BY <2>1
  <2>5. HolderWillRelease'  BY <2>1
  <2>6. QED BY <2>2, <2>3, <2>4, <2>5
<1>7. CASE Release(r)
  <2>1. /\ elector[r] = "unlock"
        /\ lock' \in {Free, Orphan, lock}
        /\ lock = r => lock' # r
        /\ lock # r => lock' = lock
        /\ elector' = [elector EXCEPT ![r] = "idle"]
        /\ UNCHANGED <<up, flag, lost>>
        /\ faults' \in 0..MaxFaults
    BY <1>7 DEF Release, Disconnected, Fault
  <2>2. ElectionTypeOK'     BY <2>1
  <2>3. MidwayFollows'      BY <2>1
  <2>4. LeadersHoldTheLock' BY <2>1
  <2>5. HolderWillRelease'  BY <2>1
  <2>6. QED BY <2>2, <2>3, <2>4, <2>5
<1>8. QED BY <1>1, <1>2, <1>3, <1>4, <1>5, <1>7 DEF ElectorStep

\* So does what happens to processes and sessions.
LEMMA SurroundingsKeep ==
  ASSUME ElectionInv,
         \/ \E r \in Replicas : Stop(r) \/ Exit(r) \/ Crash(r) \/ Restart(r)
         \/ SessionEnds \/ OrphanEnds
  PROVE  ElectionInv'
<1> USE LockAssumption, FaultAssumption
    DEF ElectionInv, ElectionTypeOK, MidwayFollows, LeadersHoldTheLock, HolderWillRelease
<1>1. ASSUME NEW r \in Replicas, Stop(r) PROVE ElectionInv'
      BY <1>1 DEF Stop, Fault
<1>2. ASSUME NEW r \in Replicas, Exit(r) PROVE ElectionInv'
      BY <1>2 DEF Exit
<1>3. ASSUME NEW r \in Replicas, Crash(r) PROVE ElectionInv'
      BY <1>3 DEF Crash, Disconnected, Fault
<1>4. ASSUME NEW r \in Replicas, Restart(r) PROVE ElectionInv'
      BY <1>4 DEF Restart
<1>5. CASE SessionEnds BY <1>5 DEF SessionEnds, Fault
<1>6. CASE OrphanEnds  BY <1>6 DEF OrphanEnds
<1>7. QED BY <1>1, <1>2, <1>3, <1>4, <1>5, <1>6

\* Every step of the election keeps it.
LEMMA ElectionStep == ElectionInv /\ [ElectionNext]_electionVars => ElectionInv'
<1> SUFFICES ASSUME ElectionInv, [ElectionNext]_electionVars PROVE ElectionInv'
  OBVIOUS
<1>1. CASE ElectionNext BY <1>1, ElectorKeeps, SurroundingsKeep DEF ElectionNext
<1>2. CASE UNCHANGED electionVars
      BY <1>2 DEF electionVars, ElectionInv, ElectionTypeOK, MidwayFollows,
                  LeadersHoldTheLock, HolderWillRelease
<1>3. QED BY <1>1, <1>2

\* The election keeps its types.
THEOREM ElectionTypeCorrect == ElectionSpec => []ElectionTypeOK
<1>1. ElectionInv => ElectionTypeOK BY DEF ElectionInv
<1>2. QED BY <1>1, ElectionStarts, ElectionStep, PTL DEF ElectionSpec

\* Whoever reports leadership holds the lock or had its session ended by the server: the
\* order of Resign and the closing of broken connections make it so.
THEOREM LeadershipIsTheLock == ElectionSpec => []LeadersHoldTheLock
<1>1. ElectionInv => LeadersHoldTheLock BY DEF ElectionInv
<1>2. QED BY <1>1, ElectionStarts, ElectionStep, PTL DEF ElectionSpec

\* No pooled connection keeps the lock: somebody who holds it will give it back.
THEOREM LockComesBack == ElectionSpec => []HolderWillRelease
<1>1. ElectionInv => HolderWillRelease BY DEF ElectionInv
<1>2. QED BY <1>1, ElectionStarts, ElectionStep, PTL DEF ElectionSpec

-----------------------------------------------------------------------------
(* The rotator under the election.                                         *)

PassesTyped ==
  /\ due \in [Secrets -> BOOLEAN]
  /\ pass \in [Replicas -> Pass]
  /\ rotations \in [Secrets -> Nat]

\* Without anything but crashes, leadership is the lock.
Undisturbed == \A r \in Replicas : ~lost[r] /\ up[r] # "stopping"

\* A pass under way runs on the leader, an idle one holds no listing.
PassesUnderTheLock ==
  \A r \in Replicas :
    /\ pass[r].pc # "idle" => flag[r]
    /\ pass[r].pc = "idle" => pass[r].todo = {}

\* A secret that was rotated is neither due nor listed.
RotatedIsDone ==
  \A s \in Secrets :
    rotations[s] # 0 => /\ rotations[s] = 1
                        /\ ~due[s]
                        /\ \A r \in Replicas : s \notin pass[r].todo

Calm == Undisturbed /\ PassesUnderTheLock /\ RotatedIsDone

Inv ==
  /\ Gated = TRUE /\ disturbed \in BOOLEAN
  /\ ElectionInv /\ PassesTyped
  /\ ~disturbed => Calm

\* Until something disturbs the election, one replica reports leadership.
LEMMA OneLeader ==
  ASSUME ElectionInv, Undisturbed, NEW p \in Replicas, NEW q \in Replicas, flag[p], flag[q]
  PROVE  p = q
BY DEF ElectionInv, LeadersHoldTheLock, Undisturbed

\* The rotators' invariant holds at the start.
LEMMA InitInv == Gated = TRUE /\ Init => Inv
<1> SUFFICES ASSUME Gated = TRUE, Init PROVE Inv OBVIOUS
<1>1. ElectionInv BY ElectionStarts DEF Init
<1>2. PassesTyped BY DEF Init, PassesTyped, Pass, NoPass
<1>3. Undisturbed BY DEF Init, ElectionInit, Undisturbed
<1>4. PassesUnderTheLock BY DEF Init, PassesUnderTheLock, NoPass
<1>5. RotatedIsDone BY DEF Init, RotatedIsDone
<1>6. QED BY <1>1, <1>2, <1>3, <1>4, <1>5 DEF Inv, Calm, Init

\* Steps of the election leave the passes alone, and unless a fault is put on record a leader
\* with a pass is not the one whose flag they clear.
LEMMA ElectionKeeps == Inv /\ Election /\ Beside => Inv'
<1> SUFFICES ASSUME Inv, Election, Beside PROVE Inv' OBVIOUS
<1>1. ElectionInv' BY ElectorKeeps, SurroundingsKeep DEF Inv, Election
<1>2. PassesTyped' /\ disturbed' \in BOOLEAN
  BY DEF Inv, PassesTyped, Beside, rotationVars
<1>3. ASSUME ~disturbed' PROVE Calm'
  <2> USE DEF Inv, Calm
  <2>1. ~disturbed /\ faults' = faults BY <1>3 DEF Beside
  <2>2. Undisturbed' /\ \A r \in Replicas : flag[r] => flag'[r]
    <3> USE <2>1 DEF ElectionInv, ElectionTypeOK, MidwayFollows, Undisturbed,
            LeadersHoldTheLock, Fault
    <3>1. ASSUME NEW q \in Replicas, ElectorStep(q)
          PROVE  Undisturbed' /\ \A r \in Replicas : flag[r] => flag'[r]
      <4>1. CASE Campaign(q)      BY <4>1 DEF Campaign
      <4>2. CASE Granted(q)       BY <4>2 DEF Granted
      <4>3. CASE Elect(q)         BY <4>3 DEF Elect
      <4>4. CASE CampaignFails(q) BY <4>4 DEF CampaignFails
      <4>5. CASE Heartbeat(q)     BY <4>5 DEF Heartbeat
      <4>6. CASE Resign(q)        BY <4>6 DEF Resign
      <4>7. CASE Release(q)       BY <4>7 DEF Release
      <4>8. QED BY <3>1, <4>1, <4>2, <4>3, <4>4, <4>5, <4>6, <4>7 DEF ElectorStep
    <3>2. ASSUME NEW q \in Replicas, Stop(q) \/ Restart(q)
          PROVE  Undisturbed' /\ \A r \in Replicas : flag[r] => flag'[r]
      BY <3>2 DEF Stop, Restart
    <3>3. CASE SessionEnds \/ OrphanEnds BY <3>3 DEF SessionEnds, OrphanEnds
    <3>4. QED BY <3>1, <3>2, <3>3 DEF Election
  <2>3. PassesUnderTheLock'
    BY <2>1, <2>2 DEF PassesUnderTheLock, Beside, rotationVars
  <2>4. RotatedIsDone' BY <2>1 DEF RotatedIsDone, Beside, rotationVars
  <2>5. QED BY <2>2, <2>3, <2>4
<1>4. QED BY <1>1, <1>2, <1>3 DEF Inv

\* The election does not see the passes, which at most meet a fault of their own.
LEMMA PassesApart ==
  ASSUME Inv, UNCHANGED <<up, elector, flag, lock, lost>>, faults' \in 0..MaxFaults
  PROVE  ElectionInv' /\ (Undisturbed => Undisturbed')
BY DEF Inv, ElectionInv, ElectionTypeOK, MidwayFollows, LeadersHoldTheLock,
       HolderWillRelease, Undisturbed

\* A step of a pass keeps it.
LEMMA PassKeeps == ASSUME Inv, NEW r \in Replicas, PassStep(r) PROVE Inv'
<1> USE DEF PassesTyped, PassesUnderTheLock, RotatedIsDone
<1>p. PassesTyped BY DEF Inv
<1>t. pass[r] \in Pass BY <1>p
<1>d. /\ disturbed' = disturbed
      /\ UNCHANGED <<up, elector, flag, lock, lost>>
  BY DEF PassStep, Tick, List, NextSecret, PutSecret, electionVars
<1>f. faults' \in 0..MaxFaults
  <2>1. faults \in 0..MaxFaults BY DEF Inv, ElectionInv, ElectionTypeOK
  <2>2. MaxFaults \in Nat BY FaultAssumption
  <2>3. faults' = faults \/ (faults < MaxFaults /\ faults' = faults + 1)
    BY DEF PassStep, Tick, List, NextSecret, PutSecret, electionVars, Fault
  <2>4. QED BY <2>1, <2>2, <2>3
<1>e. ElectionInv' /\ (Undisturbed => Undisturbed') BY <1>d, <1>f, PassesApart
<1>s. SUFFICES PassesTyped' /\ (Calm => PassesUnderTheLock' /\ RotatedIsDone')
  BY <1>d, <1>e DEF Inv, Calm
<1>1. CASE Tick(r)
  <2>1. flag[r]
    <3>1. Gated = TRUE BY DEF Inv
    <3>2. Holds(r) BY <1>1 DEF Tick
    <3>3. QED BY <3>1, <3>2 DEF Holds
  <2>2. pass' = [pass EXCEPT ![r] = [pc |-> "list", todo |-> {}]]
    BY <1>1 DEF Tick, Becomes
  <2>3. [pc |-> "list", todo |-> {}] \in Pass BY DEF Pass
  <2>4. UNCHANGED <<due, rotations>> BY <1>1 DEF Tick
  <2>5. PassesTyped' BY <1>p, <2>2, <2>3, <2>4
  <2>6. ASSUME Calm PROVE PassesUnderTheLock' /\ RotatedIsDone'
    BY <1>p, <1>d, <2>1, <2>2, <2>4, <2>6 DEF Calm
  <2>7. QED BY <2>5, <2>6
<1>2. CASE List(r)
  <2>1. UNCHANGED <<due, rotations>> BY <1>2 DEF List
  <2>2. Calm => flag[r] BY <1>2 DEF List, Calm
  <2>3. PICK p \in {NoPass, [pc |-> "next", todo |-> DueRotations]} :
          pass' = [pass EXCEPT ![r] = p]
    <3>1. CASE pass' = [pass EXCEPT ![r] = NoPass] BY <3>1
    <3>2. CASE pass' = [pass EXCEPT ![r] = [pc |-> "next", todo |-> DueRotations]] BY <3>2
    <3>3. QED BY <1>2, <3>1, <3>2 DEF List, Becomes
  <2>4. p \in Pass
    <3>1. DueRotations \in SUBSET Secrets BY DEF DueRotations, Overdue
    <3>2. NoPass \in Pass BY DEF NoPass, Pass
    <3>3. [pc |-> "next", todo |-> DueRotations] \in Pass BY <3>1 DEF Pass
    <3>4. QED BY <2>3, <3>2, <3>3
  <2>5. \A s \in p.todo : due[s]
    <3>1. \A s \in DueRotations : due[s] BY DEF DueRotations, Overdue
    <3>2. QED BY <2>3, <3>1 DEF NoPass
  <2>6. p.pc = "idle" => p.todo = {} BY <2>3 DEF NoPass
  <2>7. PassesTyped' BY <1>p, <2>1, <2>3, <2>4
  <2>8. ASSUME Calm PROVE PassesUnderTheLock' /\ RotatedIsDone'
    BY <1>p, <1>d, <2>1, <2>2, <2>3, <2>4, <2>5, <2>6, <2>8 DEF Calm
  <2>9. QED BY <2>7, <2>8
<1>3. CASE NextSecret(r)
  <2>1. UNCHANGED <<due, rotations>> BY <1>3 DEF NextSecret
  <2>2. Calm => flag[r] BY <1>3 DEF NextSecret, Calm
  <2>3. PICK p \in {NoPass, [pc |-> "write", todo |-> pass[r].todo]} :
          pass' = [pass EXCEPT ![r] = p]
    <3>1. [pass[r] EXCEPT !.pc = "write"] = [pc |-> "write", todo |-> pass[r].todo]
      BY <1>t DEF Pass
    <3>2. QED BY <1>3, <3>1 DEF NextSecret, Becomes
  <2>4. p \in Pass /\ p.todo \subseteq pass[r].todo BY <2>3, <1>t DEF Pass, NoPass
  <2>5. p.pc = "idle" => p.todo = {} BY <2>3 DEF NoPass
  <2>6. PassesTyped' BY <1>p, <2>1, <2>3, <2>4
  <2>7. ASSUME Calm PROVE PassesUnderTheLock' /\ RotatedIsDone'
    BY <1>p, <1>d, <2>1, <2>2, <2>3, <2>4, <2>5, <2>7 DEF Calm
  <2>8. QED BY <2>6, <2>7
<1>4. CASE PutSecret(r)
  <2>3. Calm => flag[r] BY <1>4 DEF PutSecret, Calm
  <2>4. PICK s \in Secrets :
          /\ s \in pass[r].todo
          /\ pass' = [pass EXCEPT ![r] = [pc |-> "next", todo |-> pass[r].todo \ {s}]]
          /\ Rotated(s) \/ UNCHANGED <<due, rotations>>
    BY <1>4 DEF PutSecret, IsFirst, Becomes
  <2>5. [pc |-> "next", todo |-> pass[r].todo \ {s}] \in Pass BY <1>t DEF Pass
  <2>6. PassesTyped'
    <3>1. pass' \in [Replicas -> Pass] BY <1>p, <2>4, <2>5
    <3>2. due' \in [Secrets -> BOOLEAN] /\ rotations' \in [Secrets -> Nat]
      <4>1. CASE Rotated(s) BY <1>p, <4>1 DEF Rotated
      <4>2. CASE UNCHANGED <<due, rotations>> BY <1>p, <4>2
      <4>3. QED BY <2>4, <4>1, <4>2
    <3>3. QED BY <3>1, <3>2
  <2>7. ASSUME Calm PROVE PassesUnderTheLock' /\ RotatedIsDone'
    <3> USE <2>7 DEF Calm
    <3>1. PassesUnderTheLock' BY <1>p, <1>d, <2>3, <2>4
    <3>2. \A q \in Replicas : s \notin pass'[q].todo
      <4>1. \A q \in Replicas : q # r => pass[q].todo = {}
        BY <2>3, OneLeader DEF Inv
      <4>2. QED BY <1>p, <2>4, <4>1
    <3>3. \A q \in Replicas : pass'[q].todo \subseteq pass[q].todo BY <1>p, <2>4
    <3>4. RotatedIsDone'
      <4>1. CASE Rotated(s) BY <1>p, <2>4, <3>2, <3>3, <4>1 DEF Rotated
      <4>2. CASE UNCHANGED <<due, rotations>> BY <3>3, <4>2
      <4>3. QED BY <2>4, <4>1, <4>2
    <3>5. QED BY <3>1, <3>4
  <2>8. QED BY <2>6, <2>7
<1>5. QED BY <1>1, <1>2, <1>3, <1>4 DEF PassStep

\* A crash ends the pass with the process, and with it every write that was to come.
LEMMA CrashKeeps == ASSUME Inv, NEW r \in Replicas, CrashWith(r) PROVE Inv'
<1>1. ElectionInv' BY SurroundingsKeep DEF Inv, CrashWith
<1>p. PassesTyped BY DEF Inv
<1>2. pass' = [pass EXCEPT ![r] = NoPass] /\ disturbed' = disturbed
  BY DEF CrashWith, Becomes
<1>3. \A q \in Replicas : pass'[q].todo \subseteq pass[q].todo
  BY <1>p, <1>2 DEF PassesTyped, NoPass
<1>4. \A q \in Replicas : q # r => flag'[q] = flag[q] /\ pass'[q] = pass[q]
  BY <1>p, <1>2 DEF CrashWith, Crash, Inv, ElectionInv, ElectionTypeOK, PassesTyped
<1>7. \/ UNCHANGED <<due, rotations>>
      \/ \E s \in pass[r].todo : s \in Secrets /\ Rotated(s) /\ pass[r].pc = "write"
  BY DEF CrashWith, IsFirst
<1>8. PassesTyped'
  <2>1. CASE UNCHANGED <<due, rotations>>
    BY <1>p, <1>2, <2>1 DEF PassesTyped, NoPass, Pass
  <2>2. ASSUME NEW s \in Secrets, Rotated(s) PROVE PassesTyped'
    BY <1>p, <1>2, <2>2 DEF PassesTyped, NoPass, Pass, Rotated
  <2>3. QED BY <1>7, <2>1, <2>2
<1>9. ASSUME Calm PROVE Calm'
  <2> USE <1>9 DEF Calm
  <2>1. Undisturbed' BY DEF Inv, Undisturbed, ElectionInv, ElectionTypeOK, CrashWith, Crash
  <2>2. PassesUnderTheLock'
    BY <1>p, <1>2, <1>4 DEF PassesTyped, PassesUnderTheLock, NoPass
  <2>3. RotatedIsDone'
    <3>1. CASE UNCHANGED <<due, rotations>> BY <1>3, <3>1 DEF RotatedIsDone
    <3>2. ASSUME NEW s \in pass[r].todo, s \in Secrets, Rotated(s), pass[r].pc = "write"
          PROVE  RotatedIsDone'
      <4>1. flag[r] BY <3>2 DEF PassesUnderTheLock
      <4>2. \A q \in Replicas : q # r => pass[q].todo = {}
        BY <4>1, OneLeader DEF Inv, PassesUnderTheLock
      <4>3. pass'[r].todo = {} BY <1>p, <1>2 DEF PassesTyped, NoPass
      <4>4. \A q \in Replicas : s \notin pass'[q].todo BY <1>4, <4>2, <4>3
      <4>5. QED BY <1>p, <1>3, <3>2, <4>4 DEF PassesTyped, RotatedIsDone, Rotated
    <3>3. QED BY <1>7, <3>1, <3>2
  <2>4. QED BY <2>1, <2>2, <2>3
<1>10. QED BY <1>1, <1>2, <1>8, <1>9 DEF Inv

\* Every step keeps it.
LEMMA Invariance == Inv /\ [Next]_vars => Inv'
<1> SUFFICES ASSUME Inv, [Next]_vars PROVE Inv' OBVIOUS
<1>p. PassesTyped BY DEF Inv
<1>f. faults \in 0..MaxFaults BY DEF Inv, ElectionInv, ElectionTypeOK
<1>1. CASE Election /\ Beside BY <1>1, ElectionKeeps
<1>2. ASSUME NEW r \in Replicas, PassStep(r) PROVE Inv' BY <1>2, PassKeeps
<1>3. ASSUME NEW r \in Replicas, CrashWith(r) PROVE Inv' BY <1>3, CrashKeeps
<1>4. ASSUME NEW r \in Replicas, ExitWith(r) PROVE Inv'
  <2>1. ElectionInv' BY <1>4, SurroundingsKeep DEF ExitWith, Inv
  <2>2. UNCHANGED <<due, pass, rotations, disturbed, flag, lost>>
    BY <1>4 DEF ExitWith, Exit, rotationVars
  <2>3. PassesTyped' BY <1>p, <2>2 DEF PassesTyped
  <2>4. Calm => Undisturbed' BY <1>4 DEF ExitWith, Exit, Calm, Undisturbed
  <2>5. Calm => PassesUnderTheLock' /\ RotatedIsDone'
    BY <2>2 DEF Calm, PassesUnderTheLock, RotatedIsDone
  <2>6. QED BY <2>1, <2>2, <2>3, <2>4, <2>5 DEF Inv, Calm
<1>5. ASSUME NEW s \in Secrets, BecomeDue(s) \/ NoLongerDue(s) PROVE Inv'
  <2>1. UNCHANGED <<up, elector, flag, lock, lost, faults, pass, disturbed>>
    BY <1>5 DEF BecomeDue, NoLongerDue, electionVars
  <2>2. PassesTyped'
    <3>1. CASE BecomeDue(s) BY <1>p, <3>1 DEF PassesTyped, BecomeDue
    <3>2. CASE NoLongerDue(s) BY <1>p, <3>2 DEF PassesTyped, NoLongerDue
    <3>3. QED BY <1>5, <3>1, <3>2
  <2>3. Calm => PassesUnderTheLock' BY <2>1 DEF Calm, PassesUnderTheLock
  <2>4. Calm => RotatedIsDone'
    BY <1>5, <1>p, <2>1 DEF Calm, PassesTyped, RotatedIsDone, BecomeDue, NoLongerDue
  <2>5. ElectionInv' /\ (Undisturbed => Undisturbed') BY <1>f, <2>1, PassesApart
  <2>6. QED BY <2>1, <2>2, <2>3, <2>4, <2>5 DEF Inv, Calm
<1>6. CASE UNCHANGED vars
  <2>1. UNCHANGED <<up, elector, flag, lock, lost, faults>> BY <1>6 DEF vars
  <2>2. ElectionInv' /\ (Undisturbed => Undisturbed') BY <1>f, <2>1, PassesApart
  <2>3. PassesTyped' BY <1>6, <1>p DEF vars, PassesTyped
  <2>4. Calm => PassesUnderTheLock' /\ RotatedIsDone'
    BY <1>6 DEF vars, Calm, PassesUnderTheLock, RotatedIsDone
  <2>5. QED BY <1>6, <2>2, <2>3, <2>4 DEF vars, Inv, Calm
<1>7. QED BY <1>1, <1>2, <1>3, <1>4, <1>5, <1>6 DEF Next

\* With an election, and whatever crashes, every secret is rotated at most once each time it
\* becomes due, until a stop, a lost session or the network meets the election.
THEOREM CrashesRotateOnce == ASSUME Gated = TRUE PROVE Spec => []RotatedOncePerDue
<1>1. Inv => RotatedOncePerDue
  BY DEF Inv, Calm, PassesTyped, RotatedIsDone, RotatedOncePerDue
<1>2. QED BY <1>1, InitInv, Invariance, PTL DEF Spec

\* The passes do not disturb the election: what LeaderElection guarantees of leadership and
\* of the lock holds while rotations run, crash and drain.
THEOREM RotatorsKeepTheElection ==
  ASSUME Gated = TRUE PROVE Spec => [](LeadersHoldTheLock /\ HolderWillRelease)
<1>1. Inv => LeadersHoldTheLock /\ HolderWillRelease BY DEF Inv, ElectionInv
<1>2. QED BY <1>1, InitInv, Invariance, PTL DEF Spec

=============================================================================
