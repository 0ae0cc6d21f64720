----------------------- MODULE DynamicCredentialsProofs -----------------------
(***************************************************************************)
(* Theorems about DynamicCredentials, for every set of workers, roles and  *)
(* targets.                                                                *)
(*                                                                         *)
(* While a role's DSN keeps naming the same target, a lease recorded as    *)
(* revoked has no account left.  The invariant that carries it says where  *)
(* an account can be (in the home of its lease's role), who still owes it  *)
(* a lease (the worker about to commit, or nobody: cut), and that a worker *)
(* about to close a lease has seen its account go.                         *)
(***************************************************************************)
EXTENDS DynamicCredentials, TLAPS

\* A worker whose lease row is not committed yet.
Issuing(w) == work[w].pc \in {"create", "commit"}

\* No two issues share a lease_id, and an id is never used again.
IdsApart ==
  \A w \in Workers :
    Issuing(w) =>
      /\ work[w].lease < next /\ work[w].lease \notin cut
      /\ \A v \in Workers : v # w /\ Issuing(v) => work[v].lease # work[w].lease

Base == TypeOK /\ IdsApart

\* Everything that names a target names the role's home.
AtHome ==
  /\ \A r \in Roles : role[r].dsn = Home[r]
  /\ \A w \in Workers : /\ Issuing(w) => work[w].dsn = Home[work[w].role]
                        /\ work[w].pc = "drop" => work[w].dsn = Home[leases[work[w].lease].role]
  /\ \A l \in Rows, t \in Targets : <<t, l>> \in accounts => t = Home[leases[l].role]

\* A worker about to close a lease has dropped its account.
DroppedBeforeClosing ==
  \A w \in Workers : work[w].pc = "mark" => \A t \in Targets : <<t, work[w].lease>> \notin accounts

IInv == Base /\ AtHome /\ DroppedBeforeClosing /\ AccountsAreAccounted

-----------------------------------------------------------------------------
\* A worker with nothing to do has its type.
LEMMA NoWorkType == NoWork \in Work /\ NoWork.pc = "idle" /\ NoWork.todo = {}
<1>1. (CHOOSE r \in Roles : TRUE) \in Roles
  BY RoleAssumption
<1>2. (CHOOSE x \in Templates : TRUE) \in Templates
  BY TemplateAssumption
<1>3. Home[CHOOSE r \in Roles : TRUE] \in Targets
  BY <1>1, RoleAssumption
<1> QED
  BY <1>1, <1>2, <1>3 DEF NoWork, Work

\* A worker that turns to its next lease, or finishes, is well formed.
LEMMA ProceedType ==
  ASSUME TypeOK, NEW w \in Workers, NEW S \in SUBSET Rows, Proceed(w, S)
  PROVE  \E x \in Work : /\ Becomes(w, x)
                         /\ x.pc \in {"idle", "resolve"}
                         /\ x.pc = "resolve" => x.lease \in Rows
                         /\ x.todo \subseteq Rows
<1>1. CASE S = {}
  BY <1>1, NoWorkType DEF Proceed
<1>2. CASE S # {}
  <2>1. PICK l \in S : Becomes(w, [NoWork EXCEPT !.pc = "resolve", !.lease = l, !.todo = S \ {l}])
    BY <1>2 DEF Proceed
  <2> DEFINE x == [NoWork EXCEPT !.pc = "resolve", !.lease = l, !.todo = S \ {l}]
  <2>2. l \in Nat /\ S \ {l} \subseteq Ids
    BY BoundAssumption DEF TypeOK, Ids
  <2>3. x \in Work
    BY <2>2, NoWorkType DEF Work
  <2>4. x.pc = "resolve" /\ x.lease = l /\ x.todo = S \ {l}
    BY NoWorkType DEF Work
  <2> QED
    BY <2>1, <2>3, <2>4
<1> QED
  BY <1>1, <1>2

\* One worker moves on while the rows, ids and faults stay as they are; it is not
\* issuing, so nothing it holds concerns the ids in use.
LEMMA MovesOn ==
  ASSUME Base, NEW w \in Workers, NEW x \in Work, Becomes(w, x),
         x.pc \in {"audit", "resolve", "drop", "mark"} => x.lease \in Rows,
         x.pc \notin {"create", "commit"}, x.todo \subseteq Rows,
         Rows' = Rows, cut' = cut, next' = next
  PROVE  /\ work' \in [Workers -> Work]
         /\ work'[w] = x
         /\ \A v \in Workers : v # w => work'[v] = work[v]
         /\ \A v \in Workers :
              /\ work'[v].pc \in {"audit", "resolve", "drop", "mark"} => work'[v].lease \in Rows
              /\ work'[v].pc \in {"create", "commit"} => work'[v].lease \in Ids \ Rows
              /\ work'[v].todo \subseteq Rows
         /\ IdsApart'
<1>1. /\ work' \in [Workers -> Work]
      /\ work'[w] = x
      /\ \A v \in Workers : v # w => work'[v] = work[v]
  BY DEF Becomes, Base, TypeOK
<1>2. ASSUME NEW v \in Workers
      PROVE  /\ work'[v].pc \in {"audit", "resolve", "drop", "mark"} => work'[v].lease \in Rows
             /\ work'[v].pc \in {"create", "commit"} => work'[v].lease \in Ids \ Rows
             /\ work'[v].todo \subseteq Rows
  BY <1>1 DEF Base, TypeOK
<1>3. IdsApart'
  BY <1>1 DEF Base, IdsApart, Issuing
<1> QED
  BY <1>1, <1>2, <1>3

-----------------------------------------------------------------------------
\* Base holds at the start.
LEMMA InitBase == Init => Base
<1> SUFFICES ASSUME Init PROVE Base
  OBVIOUS
<1>1. role \in [Roles -> Role]
  BY DEF Init, Role
<1>2. \A w \in Workers : work[w] = NoWork
  BY DEF Init
<1>3. work \in [Workers -> Work]
  BY NoWorkType DEF Init
<1>4. Rows = {}
  BY DEF Init, Rows
<1>5. leases \in [Rows -> Lease]
  BY <1>4 DEF Init, Rows
<1>6. next \in 1..MaxLeases + 1 /\ now \in 0..MaxNow /\ faults \in 0..MaxFaults
  BY BoundAssumption DEF Init
<1>7. TypeOK
  BY <1>1, <1>2, <1>3, <1>4, <1>5, <1>6, NoWorkType DEF Init, TypeOK
<1>8. IdsApart
  BY <1>2, NoWorkType DEF IdsApart, Issuing
<1> QED
  BY <1>7, <1>8 DEF Base

\* Every action keeps Base.
LEMMA StepBase == Base /\ [Next]_vars => Base'
<1> SUFFICES ASSUME Base, [Next]_vars PROVE Base'
  OBVIOUS
<1> USE DEF Base
<1>1. ASSUME NEW w \in Workers, NEW r \in Roles, Begin(w, r) PROVE Base'
  <2> DEFINE x == [NoWork EXCEPT !.pc = "create", !.lease = next, !.role = r,
                                 !.dsn = role[r].dsn, !.expires = now + TTL]
  <2>1. next \in Nat /\ next \in Ids /\ next' = next + 1 /\ Becomes(w, x)
    BY <1>1, BoundAssumption DEF Begin, Ids
  <2>2. role[r].dsn \in Targets /\ now + TTL \in Nat
    BY BoundAssumption DEF TypeOK, Role
  <2>3. x \in Work
    BY <2>1, <2>2, NoWorkType DEF Work
  <2>4. x.pc = "create" /\ x.lease = next /\ x.todo = {}
    BY NoWorkType DEF Work
  <2> HIDE DEF x
  <2>5. /\ work' \in [Workers -> Work] /\ work'[w] = x
        /\ \A v \in Workers : v # w => work'[v] = work[v]
    BY <2>1, <2>3 DEF Becomes, TypeOK
  <2>6. next \notin Rows /\ next \notin cut
    BY DEF TypeOK, Ids
  <2>7. next' \in 1..MaxLeases + 1 /\ \A l \in Rows \cup cut : l < next'
    <3>1. \A l \in Rows \cup cut : l \in Int /\ l < next
      BY DEF TypeOK, Ids
    <3> QED
      BY <3>1, <2>1, BoundAssumption DEF Ids
  <2>8. UNCHANGED <<role, leases, accounts, up, readable, cut, now, faults>>
    BY <1>1 DEF Begin
  <2>9. TypeOK'
    <3>1. \A v \in Workers :
             /\ work'[v].pc \in {"audit", "resolve", "drop", "mark"} => work'[v].lease \in Rows
             /\ work'[v].pc \in {"create", "commit"} => work'[v].lease \in Ids \ Rows
             /\ work'[v].todo \subseteq Rows
      BY <2>1, <2>4, <2>5, <2>6 DEF TypeOK
    <3> QED
      BY <3>1, <2>5, <2>7, <2>8 DEF TypeOK, Rows
  <2>10. IdsApart'
    <3>1. \A v \in Workers : Issuing(v) => work[v].lease \in Int /\ work[v].lease < next
      BY DEF IdsApart, TypeOK, Issuing, Ids
    <3>2. next \in Int /\ next < next'
      BY <2>1
    <3>3. \A v \in Workers : v # w => (Issuing(v)' <=> Issuing(v))
      BY <2>5 DEF Issuing
    <3>4. ASSUME NEW v \in Workers, Issuing(v)'
          PROVE  /\ work'[v].lease < next' /\ work'[v].lease \notin cut'
                 /\ \A u \in Workers : u # v /\ Issuing(u)' => work'[u].lease # work'[v].lease
      <4>1. CASE v = w
        BY <4>1, <3>1, <3>2, <3>3, <2>4, <2>5, <2>6, <2>8
      <4>2. CASE v # w
        <5>1. work'[v] = work[v] /\ Issuing(v)
          BY <4>2, <2>5, <3>3, <3>4
        <5>2. work'[v].lease < next' /\ work'[v].lease \notin cut'
          BY <5>1, <3>1, <2>1, <2>8 DEF IdsApart
        <5>3. \A u \in Workers : u # v /\ Issuing(u)' => work'[u].lease # work'[v].lease
          BY <5>1, <3>1, <3>3, <2>4, <2>5 DEF IdsApart
        <5> QED
          BY <5>2, <5>3
      <4> QED
        BY <4>1, <4>2
    <3> QED
      BY <3>4 DEF IdsApart, Issuing
  <2> QED
    BY <2>9, <2>10
<1>2. ASSUME NEW w \in Workers, Create(w) PROVE Base'
  <2>1. work[w].pc = "create" /\ work[w].lease \in Ids \ Rows /\ work[w].lease < next
    BY <1>2 DEF Create, TypeOK, IdsApart, Issuing
  <2>2. accounts' \subseteq Targets \X Ids
    BY <1>2, <2>1 DEF Create, TypeOK, Work
  <2>3. UNCHANGED <<role, leases, up, readable, next, now>>
    BY <1>2 DEF Create
  <2>4. CASE Becomes(w, [work[w] EXCEPT !.pc = "commit"]) /\ UNCHANGED <<cut, faults>>
    <3> DEFINE x == [work[w] EXCEPT !.pc = "commit"]
    <3>1. x \in Work /\ x.pc = "commit" /\ x.lease = work[w].lease /\ x.todo = work[w].todo
      BY DEF TypeOK, Work
    <3> HIDE DEF x
    <3>2. /\ work' \in [Workers -> Work] /\ work'[w] = x
          /\ \A v \in Workers : v # w => work'[v] = work[v]
      BY <2>4, <3>1 DEF Becomes, TypeOK, x
    <3>3. \A v \in Workers : work'[v].lease = work[v].lease /\ work'[v].todo = work[v].todo
                             /\ (Issuing(v)' <=> Issuing(v))
      BY <3>1, <3>2, <2>1 DEF Issuing
    <3>4. IdsApart'
      BY <3>3, <2>3, <2>4 DEF IdsApart
    <3>5. TypeOK'
      BY <3>1, <3>2, <3>3, <2>1, <2>2, <2>3, <2>4 DEF TypeOK, Rows
    <3> QED
      BY <3>4, <3>5
  <2>5. CASE Becomes(w, NoWork) /\ (cut' = cut \/ cut' = cut \cup {work[w].lease})
             /\ (faults' = faults \/ Fault)
    <3>1. /\ work' \in [Workers -> Work] /\ work'[w] = NoWork
          /\ \A v \in Workers : v # w => work'[v] = work[v]
      BY <2>5, NoWorkType DEF Becomes, TypeOK
    <3>2. faults' \in 0..MaxFaults
      BY <2>5, BoundAssumption DEF Fault, TypeOK
    <3>3. cut' \subseteq Ids \ Rows /\ \A l \in Rows \cup cut' : l < next
      BY <2>1, <2>5 DEF TypeOK
    <3>4. IdsApart'
      BY <3>1, <2>1, <2>3, <2>5, NoWorkType DEF IdsApart, Issuing
    <3>5. TypeOK'
      BY <3>1, <3>2, <3>3, <2>2, <2>3, NoWorkType DEF TypeOK, Rows
    <3> QED
      BY <3>4, <3>5
  <2> QED
    BY <1>2, <2>4, <2>5 DEF Create
<1>3. ASSUME NEW w \in Workers, Commit(w) PROVE Base'
  <2>1. work[w].pc = "commit" /\ work[w].lease \in Ids \ Rows /\ work[w].lease < next
        /\ work[w].lease \in Nat /\ work[w].role \in Roles /\ work[w].expires \in Nat
    BY <1>3 DEF Commit, TypeOK, IdsApart, Issuing, Work
  <2>2. UNCHANGED <<role, accounts, up, readable, next, now>>
    BY <1>3 DEF Commit
  <2>3. CASE /\ Becomes(w, [NoWork EXCEPT !.pc = "audit", !.lease = work[w].lease])
             /\ UNCHANGED <<cut, faults>>
             /\ leases' = [l \in Rows \cup {work[w].lease} |->
                             IF l = work[w].lease
                             THEN [role |-> work[w].role, expires |-> work[w].expires, open |-> TRUE]
                             ELSE leases[l]]
    <3> DEFINE x == [NoWork EXCEPT !.pc = "audit", !.lease = work[w].lease]
    <3>1. x \in Work /\ x.pc = "audit" /\ x.lease = work[w].lease /\ x.todo = {}
      BY <2>1, NoWorkType DEF Work
    <3> HIDE DEF x
    <3>2. /\ work' \in [Workers -> Work] /\ work'[w] = x
          /\ \A v \in Workers : v # w => work'[v] = work[v]
      BY <2>3, <3>1 DEF Becomes, TypeOK, x
    <3>3. Rows' = Rows \cup {work[w].lease}
      BY <2>3 DEF Rows
    <3>4. leases' \in [Rows' -> Lease]
      <4>1. [role |-> work[w].role, expires |-> work[w].expires, open |-> TRUE] \in Lease
        BY <2>1 DEF Lease
      <4> QED
        BY <4>1, <3>3, <2>3 DEF TypeOK
    <3>5. \A v \in Workers : v # w /\ Issuing(v) => work[v].lease # work[w].lease
      BY <2>1 DEF IdsApart, Issuing
    <3>6. work[w].lease \notin cut
      BY <2>1 DEF IdsApart, Issuing
    <3>7. IdsApart'
      BY <3>1, <3>2, <2>2, <2>3 DEF IdsApart, Issuing
    <3>8. cut' \subseteq Ids \ Rows' /\ \A l \in Rows' \cup cut' : l < next'
      BY <3>3, <3>6, <2>1, <2>2, <2>3 DEF TypeOK
    <3>9. \A v \in Workers :
             /\ work'[v].pc \in {"audit", "resolve", "drop", "mark"} => work'[v].lease \in Rows'
             /\ work'[v].pc \in {"create", "commit"} => work'[v].lease \in Ids \ Rows'
             /\ work'[v].todo \subseteq Rows'
      BY <3>1, <3>2, <3>3, <3>5 DEF TypeOK, Issuing
    <3>10. TypeOK'
      BY <3>2, <3>3, <3>4, <3>8, <3>9, <2>1, <2>2, <2>3 DEF TypeOK
    <3> QED
      BY <3>7, <3>10
  <2>4. CASE Becomes(w, NoWork) /\ cut' = cut \cup {work[w].lease} /\ Fault /\ UNCHANGED leases
    <3>1. /\ work' \in [Workers -> Work] /\ work'[w] = NoWork
          /\ \A v \in Workers : v # w => work'[v] = work[v]
      BY <2>4, NoWorkType DEF Becomes, TypeOK
    <3>2. faults' \in 0..MaxFaults
      BY <2>4, BoundAssumption DEF Fault, TypeOK
    <3>3. cut' \subseteq Ids \ Rows /\ \A l \in Rows \cup cut' : l < next
      BY <2>1, <2>4 DEF TypeOK
    <3>4. IdsApart'
      BY <3>1, <2>1, <2>2, <2>4, NoWorkType DEF IdsApart, Issuing
    <3>5. TypeOK'
      BY <3>1, <3>2, <3>3, <2>2, <2>4, NoWorkType DEF TypeOK, Rows
    <3> QED
      BY <3>4, <3>5
  <2> QED
    BY <1>3, <2>3, <2>4 DEF Commit
\* The steps in which a worker that is not issuing moves on.
<1>4. ASSUME NEW w \in Workers, NEW x \in Work, Becomes(w, x),
             x.pc \in {"audit", "resolve", "drop", "mark"} => x.lease \in Rows,
             x.pc \notin {"create", "commit"}, x.todo \subseteq Rows,
             role' \in [Roles -> Role], leases' \in [Rows -> Lease], accounts' \subseteq accounts,
             faults' = faults \/ Fault, UNCHANGED <<up, readable, cut, next, now>>
      PROVE  Base'
  <2>1. Rows' = Rows
    BY <1>4 DEF Rows
  <2>2. faults' \in 0..MaxFaults
    BY <1>4, BoundAssumption DEF Fault, TypeOK
  <2>3. /\ work' \in [Workers -> Work]
        /\ \A v \in Workers :
              /\ work'[v].pc \in {"audit", "resolve", "drop", "mark"} => work'[v].lease \in Rows
              /\ work'[v].pc \in {"create", "commit"} => work'[v].lease \in Ids \ Rows
              /\ work'[v].todo \subseteq Rows
        /\ IdsApart'
    BY <1>4, <2>1, MovesOn
  <2> QED
    BY <1>4, <2>1, <2>2, <2>3 DEF TypeOK
<1>5. ASSUME NEW w \in Workers, Audit(w) PROVE Base'
  <2> DEFINE y == [work[w] EXCEPT !.pc = "resolve"]
  <2>1. y \in Work /\ y.pc = "resolve" /\ y.lease = work[w].lease /\ y.todo = work[w].todo
    BY DEF TypeOK, Work
  <2>2. work[w].lease \in Rows /\ work[w].todo \subseteq Rows
    BY <1>5 DEF Audit, TypeOK
  <2>3. Becomes(w, NoWork) \/ Becomes(w, y)
    BY <1>5 DEF Audit
  <2>4. UNCHANGED <<role, leases, accounts, up, readable, cut, next, now>>
        /\ (faults' = faults \/ Fault)
    BY <1>5 DEF Audit
  <2> HIDE DEF y
  <2> QED
    BY <1>4, <2>1, <2>2, <2>3, <2>4, NoWorkType DEF TypeOK
<1>6. ASSUME NEW w \in Workers, NEW l \in Open, Revoke(w, l) PROVE Base'
  <2> DEFINE y == [NoWork EXCEPT !.pc = "resolve", !.lease = l]
  <2>1. l \in Rows /\ l \in Nat
    <3>1. l \in Rows BY DEF Open
    <3>2. Rows \subseteq Ids BY DEF TypeOK
    <3>3. QED BY <3>1, <3>2, BoundAssumption DEF Ids
  <2>2. y \in Work /\ y.pc = "resolve" /\ y.lease = l /\ y.todo = {}
    BY <2>1, NoWorkType DEF Work
  <2>3. Becomes(w, y) /\ UNCHANGED <<role, leases, accounts, up, readable, cut, next, now, faults>>
    BY <1>6 DEF Revoke
  <2> HIDE DEF y
  <2> QED
    BY <1>4, <2>1, <2>2, <2>3 DEF TypeOK
<1>7. ASSUME NEW w \in Workers, Reap(w) PROVE Base'
  <2>1. PICK S \in SUBSET Rows : Proceed(w, S)
    BY <1>7 DEF Reap, Due, Open
  <2>2. PICK x \in Work : /\ Becomes(w, x) /\ x.pc \in {"idle", "resolve"}
                          /\ x.pc = "resolve" => x.lease \in Rows
                          /\ x.todo \subseteq Rows
    BY <2>1, ProceedType
  <2>3. UNCHANGED <<role, leases, accounts, up, readable, cut, next, now, faults>>
    BY <1>7 DEF Reap
  <2> QED
    BY <1>4, <2>2, <2>3 DEF TypeOK
<1>8. ASSUME NEW w \in Workers, Resolve(w) PROVE Base'
  <2> DEFINE r == leases[work[w].lease].role
             y == [work[w] EXCEPT !.pc = "drop", !.dsn = role[r].dsn,
                                  !.revocation = role[r].revocation]
  <2>1. work[w].lease \in Rows /\ work[w].todo \subseteq Rows
    BY <1>8 DEF Resolve, TypeOK
  <2>2. r \in Roles
    BY <2>1 DEF TypeOK, Lease
  <2>3. role[r].dsn \in Targets /\ role[r].revocation \in Templates
    BY <2>2 DEF TypeOK, Role
  <2>4. y \in Work /\ y.pc = "drop" /\ y.lease = work[w].lease /\ y.todo = work[w].todo
    BY <2>3 DEF TypeOK, Work
  <2>5. UNCHANGED <<role, leases, accounts, up, readable, cut, next, now, faults>>
    BY <1>8 DEF Resolve
  <2>6. CASE r \in readable
    <3>1. Becomes(w, y)
      BY <1>8, <2>6 DEF Resolve
    <3> HIDE DEF y
    <3> QED
      BY <1>4, <2>1, <2>4, <2>5, <3>1 DEF TypeOK
  <2>7. CASE r \notin readable
    <3>1. PICK x \in Work : /\ Becomes(w, x) /\ x.pc \in {"idle", "resolve"}
                            /\ x.pc = "resolve" => x.lease \in Rows
                            /\ x.todo \subseteq Rows
      BY <1>8, <2>1, <2>7, ProceedType DEF Resolve
    <3> QED
      BY <1>4, <2>5, <3>1 DEF TypeOK
  <2> QED
    BY <2>6, <2>7
<1>9. ASSUME NEW w \in Workers, Drop(w) PROVE Base'
  <2> DEFINE y == [work[w] EXCEPT !.pc = "mark"]
  <2>1. work[w].lease \in Rows /\ work[w].todo \subseteq Rows
    BY <1>9 DEF Drop, TypeOK
  <2>2. y \in Work /\ y.pc = "mark" /\ y.lease = work[w].lease /\ y.todo = work[w].todo
    BY DEF TypeOK, Work
  <2>3. UNCHANGED <<role, leases, up, readable, cut, next, now>> /\ (faults' = faults \/ Fault)
        /\ accounts' \subseteq accounts
    BY <1>9 DEF Drop
  <2>4. CASE Becomes(w, y)
    <3> HIDE DEF y
    <3> QED
      BY <1>4, <2>1, <2>2, <2>3, <2>4 DEF TypeOK
  <2>5. CASE Proceed(w, work[w].todo)
    <3>1. PICK x \in Work : /\ Becomes(w, x) /\ x.pc \in {"idle", "resolve"}
                            /\ x.pc = "resolve" => x.lease \in Rows
                            /\ x.todo \subseteq Rows
      BY <2>1, <2>5, ProceedType
    <3> QED
      BY <1>4, <2>3, <3>1 DEF TypeOK
  <2> QED
    BY <1>9, <2>4, <2>5 DEF Drop
<1>10. ASSUME NEW w \in Workers, Mark(w) PROVE Base'
  <2>1. work[w].lease \in Rows /\ work[w].todo \subseteq Rows
    BY <1>10 DEF Mark, TypeOK
  <2>2. PICK x \in Work : /\ Becomes(w, x) /\ x.pc \in {"idle", "resolve"}
                          /\ x.pc = "resolve" => x.lease \in Rows
                          /\ x.todo \subseteq Rows
    BY <1>10, <2>1, ProceedType DEF Mark
  <2>3. leases' \in [Rows -> Lease]
    <3>1. leases[work[w].lease] \in Lease
      BY <2>1 DEF TypeOK
    <3>2. [leases[work[w].lease] EXCEPT !.open = FALSE] \in Lease
      BY <3>1 DEF Lease
    <3> QED
      BY <1>10, <2>1, <3>2 DEF Mark, TypeOK
  <2>4. UNCHANGED <<role, accounts, up, readable, cut, next, now>> /\ (faults' = faults \/ Fault)
    BY <1>10 DEF Mark
  <2> QED
    BY <1>4, <2>2, <2>3, <2>4 DEF TypeOK
<1>11. ASSUME NEW r \in Roles, NEW s \in {"active", "disabled"}, NEW t \in Targets,
              NEW x \in Templates, UpdateDynamicRole(r, s, t, x)
       PROVE  Base'
  <2>1. role' \in [Roles -> Role]
    <3>1. [status |-> s, dsn |-> t, revocation |-> x] \in Role
      BY DEF Role
    <3> QED
      BY <1>11, <3>1 DEF UpdateDynamicRole, TypeOK
  <2> QED
    BY <1>11, <2>1 DEF UpdateDynamicRole, TypeOK, IdsApart, Issuing, Rows
<1>12. ASSUME NEW w \in Workers, NEW r \in Roles, CountLive(w, r) PROVE Base'
  <2> DEFINE y == [NoWork EXCEPT !.pc = "delete", !.role = r]
  <2>1. y \in Work /\ y.pc = "delete" /\ y.todo = {}
    BY NoWorkType DEF Work
  <2>2. Becomes(w, y) /\ UNCHANGED <<role, leases, accounts, up, readable, cut, next, now, faults>>
    BY <1>12 DEF CountLive
  <2> HIDE DEF y
  <2> QED
    BY <1>4, <2>1, <2>2 DEF TypeOK
<1>13. ASSUME NEW w \in Workers, SoftDelete(w) PROVE Base'
  <2>1. work[w].role \in Roles
    BY DEF TypeOK, Work
  <2>2. [role[work[w].role] EXCEPT !.status = "deleted"] \in Role
    BY <2>1 DEF TypeOK, Role
  <2>3. role' \in [Roles -> Role]
    BY <1>13, <2>1, <2>2 DEF SoftDelete, TypeOK
  <2>4. Becomes(w, NoWork) /\ UNCHANGED <<leases, accounts, up, readable, cut, next, now, faults>>
    BY <1>13 DEF SoftDelete
  <2> QED
    BY <1>4, <2>3, <2>4, NoWorkType DEF TypeOK
<1>14. ASSUME NEW w \in Workers, Crash(w) PROVE Base'
  <2>1. /\ work' \in [Workers -> Work] /\ work'[w] = NoWork
        /\ \A v \in Workers : v # w => work'[v] = work[v]
    BY <1>14, NoWorkType DEF Crash, Becomes, TypeOK
  <2>2. faults' \in 0..MaxFaults
    BY <1>14, BoundAssumption DEF Crash, Fault, TypeOK
  <2>3. UNCHANGED <<role, leases, accounts, up, readable, next, now>>
    BY <1>14 DEF Crash
  <2>4. cut' \subseteq Ids \ Rows /\ \A l \in Rows \cup cut' : l < next
    BY <1>14 DEF Crash, TypeOK, IdsApart, Issuing
  <2>5. IdsApart'
    <3>1. \A v \in Workers : Issuing(v)' => v # w /\ Issuing(v) /\ work'[v] = work[v]
      BY <2>1, NoWorkType DEF Issuing
    <3>2. \A v \in Workers : v # w /\ Issuing(v) => work[v].lease \notin cut'
      BY <1>14 DEF Crash, IdsApart, Issuing
    <3> QED
      BY <3>1, <3>2, <2>3 DEF IdsApart
  <2>6. TypeOK'
    BY <2>1, <2>2, <2>3, <2>4, NoWorkType DEF TypeOK, Rows
  <2> QED
    BY <2>5, <2>6
<1>15. ASSUME NEW t \in Targets, Outage(t) \/ Recover(t) PROVE Base'
  BY <1>15, BoundAssumption DEF Outage, Recover, Fault, TypeOK, IdsApart, Issuing, Rows
<1>18. ASSUME NEW r \in Roles, HideDsn(r) \/ ShowDsn(r) PROVE Base'
  BY <1>18 DEF HideDsn, ShowDsn, TypeOK, IdsApart, Issuing, Rows
<1>16. CASE Tick
  BY <1>16, BoundAssumption DEF Tick, TypeOK, IdsApart, Issuing, Rows
<1>17. CASE UNCHANGED vars
  BY <1>17 DEF vars, TypeOK, IdsApart, Issuing, Rows
<1> QED
  BY <1>1, <1>2, <1>3, <1>5, <1>6, <1>7, <1>8, <1>9, <1>10, <1>11, <1>12, <1>13, <1>14,
     <1>15, <1>16, <1>17, <1>18 DEF Next, Continue

\* TypeOK holds of every behaviour: in particular no worker drops, marks or reaps a
\* lease whose row was rolled back, and no lease_id is used twice.
THEOREM TypeCorrect == Spec => []TypeOK
<1>1. Spec => []Base
  BY InitBase, StepBase, PTL DEF Spec
<1>2. Base => TypeOK
  BY DEF Base
<1> QED
  BY <1>1, <1>2, PTL

-----------------------------------------------------------------------------
\* The part about where accounts are holds at the start.
LEMMA InitHome == Init => AtHome /\ DroppedBeforeClosing /\ AccountsAreAccounted
<1> SUFFICES ASSUME Init PROVE AtHome /\ DroppedBeforeClosing /\ AccountsAreAccounted
  OBVIOUS
<1>1. \A w \in Workers : work[w].pc = "idle"
  BY NoWorkType DEF Init
<1> QED
  BY <1>1 DEF Init, AtHome, DroppedBeforeClosing, AccountsAreAccounted, Issuing, Rows

\* Steps of a worker that is not issuing, which does not come to drop or mark a lease,
\* and which adds no account and closes no lease.
LEMMA QuietStep ==
  ASSUME IInv, NEW w \in Workers, ~Issuing(w), NEW x, x.pc \notin {"create", "commit", "drop", "mark"},
         work' \in [Workers -> Work], Becomes(w, x),
         \A r \in Roles : role'[r].dsn = role[r].dsn,
         accounts' \subseteq accounts, UNCHANGED <<leases, cut>>
  PROVE  AtHome' /\ DroppedBeforeClosing' /\ AccountsAreAccounted'
<1>1. work'[w] = x /\ \A v \in Workers : v # w => work'[v] = work[v]
  BY DEF Becomes, IInv, Base, TypeOK
<1>2. Rows' = Rows /\ Open' = Open
  BY DEF Rows, Open
<1>3. AtHome'
  BY <1>1, <1>2 DEF IInv, AtHome, Issuing
<1>4. DroppedBeforeClosing'
  BY <1>1 DEF IInv, DroppedBeforeClosing
<1>5. AccountsAreAccounted'
  BY <1>1, <1>2 DEF IInv, AccountsAreAccounted, Issuing
<1> QED
  BY <1>3, <1>4, <1>5

\* The record a worker turns to after a lease, or none.
LEMMA ProceedPc ==
  ASSUME NEW w, NEW S, Proceed(w, S)
  PROVE  \E x : Becomes(w, x) /\ x.pc \in {"idle", "resolve"}
<1>1. CASE S = {}
  BY <1>1, NoWorkType DEF Proceed
<1>2. CASE S # {}
  <2>1. PICK l \in S : Becomes(w, [NoWork EXCEPT !.pc = "resolve", !.lease = l, !.todo = S \ {l}])
    BY <1>2 DEF Proceed
  <2>2. [NoWork EXCEPT !.pc = "resolve", !.lease = l, !.todo = S \ {l}].pc = "resolve"
    BY NoWorkType DEF Work
  <2> QED
    BY <2>1, <2>2
<1> QED
  BY <1>1, <1>2

\* While DSNs stay, every action keeps that part.
LEMMA StepHome ==
  ASSUME ~Retarget, IInv, Base', [Next]_vars
  PROVE  AtHome' /\ DroppedBeforeClosing' /\ AccountsAreAccounted'
<1> DEFINE Goal == AtHome' /\ DroppedBeforeClosing' /\ AccountsAreAccounted'
<1>0. work \in [Workers -> Work] /\ work' \in [Workers -> Work] /\ TypeOK
  BY DEF IInv, Base, TypeOK
<1>1. ASSUME NEW w \in Workers, NEW r \in Roles, Begin(w, r) PROVE Goal
  <2> DEFINE x == [NoWork EXCEPT !.pc = "create", !.lease = next, !.role = r,
                                 !.dsn = role[r].dsn, !.expires = now + TTL]
  <2>1. x.pc = "create" /\ x.role = r /\ x.dsn = role[r].dsn
    BY NoWorkType DEF Work
  <2>2. Becomes(w, x) /\ work[w].pc = "idle" /\ UNCHANGED <<role, leases, accounts, cut>>
    BY <1>1 DEF Begin
  <2> HIDE DEF x
  <2>3. work'[w] = x /\ \A v \in Workers : v # w => work'[v] = work[v]
    BY <2>2, <1>0 DEF Becomes
  <2>4. AtHome'
    BY <2>1, <2>2, <2>3 DEF IInv, AtHome, Issuing, Rows
  <2>5. DroppedBeforeClosing'
    BY <2>1, <2>2, <2>3 DEF IInv, DroppedBeforeClosing
  <2>6. AccountsAreAccounted'
    BY <2>1, <2>2, <2>3 DEF IInv, AccountsAreAccounted, Open, Rows
  <2> QED
    BY <2>4, <2>5, <2>6
<1>2. ASSUME NEW w \in Workers, Create(w) PROVE Goal
  <2> DEFINE d == work[w].dsn
             l == work[w].lease
  <2>1. work[w].pc = "create" /\ l \in Ids \ Rows /\ UNCHANGED <<role, leases>>
        /\ d = Home[work[w].role]
    BY <1>2 DEF Create, IInv, Base, TypeOK, AtHome, Issuing
  <2>2. Rows' = Rows /\ Open' = Open
    BY <2>1 DEF Rows, Open
  <2>3. accounts' \subseteq accounts \cup {<<d, l>>} /\ cut \subseteq cut'
    BY <1>2 DEF Create
  <2>4. PICK y : /\ Becomes(w, y)
                 /\ \/ y.pc = "commit" /\ y.lease = l /\ y.dsn = d /\ y.role = work[w].role
                    \/ y.pc = "idle" /\ (l \in cut' \/ accounts' = accounts)
    <3>1. [work[w] EXCEPT !.pc = "commit"].pc = "commit" /\ [work[w] EXCEPT !.pc = "commit"].lease = l
          /\ [work[w] EXCEPT !.pc = "commit"].dsn = d
          /\ [work[w] EXCEPT !.pc = "commit"].role = work[w].role
      BY <1>0 DEF Work
    <3> QED
      BY <1>2, <3>1, NoWorkType DEF Create
  <2>5. work'[w] = y /\ \A v \in Workers : v # w => work'[v] = work[v]
    BY <2>4, <1>0 DEF Becomes
  <2>6. AtHome'
    BY <2>1, <2>2, <2>3, <2>4, <2>5 DEF IInv, AtHome, Issuing
  <2>7. DroppedBeforeClosing'
    <3>1. \A v \in Workers : work[v].pc = "mark" => work[v].lease # l
      BY <2>1, <1>0 DEF TypeOK
    <3> QED
      BY <3>1, <2>3, <2>4, <2>5 DEF IInv, DroppedBeforeClosing
  <2>8. AccountsAreAccounted'
    <3>1. ASSUME NEW a \in accounts'
          PROVE  \/ a[2] \in Open
                 \/ a[2] \in cut'
                 \/ \E v \in Workers : work'[v].pc = "commit" /\ work'[v].lease = a[2] /\ work'[v].dsn = a[1]
      <4>1. CASE a \in accounts
        BY <4>1, <2>1, <2>3, <2>5 DEF IInv, AccountsAreAccounted
      <4>2. CASE a = <<d, l>> /\ a \notin accounts
        BY <4>2, <2>4, <2>5
      <4> QED
        BY <4>1, <4>2, <2>3
    <3> QED
      BY <3>1, <2>2 DEF AccountsAreAccounted
  <2> QED
    BY <2>6, <2>7, <2>8
<1>3. ASSUME NEW w \in Workers, Commit(w) PROVE Goal
  <2> DEFINE l == work[w].lease
  <2>1. work[w].pc = "commit" /\ l \in Ids \ Rows /\ UNCHANGED <<role, accounts>>
        /\ work[w].dsn = Home[work[w].role] /\ l \notin cut
        /\ \A v \in Workers : v # w /\ Issuing(v) => work[v].lease # l
    BY <1>3 DEF Commit, IInv, Base, TypeOK, AtHome, Issuing, IdsApart
  <2>2. CASE /\ Becomes(w, [NoWork EXCEPT !.pc = "audit", !.lease = l])
             /\ UNCHANGED <<cut, faults>>
             /\ leases' = [k \in Rows \cup {l} |->
                             IF k = l
                             THEN [role |-> work[w].role, expires |-> work[w].expires, open |-> TRUE]
                             ELSE leases[k]]
    <3>1. [NoWork EXCEPT !.pc = "audit", !.lease = l].pc = "audit"
      BY NoWorkType DEF Work
    <3>2. work'[w].pc = "audit" /\ \A v \in Workers : v # w => work'[v] = work[v]
      BY <2>2, <3>1, <1>0 DEF Becomes
    <3>3. Rows' = Rows \cup {l} /\ leases'[l].role = work[w].role /\ leases'[l].open
          /\ \A k \in Rows : leases'[k] = leases[k]
      BY <2>1, <2>2 DEF Rows
    <3>4. Open' = Open \cup {l}
      BY <3>3, <2>1 DEF Open
    <3>5. \A t \in Targets : <<t, l>> \in accounts => t = work[w].dsn
      <4> SUFFICES ASSUME NEW t \in Targets, <<t, l>> \in accounts PROVE t = work[w].dsn
        OBVIOUS
      <4>1. \/ l \in Open
            \/ l \in cut
            \/ \E v \in Workers : work[v].pc = "commit" /\ work[v].lease = l /\ work[v].dsn = t
        BY DEF IInv, AccountsAreAccounted
      <4> QED
        BY <4>1, <2>1 DEF Open, Issuing
    <3>6. AtHome'
      <4>1. \A k \in Rows', t \in Targets : <<t, k>> \in accounts' => t = Home[leases'[k].role]
        BY <3>3, <3>5, <2>1 DEF IInv, AtHome
      <4>2. \A v \in Workers : /\ Issuing(v)' => work'[v].dsn = Home[work'[v].role]
                               /\ work'[v].pc = "drop" => work'[v].dsn = Home[leases'[work'[v].lease].role]
        <5>1. \A v \in Workers : work[v].pc = "drop" => work[v].lease \in Rows
          BY <1>0 DEF TypeOK
        <5> QED
          BY <5>1, <3>2, <3>3 DEF IInv, AtHome, Issuing
      <4> QED
        BY <4>1, <4>2, <2>1 DEF IInv, AtHome
    <3>7. DroppedBeforeClosing'
      BY <3>2, <2>1 DEF IInv, DroppedBeforeClosing
    <3>8. AccountsAreAccounted'
      BY <3>2, <3>4, <2>1, <2>2 DEF IInv, AccountsAreAccounted
    <3> QED
      BY <3>6, <3>7, <3>8
  <2>3. CASE Becomes(w, NoWork) /\ cut' = cut \cup {l} /\ UNCHANGED leases
    <3>1. work'[w].pc = "idle" /\ \A v \in Workers : v # w => work'[v] = work[v]
      BY <2>3, <1>0, NoWorkType DEF Becomes
    <3>2. Rows' = Rows /\ Open' = Open
      BY <2>3 DEF Rows, Open
    <3>3. AtHome'
      BY <3>1, <3>2, <2>1, <2>3 DEF IInv, AtHome, Issuing
    <3>4. DroppedBeforeClosing'
      BY <3>1, <2>1 DEF IInv, DroppedBeforeClosing
    <3>5. AccountsAreAccounted'
      BY <3>1, <3>2, <2>1, <2>3 DEF IInv, AccountsAreAccounted
    <3> QED
      BY <3>3, <3>4, <3>5
  <2> QED
    BY <1>3, <2>2, <2>3 DEF Commit
<1>4. ASSUME NEW w \in Workers, Audit(w) PROVE Goal
  <2>1. [work[w] EXCEPT !.pc = "resolve"].pc = "resolve"
    BY <1>0 DEF Work
  <2>2. \E x : Becomes(w, x) /\ x.pc \in {"idle", "resolve"}
    BY <1>4, <2>1, NoWorkType DEF Audit
  <2> QED
    BY <1>0, <1>4, <2>2, QuietStep DEF Audit, Issuing
<1>5. ASSUME NEW w \in Workers, NEW l \in Open, Revoke(w, l) PROVE Goal
  <2>1. [NoWork EXCEPT !.pc = "resolve", !.lease = l].pc = "resolve"
    BY NoWorkType DEF Work
  <2>2. \E x : Becomes(w, x) /\ x.pc \in {"idle", "resolve"}
    BY <1>5, <2>1 DEF Revoke
  <2> QED
    BY <1>0, <1>5, <2>2, QuietStep DEF Revoke, Issuing
<1>6. ASSUME NEW w \in Workers, Reap(w) PROVE Goal
  <2>1. \E x : Becomes(w, x) /\ x.pc \in {"idle", "resolve"}
    BY <1>6, ProceedPc DEF Reap
  <2> QED
    BY <1>0, <1>6, <2>1, QuietStep DEF Reap, Issuing
<1>7. ASSUME NEW w \in Workers, Resolve(w) PROVE Goal
  <2> DEFINE r == leases[work[w].lease].role
             y == [work[w] EXCEPT !.pc = "drop", !.dsn = role[r].dsn,
                                  !.revocation = role[r].revocation]
  <2>1. work[w].pc = "resolve" /\ UNCHANGED <<role, leases, accounts, cut>>
    BY <1>7 DEF Resolve
  <2>2. CASE r \notin readable
    <3>1. \E x : Becomes(w, x) /\ x.pc \in {"idle", "resolve"}
      BY <1>7, <2>2, ProceedPc DEF Resolve
    <3> QED
      BY <1>0, <2>1, <3>1, QuietStep DEF Issuing
  <2>3. CASE r \in readable
    <3>1. Becomes(w, y)
      BY <1>7, <2>3 DEF Resolve
    <3>2. r \in Roles
      BY <1>0, <2>1, <3>1 DEF TypeOK, Lease
    <3>3. y.pc = "drop" /\ y.lease = work[w].lease /\ y.dsn = Home[r]
      BY <1>0, <3>2 DEF Work, IInv, AtHome
    <3> HIDE DEF y
    <3>4. work'[w] = y /\ \A v \in Workers : v # w => work'[v] = work[v]
      BY <2>1, <3>1, <1>0 DEF Becomes
    <3>5. Rows' = Rows /\ Open' = Open
      BY <2>1, <3>1 DEF Rows, Open
    <3>6. AtHome'
      BY <2>1, <3>1, <3>3, <3>4, <3>5 DEF IInv, AtHome, Issuing
    <3>7. DroppedBeforeClosing'
      BY <2>1, <3>1, <3>3, <3>4 DEF IInv, DroppedBeforeClosing
    <3>8. AccountsAreAccounted'
      BY <2>1, <3>1, <3>3, <3>4, <3>5 DEF IInv, AccountsAreAccounted
    <3> QED
      BY <3>6, <3>7, <3>8
  <2> QED
    BY <2>2, <2>3
<1>8. ASSUME NEW w \in Workers, Drop(w) PROVE Goal
  <2> DEFINE l == work[w].lease
  <2>1. work[w].pc = "drop" /\ l \in Rows /\ UNCHANGED <<role, leases, cut>>
        /\ work[w].dsn = Home[leases[l].role] /\ accounts' \subseteq accounts
    BY <1>8, <1>0 DEF Drop, TypeOK, IInv, AtHome
  <2>2. CASE Proceed(w, work[w].todo)
    <3>1. \E x : Becomes(w, x) /\ x.pc \in {"idle", "resolve"}
      BY <2>2, ProceedPc
    <3> QED
      BY <1>0, <2>1, <3>1, QuietStep DEF Issuing
  <2>3. CASE /\ accounts' = accounts \ {<<work[w].dsn, l>>}
             /\ Becomes(w, [work[w] EXCEPT !.pc = "mark"])
    <3> DEFINE y == [work[w] EXCEPT !.pc = "mark"]
    <3>1. y.pc = "mark" /\ y.lease = l
      BY <1>0 DEF Work
    <3>2. work'[w] = y /\ \A v \in Workers : v # w => work'[v] = work[v]
      BY <2>3, <1>0 DEF Becomes
    <3> HIDE DEF y
    <3>3. Rows' = Rows /\ Open' = Open
      BY <2>1 DEF Rows, Open
    <3>4. AtHome'
      BY <2>1, <3>1, <3>2, <3>3 DEF IInv, AtHome, Issuing
    <3>5. \A t \in Targets : <<t, l>> \notin accounts'
      BY <2>1, <2>3 DEF IInv, AtHome
    <3>6. DroppedBeforeClosing'
      BY <2>1, <3>1, <3>2, <3>5 DEF IInv, DroppedBeforeClosing
    <3>7. AccountsAreAccounted'
      BY <2>1, <3>1, <3>2, <3>3 DEF IInv, AccountsAreAccounted
    <3> QED
      BY <3>4, <3>6, <3>7
  <2> QED
    BY <1>8, <2>2, <2>3 DEF Drop
<1>9. ASSUME NEW w \in Workers, Mark(w) PROVE Goal
  <2> DEFINE l == work[w].lease
  <2>1. work[w].pc = "mark" /\ l \in Rows /\ UNCHANGED <<role, accounts, cut>>
        /\ \A t \in Targets : <<t, l>> \notin accounts
    BY <1>9, <1>0 DEF Mark, TypeOK, IInv, DroppedBeforeClosing
  <2>2. PICK x : Becomes(w, x) /\ x.pc \in {"idle", "resolve"}
    BY <1>9, ProceedPc DEF Mark
  <2>3. work'[w] = x /\ \A v \in Workers : v # w => work'[v] = work[v]
    BY <2>2, <1>0 DEF Becomes
  <2>4. Rows' = Rows /\ Open \ {l} \subseteq Open' /\ \A k \in Rows : leases'[k].role = leases[k].role
    <3>1. \A k \in Rows : leases[k] \in Lease
      BY <1>0 DEF TypeOK
    <3>2. leases' = leases \/ leases' = [leases EXCEPT ![l].open = FALSE]
      BY <1>9 DEF Mark
    <3> QED
      BY <2>1, <3>1, <3>2 DEF Rows, Open, Lease
  <2>5. AtHome'
    <3>1. \A v \in Workers : work[v].pc = "drop" => work[v].lease \in Rows
      BY <1>0 DEF TypeOK
    <3> QED
      BY <3>1, <2>1, <2>2, <2>3, <2>4 DEF IInv, AtHome, Issuing
  <2>6. DroppedBeforeClosing'
    BY <2>1, <2>2, <2>3 DEF IInv, DroppedBeforeClosing
  <2>7. AccountsAreAccounted'
    <3>1. \A a \in accounts : a[2] # l
      BY <2>1, <1>0 DEF TypeOK
    <3> QED
      BY <3>1, <2>1, <2>2, <2>3, <2>4 DEF IInv, AccountsAreAccounted
  <2> QED
    BY <2>5, <2>6, <2>7
<1>10. ASSUME NEW r \in Roles, NEW s \in {"active", "disabled"}, NEW t \in Targets,
              NEW x \in Templates, UpdateDynamicRole(r, s, t, x)
       PROVE  Goal
  <2>1. \A q \in Roles : role'[q].dsn = role[q].dsn
    BY <1>10, <1>0 DEF UpdateDynamicRole, TypeOK
  <2>2. UNCHANGED <<leases, accounts, work, cut>>
    BY <1>10 DEF UpdateDynamicRole
  <2> QED
    BY <2>1, <2>2 DEF IInv, AtHome, DroppedBeforeClosing, AccountsAreAccounted, Issuing, Rows, Open
<1>11. ASSUME NEW w \in Workers, NEW r \in Roles, CountLive(w, r) PROVE Goal
  <2>1. [NoWork EXCEPT !.pc = "delete", !.role = r].pc = "delete"
    BY NoWorkType DEF Work
  <2>2. \E x : Becomes(w, x) /\ x.pc = "delete"
    BY <1>11, <2>1 DEF CountLive
  <2> QED
    BY <1>0, <1>11, <2>2, QuietStep DEF CountLive, Issuing
<1>12. ASSUME NEW w \in Workers, SoftDelete(w) PROVE Goal
  <2>1. \A q \in Roles : role'[q].dsn = role[q].dsn
    BY <1>12, <1>0 DEF SoftDelete, TypeOK, Role
  <2> QED
    BY <1>0, <1>12, <2>1, NoWorkType, QuietStep DEF SoftDelete, Issuing
<1>13. ASSUME NEW w \in Workers, Crash(w) PROVE Goal
  <2>1. work'[w].pc = "idle" /\ \A v \in Workers : v # w => work'[v] = work[v]
    BY <1>13, <1>0, NoWorkType DEF Crash, Becomes
  <2>2. UNCHANGED <<role, leases, accounts>> /\ cut \subseteq cut'
        /\ (work[w].pc = "commit" => work[w].lease \in cut')
    BY <1>13 DEF Crash
  <2>3. Rows' = Rows /\ Open' = Open
    BY <2>2 DEF Rows, Open
  <2>4. AtHome'
    BY <2>1, <2>2, <2>3 DEF IInv, AtHome, Issuing
  <2>5. DroppedBeforeClosing'
    BY <2>1, <2>2 DEF IInv, DroppedBeforeClosing
  <2>6. AccountsAreAccounted'
    BY <2>1, <2>2, <2>3 DEF IInv, AccountsAreAccounted
  <2> QED
    BY <2>4, <2>5, <2>6
<1>14. CASE UNCHANGED <<role, leases, accounts, work, cut>>
  BY <1>14 DEF IInv, AtHome, DroppedBeforeClosing, AccountsAreAccounted, Issuing, Rows, Open
<1>15. ASSUME NEW t \in Targets, Outage(t) \/ Recover(t) PROVE Goal
  BY <1>14, <1>15 DEF Outage, Recover
<1>18. ASSUME NEW r \in Roles, HideDsn(r) \/ ShowDsn(r) PROVE Goal
  BY <1>14, <1>18 DEF HideDsn, ShowDsn
<1>16. CASE Tick
  BY <1>14, <1>16 DEF Tick
<1>17. CASE UNCHANGED vars
  BY <1>14, <1>17 DEF vars
<1> QED
  BY <1>1, <1>2, <1>3, <1>4, <1>5, <1>6, <1>7, <1>8, <1>9, <1>10, <1>11, <1>12, <1>13,
     <1>15, <1>16, <1>17, <1>18 DEF Next, Continue

-----------------------------------------------------------------------------
\* While DSNs stay, the invariant holds.
LEMMA Inductive == ASSUME ~Retarget PROVE Spec => []IInv
<1>1. Init => IInv
  BY InitBase, InitHome DEF IInv
<1>2. IInv /\ [Next]_vars => IInv'
  <2> SUFFICES ASSUME IInv, [Next]_vars PROVE IInv'
    OBVIOUS
  <2>1. Base'
    BY StepBase DEF IInv
  <2>2. AtHome' /\ DroppedBeforeClosing' /\ AccountsAreAccounted'
    BY <2>1, StepHome
  <2> QED
    BY <2>1, <2>2 DEF IInv
<1> QED
  BY <1>1, <1>2, PTL DEF Spec

\* While the DSNs of the roles stay, every account on any target is demanded by an open
\* lease, is being issued, or was cut off at one of the two commits.
THEOREM AccountsAccounted == ASSUME ~Retarget PROVE Spec => []AccountsAreAccounted
<1>1. IInv => AccountsAreAccounted
  BY DEF IInv
<1> QED
  BY <1>1, Inductive, PTL

\* While the DSNs of the roles stay, a revoked lease has left no account anywhere: the
\* row is closed only after the drop, by whichever of the workers gets there.
THEOREM RevokedGone == ASSUME ~Retarget PROVE Spec => []RevokedMeansGone
<1>1. IInv => RevokedMeansGone
  <2> SUFFICES ASSUME IInv, NEW l \in Rows, ~leases[l].open, NEW t \in Targets,
                      <<t, l>> \in accounts
               PROVE  FALSE
    BY DEF RevokedMeansGone
  <2>1. l \notin Open /\ l \notin cut
    BY DEF Open, IInv, Base, TypeOK
  <2>2. \A w \in Workers : work[w].pc = "commit" => work[w].lease # l
    BY DEF IInv, Base, TypeOK
  <2> QED
    BY <2>1, <2>2 DEF IInv, AccountsAreAccounted
<1> QED
  BY <1>1, Inductive, PTL

=============================================================================
