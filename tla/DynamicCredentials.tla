-------------------------- MODULE DynamicCredentials --------------------------
(***************************************************************************)
(* Dynamic database credentials: internal/store/dynamic.go, the queries of *)
(* dynamic.sql, internal/dynamic/provisioner.go and the reaper driven by   *)
(* internal/api/dynamic.go.                                                *)
(*                                                                         *)
(* An account lives in a target database and its lease in this one, and no *)
(* transaction spans both.  A worker is one API request or one reaper      *)
(* pass; its steps are the points at which another worker, a crash or the  *)
(* target can get in between.  The lease row an issue inserts is invisible *)
(* until its commit, so inserting it is part of the step before it.        *)
(***************************************************************************)
EXTENDS Integers, FiniteSets

CONSTANTS
  Workers,    \* API requests and reaper passes that may be under way at once
  Reapers,    \* those of them that are reaper passes
  Roles,      \* dynamic role configurations
  Targets,    \* target databases
  Home,       \* the target each role is created with
  Templates,  \* revocation templates an operator may write
  Retarget,   \* whether a role's DSN may come to name another target
  Batch,      \* LIMIT of one reaper pass
  TTL,        \* lifetime of a credential
  MaxLeases,  \* bound: credentials ever issued
  MaxNow,     \* bound: the clock
  MaxFaults   \* bound: crashes, outages, lost replies and refused writes

ASSUME WorkerAssumption == Reapers \subseteq Workers
ASSUME RoleAssumption == Roles # {} /\ Home \in [Roles -> Targets] /\ Retarget \in BOOLEAN
\* DROP ROLE IF EXISTS, DROP ROLE, and a statement the target refuses.
ASSUME TemplateAssumption ==
  Templates # {} /\ Templates \subseteq {"if_exists", "strict", "refused"}
ASSUME BoundAssumption ==
  /\ Batch \in Nat \ {0} /\ TTL \in Nat \ {0}
  /\ MaxLeases \in Nat /\ MaxNow \in Nat /\ MaxFaults \in Nat

VARIABLES
  role,      \* the rows of dynamic_roles
  leases,    \* the committed rows of dynamic_leases, by lease_id
  accounts,  \* <<target, lease_id>>: the database roles that exist
  up,        \* the targets that can be reached
  readable,  \* the roles whose DSN secret can be read
  work,      \* what each worker is in the middle of
  cut,       \* lease_ids whose issue was cut off after the target had committed
  next,      \* the next lease_id
  now,       \* the clock
  faults     \* faults so far

vars == <<role, leases, accounts, up, readable, work, cut, next, now, faults>>

Ids == 1..MaxLeases
Role == [status : {"active", "disabled", "deleted"}, dsn : Targets, revocation : Templates]
Lease == [role : Roles, expires : Nat, open : BOOLEAN]

\* lease is the credential at hand, dsn the resolved target, todo the leases of a
\* pass not yet handled.
Work == [pc : {"idle", "create", "commit", "audit", "resolve", "drop", "mark", "delete"},
         lease : Nat, role : Roles, dsn : Targets, revocation : Templates,
         expires : Nat, todo : SUBSET Ids]

Rows == DOMAIN leases
Open == {l \in Rows : leases[l].open}
Due == {l \in Open : leases[l].expires <= now}

\* What an idle worker holds; only pc means anything.
NoWork == [pc |-> "idle", lease |-> 0, role |-> CHOOSE r \in Roles : TRUE,
           dsn |-> Home[CHOOSE r \in Roles : TRUE],
           revocation |-> CHOOSE x \in Templates : TRUE, expires |-> 0, todo |-> {}]

Becomes(w, x) == work' = [work EXCEPT ![w] = x]

\* One more fault happens.
Fault == faults < MaxFaults /\ faults' = faults + 1

-----------------------------------------------------------------------------
Init ==
  /\ role \in [Roles -> {[status |-> "active", dsn |-> t, revocation |-> x] :
                           t \in Targets, x \in Templates}]
  /\ \A r \in Roles : role[r].dsn = Home[r]
  /\ leases = [l \in {} |-> 0]
  /\ accounts = {}
  /\ up = Targets
  /\ readable = Roles
  /\ work = [w \in Workers |-> NoWork]
  /\ cut = {}
  /\ next = 1
  /\ now = 0
  /\ faults = 0

(* IssueDynamicLease.                                                      *)

\* The role is read and its status checked, the expiry fixed, the DSN resolved and
\* the lease row inserted in a transaction that stays open.
Begin(w, r) ==
  /\ work[w].pc = "idle" /\ w \notin Reapers
  /\ role[r].status = "active" /\ r \in readable
  /\ next \in Ids
  /\ next' = next + 1
  /\ Becomes(w, [NoWork EXCEPT !.pc = "create", !.lease = next, !.role = r,
                               !.dsn = role[r].dsn, !.expires = now + TTL])
  /\ UNCHANGED <<role, leases, accounts, up, readable, cut, now, faults>>

\* prov.Create: one transaction on the target.  An error rolls the lease row back,
\* also when the target had committed and only its reply was lost.
Create(w) ==
  LET account == <<work[w].dsn, work[w].lease>>
  IN
  /\ work[w].pc = "create"
  /\ \/ /\ work[w].dsn \in up
        /\ accounts' = accounts \cup {account}
        /\ \/ /\ Becomes(w, [work[w] EXCEPT !.pc = "commit"])
              /\ UNCHANGED <<cut, faults>>
           \/ /\ Fault
              /\ cut' = cut \cup {work[w].lease}
              /\ Becomes(w, NoWork)
     \/ /\ work[w].dsn \notin up
        /\ Becomes(w, NoWork)
        /\ UNCHANGED <<accounts, cut, faults>>
  /\ UNCHANGED <<role, leases, up, readable, next, now>>

\* Mutant: the row names the role but is written closed.
CommitClosed(w) ==
  /\ work[w].pc = "commit"
  /\ leases' = [l \in Rows \cup {work[w].lease} |->
                  IF l = work[w].lease
                  THEN [role |-> work[w].role, expires |-> work[w].expires, open |-> FALSE]
                  ELSE leases[l]]
  /\ Becomes(w, [NoWork EXCEPT !.pc = "audit", !.lease = work[w].lease])
  /\ UNCHANGED <<role, accounts, up, readable, cut, next, now, faults>>

\* The local commit; it may fail.
Commit(w) ==
  /\ work[w].pc = "commit"
  /\ \/ /\ leases' = [l \in Rows \cup {work[w].lease} |->
                        IF l = work[w].lease
                        THEN [role |-> work[w].role, expires |-> work[w].expires, open |-> TRUE]
                        ELSE leases[l]]
        /\ Becomes(w, [NoWork EXCEPT !.pc = "audit", !.lease = work[w].lease])
        /\ UNCHANGED <<cut, faults>>
     \/ /\ Fault
        /\ cut' = cut \cup {work[w].lease}
        /\ Becomes(w, NoWork)
        /\ UNCHANGED leases
  /\ UNCHANGED <<role, accounts, up, readable, next, now>>

\* IssueDynamicCredential returns the credential once it is audited; when the audit
\* fails it revokes the lease, if that still is open.
Audit(w) ==
  /\ work[w].pc = "audit"
  /\ \/ /\ Becomes(w, NoWork)
        /\ UNCHANGED faults
     \/ /\ Fault
        /\ Becomes(w, IF work[w].lease \in Open THEN [work[w] EXCEPT !.pc = "resolve"] ELSE NoWork)
  /\ UNCHANGED <<role, leases, accounts, up, readable, cut, next, now>>

(* revokeDynamicLeaseRow and its three callers: an explicit revocation, a   *)
(* failed audit (above) and the reaper.                                    *)

\* RevokeDynamicLease: an open lease is taken up, a closed one is reported as revoked.
Revoke(w, l) ==
  /\ work[w].pc = "idle" /\ w \notin Reapers
  /\ l \in Open
  /\ Becomes(w, [NoWork EXCEPT !.pc = "resolve", !.lease = l])
  /\ UNCHANGED <<role, leases, accounts, up, readable, cut, next, now, faults>>

\* ListExpiredDynamicLeases: the longest overdue, at most Batch of them.
Overdue(S) ==
  /\ S \subseteq Due
  /\ Cardinality(S) = IF Cardinality(Due) < Batch THEN Cardinality(Due) ELSE Batch
  /\ \A k \in S, l \in Due \ S : leases[k].expires <= leases[l].expires

\* Take up the oldest lease of S, or finish when there is none.
Proceed(w, S) ==
  IF S = {} THEN Becomes(w, NoWork)
  ELSE \E l \in S :
         /\ \A k \in S : leases[l].expires <= leases[k].expires
         /\ Becomes(w, [NoWork EXCEPT !.pc = "resolve", !.lease = l, !.todo = S \ {l}])

\* A pass of ReapExpiredDynamicLeases begins.
Reap(w) ==
  /\ work[w].pc = "idle" /\ w \in Reapers
  /\ Due # {}
  /\ \E S \in SUBSET Due : Overdue(S) /\ Proceed(w, S)
  /\ UNCHANGED <<role, leases, accounts, up, readable, cut, next, now, faults>>

\* Mutant: the role is looked up as every other query does, without deleted ones.
ResolveLive(w) ==
  LET r == leases[work[w].lease].role
  IN
  /\ work[w].pc = "resolve"
  /\ IF role[r].status = "deleted" \/ r \notin readable THEN Proceed(w, work[w].todo)
     ELSE Becomes(w, [work[w] EXCEPT !.pc = "drop", !.dsn = role[r].dsn,
                                     !.revocation = role[r].revocation])
  /\ UNCHANGED <<role, leases, accounts, up, readable, cut, next, now, faults>>

\* GetDynamicRoleByID, whatever became of the role, and the DSN it names now.  A DSN
\* that cannot be read leaves the lease open, and a pass goes on to its next lease; a
\* lease of an erased tenant is passed over while the batch is listed, which is the same.
Resolve(w) ==
  LET r == leases[work[w].lease].role
  IN
  /\ work[w].pc = "resolve"
  /\ IF r \in readable
     THEN Becomes(w, [work[w] EXCEPT !.pc = "drop", !.dsn = role[r].dsn,
                                     !.revocation = role[r].revocation])
     ELSE Proceed(w, work[w].todo)
  /\ UNCHANGED <<role, leases, accounts, up, readable, cut, next, now, faults>>

\* What the target makes of the revocation statement.
Drops(w) ==
  /\ work[w].dsn \in up
  /\ \/ work[w].revocation = "if_exists"
     \/ work[w].revocation = "strict" /\ <<work[w].dsn, work[w].lease>> \in accounts

\* Mutant: a refused revocation is recorded as done.
DropRegardless(w) ==
  LET account == <<work[w].dsn, work[w].lease>>
  IN
  /\ work[w].pc = "drop"
  /\ accounts' = IF Drops(w) THEN accounts \ {account} ELSE accounts
  /\ Becomes(w, [work[w] EXCEPT !.pc = "mark"])
  /\ UNCHANGED <<role, leases, up, readable, cut, next, now, faults>>

\* Mutant: the first refusal ends the pass.
DropGivesUp(w) ==
  LET account == <<work[w].dsn, work[w].lease>>
  IN
  /\ work[w].pc = "drop"
  /\ \/ /\ Drops(w)
        /\ accounts' = accounts \ {account}
        /\ \/ /\ Becomes(w, [work[w] EXCEPT !.pc = "mark"])
              /\ UNCHANGED faults
           \/ /\ Fault
              /\ Becomes(w, NoWork)
     \/ /\ ~Drops(w)
        /\ Becomes(w, NoWork)
        /\ UNCHANGED <<accounts, faults>>
  /\ UNCHANGED <<role, leases, up, readable, cut, next, now>>

\* prov.Revoke.  A refusal leaves the lease open, and so does a lost reply; a reaper
\* pass then goes on to its next lease.
Drop(w) ==
  LET account == <<work[w].dsn, work[w].lease>>
  IN
  /\ work[w].pc = "drop"
  /\ \/ /\ Drops(w)
        /\ accounts' = accounts \ {account}
        /\ \/ /\ Becomes(w, [work[w] EXCEPT !.pc = "mark"])
              /\ UNCHANGED faults
           \/ /\ Fault
              /\ Proceed(w, work[w].todo)
     \/ /\ ~Drops(w)
        /\ Proceed(w, work[w].todo)
        /\ UNCHANGED <<accounts, faults>>
  /\ UNCHANGED <<role, leases, up, readable, cut, next, now>>

\* MarkDynamicLeaseRevoked: it closes an open lease; zero rows are no error.
Mark(w) ==
  /\ work[w].pc = "mark"
  /\ \/ /\ leases' = [leases EXCEPT ![work[w].lease].open = FALSE]
        /\ UNCHANGED faults
     \/ /\ Fault
        /\ UNCHANGED leases
  /\ Proceed(w, work[w].todo)
  /\ UNCHANGED <<role, accounts, up, readable, cut, next, now>>

(* The configuration.                                                      *)

\* UpdateDynamicRole; a DSN can also change behind the reference it is kept under.
UpdateDynamicRole(r, status, dsn, revocation) ==
  /\ role[r].status # "deleted"
  /\ dsn = role[r].dsn \/ Retarget
  /\ role' = [role EXCEPT ![r] = [status |-> status, dsn |-> dsn, revocation |-> revocation]]
  /\ UNCHANGED <<leases, accounts, up, readable, work, cut, next, now, faults>>

\* DeleteDynamicRole counts the open leases ...
CountLive(w, r) ==
  /\ work[w].pc = "idle" /\ w \notin Reapers
  /\ role[r].status # "deleted"
  /\ \A l \in Open : leases[l].role # r
  /\ Becomes(w, [NoWork EXCEPT !.pc = "delete", !.role = r])
  /\ UNCHANGED <<role, leases, accounts, up, readable, cut, next, now, faults>>

\* ... and deletes the role in a statement of its own.
SoftDelete(w) ==
  /\ work[w].pc = "delete"
  /\ role' = [role EXCEPT ![work[w].role].status = "deleted"]
  /\ Becomes(w, NoWork)
  /\ UNCHANGED <<leases, accounts, up, readable, cut, next, now, faults>>

(* The world.                                                              *)

\* The process dies or the caller's context is cancelled: an open transaction rolls back.
Crash(w) ==
  /\ work[w].pc # "idle"
  /\ Fault
  /\ cut' = IF work[w].pc = "commit" THEN cut \cup {work[w].lease} ELSE cut
  /\ Becomes(w, NoWork)
  /\ UNCHANGED <<role, leases, accounts, up, readable, next, now>>

Outage(t) ==
  /\ t \in up
  /\ Fault
  /\ up' = up \ {t}
  /\ UNCHANGED <<role, leases, accounts, readable, work, cut, next, now>>

Recover(t) ==
  /\ up' = up \cup {t}
  /\ UNCHANGED <<role, leases, accounts, readable, work, cut, next, now, faults>>

\* The secret a role's DSN is kept under is deleted or restored, the key of its current
\* version is taken from the keyring or given back, or the tenant is erased.
HideDsn(r) ==
  /\ readable' = readable \ {r}
  /\ UNCHANGED <<role, leases, accounts, up, work, cut, next, now, faults>>

ShowDsn(r) ==
  /\ readable' = readable \cup {r}
  /\ UNCHANGED <<role, leases, accounts, up, work, cut, next, now, faults>>

Tick ==
  /\ now < MaxNow
  /\ now' = now + 1
  /\ UNCHANGED <<role, leases, accounts, up, readable, work, cut, next, faults>>

\* The next step of what a worker is in the middle of.
Continue(w) ==
  Create(w) \/ Commit(w) \/ Audit(w) \/ Resolve(w) \/ Drop(w) \/ Mark(w) \/ SoftDelete(w)

Next ==
  \/ \E w \in Workers : \/ \E r \in Roles : Begin(w, r) \/ CountLive(w, r)
                        \/ \E l \in Open : Revoke(w, l)
                        \/ Reap(w)
                        \/ Continue(w)
                        \/ Crash(w)
  \/ \E r \in Roles, s \in {"active", "disabled"}, t \in Targets, x \in Templates :
       UpdateDynamicRole(r, s, t, x)
  \/ \E t \in Targets : Outage(t) \/ Recover(t)
  \/ \E r \in Roles : HideDsn(r) \/ ShowDsn(r)
  \/ Tick

Spec == Init /\ [][Next]_vars

\* A worker goes on, the ticker of a leading replica keeps starting passes, and every
\* target comes back.
FairSpec ==
  /\ Spec
  /\ \A w \in Workers : WF_vars(Continue(w)) /\ WF_vars(Reap(w))
  /\ \A t \in Targets : WF_vars(Recover(t))

-----------------------------------------------------------------------------
\* Rows and workers have the shape the code gives them, and a worker past the
\* resolution of a lease works on a row that exists.
TypeOK ==
  /\ role \in [Roles -> Role]
  /\ Rows \subseteq Ids /\ leases \in [Rows -> Lease]
  /\ accounts \subseteq Targets \X Ids
  /\ up \subseteq Targets
  /\ readable \subseteq Roles
  /\ work \in [Workers -> Work]
  /\ \A w \in Workers :
       /\ work[w].pc \in {"audit", "resolve", "drop", "mark"} => work[w].lease \in Rows
       /\ work[w].pc \in {"create", "commit"} => work[w].lease \in Ids \ Rows
       /\ work[w].todo \subseteq Rows
  /\ cut \subseteq Ids \ Rows
  /\ next \in 1..MaxLeases + 1 /\ \A l \in Rows \cup cut : l < next
  /\ now \in 0..MaxNow
  /\ faults \in 0..MaxFaults

\* A lease recorded as revoked has no account left behind, whatever an explicit
\* revocation, a failed audit and overlapping reaper passes do to it at once.
RevokedMeansGone == \A l \in Rows : ~leases[l].open => \A t \in Targets : <<t, l>> \notin accounts

\* Every account in a target database has an open lease that demands its revocation,
\* is being issued, or was cut off between the target's commit and the lease's.
AccountsAreAccounted ==
  \A a \in accounts :
    \/ a[2] \in Open
    \/ a[2] \in cut
    \/ \E w \in Workers : work[w].pc = "commit" /\ work[w].lease = a[2] /\ work[w].dsn = a[1]

\* The expired leases a pass cannot revoke as things stand: the DSN of the role cannot be
\* read, the target refuses its template, or the account is gone and the template minds.
Hopeless ==
  {l \in Due : LET r == role[leases[l].role]
               IN  \/ leases[l].role \notin readable
                   \/ r.revocation = "refused"
                   \/ r.revocation = "strict" /\ <<r.dsn, l>> \notin accounts}

\* The sweep is the authoritative expiry: as long as the expired leases that cannot be
\* revoked are among a set H that leaves room in a batch, no other stays overdue for ever,
\* deleted role or not, whatever was unreadable, refused or down before.  A lease that
\* fails does not hold up the others; a whole batch of them does (dynamic.sql, LIMIT).  A
\* smaller H is part of a larger one.
ExpiredAreReaped ==
  \A H \in SUBSET Ids :
    Cardinality(H) = Batch - 1
      => \A l \in Ids \ H : []<>(l \notin Due \/ ~(Hopeless \subseteq H))

=============================================================================
