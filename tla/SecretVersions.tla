--------------------------- MODULE SecretVersions ---------------------------
(***************************************************************************)
(* The life of a secret and of its version history: what                   *)
(* internal/store/secrets.go, internal/store/rotation.go and the SQL of    *)
(* secret.sql and secret_version.sql do to the two tables `secrets' and    *)
(* `secret_versions' when several callers work at once.                    *)
(*                                                                         *)
(* A call is the sequence of statements it runs.  Where the code reads a   *)
(* row in one statement and acts on what it read in a later one, the call  *)
(* is two actions and op[c] holds what was read in between.  Where the     *)
(* code runs a transaction that begins with SELECT ... FOR UPDATE, the     *)
(* first action takes the row lock and the second does the rest and        *)
(* commits: nothing another transaction can see happens in between.        *)
(***************************************************************************)
EXTENDS Integers, FiniteSets

CONSTANTS
  Clients,      \* concurrent callers; each is served by a process with its own clock
  Secrets,      \* secret identities (secret_uuid), each created at most once
  Addresses,    \* (environment, folder, key) triples
  Values,       \* plaintexts; two values have one checksum iff they are equal
  None,         \* no secret, no address, no value
  DefaultKeep,  \* policy.KeepVersions
  KeepChoices,  \* keep_versions overrides a caller may store; 0 is SQL NULL
  Policies,     \* rotation policies a caller may store: enabled or not
  Windows,      \* recovery windows a delete may ask for
  Skew,         \* the clock of a client's process minus the database's clock
  MaxVersion,   \* bound: version numbers written
  MaxNow        \* bound: the database clock

ASSUME NoneAssumption == None \notin Secrets \cup Addresses \cup Values
ASSUME KeepAssumption == DefaultKeep \in Nat /\ KeepChoices \subseteq Nat
ASSUME PolicyAssumption == FALSE \in Policies /\ Policies \subseteq BOOLEAN
ASSUME ClockAssumption == Windows \subseteq Int /\ Skew \in [Clients -> Int]
ASSUME BoundAssumption == MaxVersion \in Nat /\ MaxNow \in Nat

VARIABLES
  secrets,   \* the rows of `secrets', by identity
  versions,  \* the rows of `secret_versions'
  op,        \* the call each client is in the middle of
  now        \* the database's clock

vars == <<secrets, versions, op, now>>

-----------------------------------------------------------------------------
(* Rows. "absent" is an identity not yet created and "destroyed" one whose *)
(* row is gone for good: the table holds neither.  rotates is              *)
(* rotation_policy.enabled; keep = 0 is a NULL keep_versions.  promised is *)
(* no column: it is the history of a deleted row, the moment on the        *)
(* database's clock at which the window its delete asked for is over.      *)

SecretRow == [status : {"absent", "live", "deleted", "destroyed"},
              addr : Addresses \cup {None}, current : Nat, keep : Nat,
              rotates : BOOLEAN, destroyAfter : Int, promised : Int]

VersionRow == [secret : Secrets, version : Nat, value : Values]

Kinds == {"idle", "put", "rewrite", "get", "got", "missed", "meta", "edit",
          "policy", "delete", "destroy", "prune"}

\* What a call has read so far: the secret, its current_version and
\* keep_versions, the value a rollback is about to write again, and the version
\* number a read returns.
\* origin is the secret a rotation or a rollback found before it writes.
Op == [kind : Kinds, addr : Addresses \cup {None}, secret : Secrets \cup {None},
       origin : Secrets \cup {None}, seen : Nat, keep : Nat,
       value : Values \cup {None}, version : Nat]

Idle == [kind |-> "idle", addr |-> None, secret |-> None, origin |-> None,
         seen |-> 0, keep |-> 0, value |-> None, version |-> 0]

NoRow == [status |-> "absent", addr |-> None, current |-> 0, keep |-> 0,
          rotates |-> FALSE, destroyAfter |-> 0, promised |-> 0]

Rows(s) == {r \in versions : r.secret = s}

\* The rows GetSecretByAddress matches: the unique index leaves at most one.
LiveAt(a) == {s \in Secrets : secrets[s].status = "live" /\ secrets[s].addr = a}

\* A put and a prune hold the row lock of their secret until they commit.
Holds(c, s) == op[c].kind \in {"put", "prune"} /\ op[c].secret = s
\* Mutant: the reads of the write path do not say FOR UPDATE.
NoRowLock(s) == TRUE

LockFree(s) == \A c \in Clients : ~Holds(c, s)

EffectiveKeep(k) ==
  LET keep == IF k = 0 THEN DefaultKeep ELSE k
  IN  IF keep < 1 THEN 1 ELSE keep

\* The newest n of a set of rows of one secret.
Newest(rows, n) ==
  {r \in rows : Cardinality({q \in rows : q.version > r.version}) < n}

\* Mutant: off by one in the number of versions kept.
PrunesOneTooMany(rows, current, n) ==
  {r \in rows : r.version # current /\ r \notin Newest(rows, n - 1)}

\* ListPrunableVersions: outside the newest n and not the current version.
Prunable(rows, current, n) ==
  {r \in rows : r.version # current /\ r \notin Newest(rows, n)}

\* A negative window counts as none.
WindowOf(w) == IF w < 0 THEN 0 ELSE w

\* destroyAfter: the clock is the process's.
DestroyAfter(c, w) == now + Skew[c] + WindowOf(w)

-----------------------------------------------------------------------------
Init ==
  /\ secrets = [s \in Secrets |-> NoRow]
  /\ versions = {}
  /\ op = [c \in Clients |-> Idle]
  /\ now = 0

\* What a call keeps, for its next statement, of the row it read.
Found(kind, s) == [Idle EXCEPT !.kind = kind, !.secret = s]

Finish(c) == op' = [op EXCEPT ![c] = Idle]

(* PutSecret. Lock the live row at the address, or find there is none.     *)
LockForPut(c, a, from) ==
  \/ \E s \in LiveAt(a) :
       /\ LockFree(s)
       /\ op' = [op EXCEPT ![c] = [Found("put", s) EXCEPT
            !.seen = secrets[s].current, !.origin = from.origin, !.value = from.value]]
  \/ /\ LiveAt(a) = {}
     /\ op' = [op EXCEPT ![c] = [from EXCEPT !.kind = "put", !.addr = a,
                                             !.secret = None]]

PutLock(c, a) ==
  /\ op[c].kind = "idle"
  /\ LockForPut(c, a, Idle)
  /\ UNCHANGED <<secrets, versions, now>>

\* The value the put writes: a rollback's was read before, any other's is new.
Incoming(c) == IF op[c].value = None THEN Values ELSE {op[c].value}

\* Mutant: ORDER BY version without DESC.
OldestRow(s) == {r \in Rows(s) : \A q \in Rows(s) : r.version <= q.version}

\* GetLatestVersionChecksum: ORDER BY version DESC LIMIT 1.
Latest(s) == Newest(Rows(s), 1)

\* The no-op: the newest row already holds the incoming value.
PutUnchanged(c) ==
  /\ op[c].kind = "put"
  /\ op[c].secret # None
  /\ \E v \in Incoming(c) : \E r \in Latest(op[c].secret) : r.value = v
  /\ Finish(c)
  /\ UNCHANGED <<secrets, versions, now>>

\* Mutant: the number is advanced twice.
SkippedNumber(c) == op[c].seen + 2

NextVersion(c) == op[c].seen + 1

\* Mutant: the new version is inserted and never published.
NotPublished(s, n) == secrets

\* SetSecretCurrentVersion.
Publish(s, n) == [secrets EXCEPT ![s].current = n]

\* A new version of an existing secret: insert, publish, prune, commit.  The
\* put fails and rolls back when the number is taken or the row is not live.
PutVersion(c) ==
  LET s == op[c].secret
      n == NextVersion(c)
  IN
  /\ op[c].kind = "put"
  /\ s # None
  /\ n <= MaxVersion
  /\ \E v \in Incoming(c) :
       LET rows == Rows(s) \cup {[secret |-> s, version |-> n, value |-> v]}
       IN
       /\ \A r \in Latest(s) : r.value # v
       /\ IF /\ \A r \in Rows(s) : r.version # n
             /\ secrets[s].status = "live"
             /\ secrets[s].current < n
          THEN /\ secrets' = Publish(s, n)
               /\ versions' = (versions \cup rows)
                              \ Prunable(rows, n, EffectiveKeep(secrets[s].keep))
          ELSE UNCHANGED <<secrets, versions>>
  /\ Finish(c)
  /\ UNCHANGED now

\* A put may carry the metadata of the secret it creates; a rotation and a
\* rollback pass none.
NewMeta(c) == IF op[c].origin = None THEN [keep : KeepChoices, rotates : Policies]
              ELSE {[keep |-> 0, rotates |-> FALSE]}

\* The first version of a new secret.  The unique index refuses the insert when
\* another call has created a live secret at the address in the meantime.
PutCreate(c) ==
  LET a == op[c].addr
  IN
  /\ op[c].kind = "put"
  /\ op[c].secret = None
  /\ IF LiveAt(a) # {}
     THEN UNCHANGED <<secrets, versions>>
     ELSE \E s \in Secrets, v \in Incoming(c), meta \in NewMeta(c) :
            /\ secrets[s].status = "absent"
            /\ secrets' = [secrets EXCEPT ![s] =
                 [NoRow EXCEPT !.status = "live", !.addr = a, !.current = 1,
                               !.keep = meta.keep, !.rotates = meta.rotates]]
            /\ versions' = versions \cup {[secret |-> s, version |-> 1, value |-> v]}
  /\ Finish(c)
  /\ UNCHANGED now

(* RotateSecret, RotateDueSecrets and RollbackSecret find the secret (and  *)
(* RollbackSecret decrypts one of its versions) in statements of their own, *)
(* then call PutSecret with the ADDRESS.                                   *)
RotateFind(c, a) ==
  /\ op[c].kind = "idle"
  /\ \E s \in LiveAt(a) :
       op' = [op EXCEPT ![c] = [Idle EXCEPT !.kind = "rewrite", !.addr = a, !.origin = s]]
  /\ UNCHANGED <<secrets, versions, now>>

RollbackFind(c, a) ==
  /\ op[c].kind = "idle"
  /\ \E s \in LiveAt(a) : \E r \in Rows(s) :
       /\ r.version # secrets[s].current
       /\ op' = [op EXCEPT ![c] = [Idle EXCEPT !.kind = "rewrite", !.addr = a,
                                               !.origin = s, !.value = r.value]]
  /\ UNCHANGED <<secrets, versions, now>>

RewriteLock(c) ==
  /\ op[c].kind = "rewrite"
  /\ LockForPut(c, op[c].addr, op[c])
  /\ UNCHANGED <<secrets, versions, now>>

(* getVersion with version 0: the row, then the newest version row.        *)
GetRow(c, a) ==
  /\ op[c].kind = "idle"
  /\ \E s \in LiveAt(a) : op' = [op EXCEPT ![c] = [Found("get", s) EXCEPT !.seen = secrets[s].current]]
  /\ UNCHANGED <<secrets, versions, now>>

GetLatest(c) ==
  /\ op[c].kind = "get"
  /\ \/ \E r \in Latest(op[c].secret) :
          op' = [op EXCEPT ![c].kind = "got", ![c].version = r.version]
     \/ /\ Rows(op[c].secret) = {}
        /\ op' = [op EXCEPT ![c].kind = "missed"]
  /\ UNCHANGED <<secrets, versions, now>>

GetReturn(c) ==
  /\ op[c].kind \in {"got", "missed"}
  /\ Finish(c)
  /\ UNCHANGED <<secrets, versions, now>>

(* The reads by address that precede a write by identity.                  *)
FindFor(kind, c, a) ==
  /\ op[c].kind = "idle"
  /\ \E s \in LiveAt(a) : op' = [op EXCEPT ![c] = Found(kind, s)]
  /\ UNCHANGED <<secrets, versions, now>>

\* SetRotationPolicy carries the retention it read through to its write.
FindPolicy(c, a) ==
  /\ op[c].kind = "idle"
  /\ \E s \in LiveAt(a) :
       op' = [op EXCEPT ![c] = [Found("policy", s) EXCEPT !.keep = secrets[s].keep]]
  /\ UNCHANGED <<secrets, versions, now>>

\* UpdateSecretMeta rewrites retention and the rotation policy of a live row.  A
\* request that leaves the policy out ("edit") writes an empty one: encodeObject.
UpdateMeta(c, keep, rotates) ==
  LET s == op[c].secret
  IN
  /\ op[c].kind = "meta" \/ (op[c].kind = "edit" /\ ~rotates)
  /\ LockFree(s)
  /\ secrets' = IF secrets[s].status = "live"
                THEN [secrets EXCEPT ![s].keep = keep, ![s].rotates = rotates]
                ELSE secrets
  /\ Finish(c)
  /\ UNCHANGED <<versions, now>>

\* SetRotationPolicy writes the policy and, with it, the retention it read.
SetRotationPolicy(c, rotates) ==
  LET s == op[c].secret
  IN
  /\ op[c].kind = "policy"
  /\ LockFree(s)
  /\ secrets' = IF secrets[s].status = "live"
                THEN [secrets EXCEPT ![s].keep = op[c].keep, ![s].rotates = rotates]
                ELSE secrets
  /\ Finish(c)
  /\ UNCHANGED <<versions, now>>

\* SoftDeleteSecret opens the recovery window; the versions are not touched.
SoftDelete(c, w) ==
  LET s == op[c].secret
  IN
  /\ op[c].kind = "delete"
  /\ LockFree(s)
  /\ secrets' = IF secrets[s].status = "live"
                THEN [secrets EXCEPT ![s].status = "deleted",
                                     ![s].destroyAfter = DestroyAfter(c, w),
                                     ![s].promised = now + WindowOf(w)]
                ELSE secrets
  /\ Finish(c)
  /\ UNCHANGED <<versions, now>>

\* Mutant: a restore that the unique index does not stop.
RestoreOverLive(s) ==
  /\ secrets[s].status = "deleted"
  /\ LockFree(s)
  /\ secrets' = [secrets EXCEPT ![s].status = "live", ![s].destroyAfter = 0,
                                ![s].promised = 0]
  /\ UNCHANGED <<versions, op, now>>

\* RestoreSecret is one statement; the unique index refuses it when a live
\* secret has taken the address.
Restore(s) ==
  /\ secrets[s].status = "deleted"
  /\ LockFree(s)
  /\ LiveAt(secrets[s].addr) = {}
  /\ secrets' = [secrets EXCEPT ![s].status = "live", ![s].destroyAfter = 0,
                                ![s].promised = 0]
  /\ UNCHANGED <<versions, op, now>>

\* DestroySecret: the first check reads the row outside the transaction and
\* compares destroy_after with the clock of the process.
DestroyCheck(c, s) ==
  /\ op[c].kind = "idle"
  /\ secrets[s].status = "deleted"
  /\ secrets[s].destroyAfter <= now + Skew[c]
  /\ op' = [op EXCEPT ![c] = Found("destroy", s)]
  /\ UNCHANGED <<secrets, versions, now>>

\* Mutant: only the caller's own check looks at the window.
DestroyableAnyTime(s) == secrets[s].status = "deleted"

\* HardDeleteSecret's WHERE clause, on the database's clock.
Destroyable(s) == secrets[s].status = "deleted" /\ secrets[s].destroyAfter <= now

HardDelete(c) ==
  LET s == op[c].secret
  IN
  /\ op[c].kind = "destroy"
  /\ LockFree(s)
  /\ IF Destroyable(s)
     THEN /\ secrets' = [secrets EXCEPT ![s] = [NoRow EXCEPT !.status = "destroyed"]]
          /\ versions' = versions \ Rows(s)
     ELSE UNCHANGED <<secrets, versions>>
  /\ Finish(c)
  /\ UNCHANGED now

\* PruneVersions: lock the row, then delete what is outside its retention.
PruneLock(c, a) ==
  /\ op[c].kind = "idle"
  /\ \E s \in LiveAt(a) :
       /\ LockFree(s)
       /\ op' = [op EXCEPT ![c] = [Found("prune", s) EXCEPT
            !.seen = secrets[s].current, !.keep = secrets[s].keep]]
  /\ UNCHANGED <<secrets, versions, now>>

Prune(c) ==
  LET s == op[c].secret
  IN
  /\ op[c].kind = "prune"
  /\ versions' = versions \ Prunable(Rows(s), op[c].seen, EffectiveKeep(op[c].keep))
  /\ Finish(c)
  /\ UNCHANGED <<secrets, now>>

\* The request is cancelled or its process dies: the transaction rolls back.
Abort(c) ==
  /\ op[c].kind # "idle"
  /\ Finish(c)
  /\ UNCHANGED <<secrets, versions, now>>

Tick ==
  /\ now < MaxNow
  /\ now' = now + 1
  /\ UNCHANGED <<secrets, versions, op>>

-----------------------------------------------------------------------------
Begin(c, a) ==
  \/ PutLock(c, a)
  \/ RotateFind(c, a)
  \/ RollbackFind(c, a)
  \/ GetRow(c, a)
  \/ FindFor("meta", c, a)
  \/ FindFor("edit", c, a)
  \/ FindPolicy(c, a)
  \/ FindFor("delete", c, a)
  \/ PruneLock(c, a)

End(c) ==
  \/ PutUnchanged(c)
  \/ PutVersion(c)
  \/ PutCreate(c)
  \/ RewriteLock(c)
  \/ GetLatest(c)
  \/ GetReturn(c)
  \/ \E k \in KeepChoices, b \in Policies : UpdateMeta(c, k, b)
  \/ \E b \in Policies : SetRotationPolicy(c, b)
  \/ \E w \in Windows : SoftDelete(c, w)
  \/ HardDelete(c)
  \/ Prune(c)
  \/ Abort(c)

Next ==
  \/ \E c \in Clients, a \in Addresses : Begin(c, a)
  \/ \E c \in Clients : End(c)
  \/ \E c \in Clients, s \in Secrets : DestroyCheck(c, s)
  \/ \E s \in Secrets : Restore(s)
  \/ Tick

Spec == Init /\ [][Next]_vars

-----------------------------------------------------------------------------
(* Invariants.                                                             *)

\* Every row and every call in progress has the fields the schema gives it, and
\* only a deleted row has a destruction date (chk_secrets_destroy_after).
TypeOK ==
  /\ secrets \in [Secrets -> SecretRow]
  /\ \A s \in Secrets : secrets[s].status # "deleted" => secrets[s].destroyAfter = 0
  /\ versions \subseteq VersionRow
  /\ op \in [Clients -> Op]
  /\ now \in Nat

Existing == {s \in Secrets : secrets[s].status \in {"live", "deleted"}}

\* current_version names a row that exists and is the newest of its secret, for
\* live and for deleted secrets: no prune and no interleaving of writers ever
\* leaves a secret whose current value cannot be read, or a newer row it does
\* not point to.  An identity that is not in the table has no rows at all.
CurrentIsNewest ==
  /\ \A r \in versions : r.secret \in Existing /\ r.version <= secrets[r.secret].current
  /\ \A s \in Existing : \E r \in Rows(s) : r.version = secrets[s].current

\* At most one live secret owns an address, whatever creates and restores race.
OneLivePerAddress ==
  \A s, t \in Secrets :
    secrets[s].status = "live" /\ secrets[t].status = "live"
      /\ secrets[s].addr = secrets[t].addr => s = t

\* What a writer read when it took the row lock is still what the row says when
\* it commits: its version number is free and its secret is live, so a put of
\* an existing secret never fails on a conflict (secret.sql:29).
LockedReadsAreFresh ==
  \A c \in Clients :
    Holds(c, op[c].secret) /\ op[c].secret # None
      => /\ secrets[op[c].secret].status = "live"
         /\ secrets[op[c].secret].current = op[c].seen
         /\ op[c].kind = "prune" => secrets[op[c].secret].keep = op[c].keep

\* An unpinned read returns nothing older than the version that was current when
\* it looked the secret up, and comes back empty only when the secret has been
\* destroyed since: a concurrent prune cannot take the row from under it.
ReadsAreFresh ==
  \A c \in Clients :
    /\ op[c].kind = "got" => op[c].version >= op[c].seen
    /\ op[c].kind = "missed" => secrets[op[c].secret].status = "destroyed"

-----------------------------------------------------------------------------
(* Action properties.                                                      *)

\* A version is written once: the only row a step may add to a secret carries a
\* number above every number the secret has ever used, pruned ones included.
NumbersNeverReused ==
  [][\A r \in versions' \ versions : r.version = secrets[r.secret].current + 1]_vars

\* Retention is exact.  A version disappears only because the secret is destroyed, or
\* because as many newer versions as its retention asks for are still there; and a write
\* leaves no more of them than the retention in force asks for, even when that was
\* lowered after they were written.
RetentionIsExact ==
  [][/\ \A r \in versions \ versions' :
          \/ secrets'[r.secret].status = "destroyed"
          \/ Cardinality({q \in versions' : q.secret = r.secret /\ q.version > r.version})
               >= EffectiveKeep(secrets[r.secret].keep)
     /\ \A r \in versions' \ versions :
          Cardinality({q \in versions' : q.secret = r.secret})
            <= EffectiveKeep(secrets'[r.secret].keep)]_vars

\* While a secret sits deleted nothing touches its history or its metadata: a
\* restore brings back exactly what was deleted, also when the delete overtook a
\* put, a prune or a metadata edit that had already found the secret live.
DeletedIsFrozen ==
  [][\A s \in Secrets :
       secrets[s].status = "deleted" /\ secrets'[s].status # "destroyed"
         => /\ Rows(s)' = Rows(s)
            /\ secrets'[s].current = secrets[s].current
            /\ secrets'[s].keep = secrets[s].keep]_vars

\* A secret is destroyed only while it is deleted, and only when the window its LAST
\* delete asked for is over, counted on the database's clock and shifted by what one
\* process's clock is off, never by two: a restore in between, an earlier delete with a
\* shorter window and the clock of the process that asks for the destruction take
\* nothing from it (secrets.go:570).
WindowIsKept ==
  [][\A s \in Secrets :
       secrets'[s].status = "destroyed" /\ secrets[s].status # "destroyed"
         => /\ secrets[s].status = "deleted"
            /\ \E c \in Clients : secrets[s].promised + Skew[c] <= now]_vars

\* The window is kept whatever the clocks of the processes say, as secret.sql:202 has
\* it.  It is not: destroy_after is computed on the clock of the process that deletes.
WindowIgnoresProcessClocks ==
  [][\A s \in Secrets :
       secrets'[s].status = "destroyed" /\ secrets[s].status # "destroyed"
         => secrets[s].promised <= now]_vars

\* Every interleaving of the calls' statements looks, on the tables, like calls
\* that ran one at a time on a register per secret.
Store ==
  INSTANCE VersionedStore WITH
    Ids <- Secrets, Places <- Addresses, Contents <- Values, Nowhere <- None,
    status <- [s \in Secrets |-> secrets[s].status],
    place <- [s \in Secrets |-> secrets[s].addr],
    head <- [s \in Secrets |-> secrets[s].current],
    kept <- [s \in Secrets |-> {<<r.version, r.value>> : r \in Rows(s)}]

\* The statement-by-statement model implements the atomic register store.
ImplementsStore == Store!Spec

=============================================================================
