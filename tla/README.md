# Maintainerd Secret in TLA+

TLA+ modules, TLC configurations and TLAPS proofs for `maintainerd-secret`, the
secret store in `src/`. The modules follow the Go code and its SQL; where a
comment or a document and the code disagree, the modules follow the code.

Parse with `tlasany M.tla`, check with `tlc -config X.cfg M`, prove with `tlapm M.tla`.

## 1. The system

One binary, `secretd`, runs as any number of replicas on one PostgreSQL database.
A REST and a gRPC surface decode requests and call an API service
(`internal/api`), which authorises, calls the store (`internal/store`), writes an
audit row and notifies webhooks. The store is the only writer of the database and
does everything through sqlc queries (`internal/storage/queries`). Background
loops (webhook re-drive, dynamic reaper, rotator) run in every replica, gated by
one leader election. Replicas share no memory: they meet only in the rows, locks
and sessions of PostgreSQL, so every interleaving below is one of statements.

| component | state | operations | interacts by | hard because |
|---|---|---|---|---|
| secret versions (`store/secrets.go`, `api_support.go`) | rows of `secrets`, `secret_versions` | put, rotate, roll back, get, edit, delete, restore, destroy, prune | row locks (`FOR UPDATE`), unique indexes | some calls read in one statement and write in a later one; clocks of processes and database |
| rotation (`api/rotation.go`, `store/rotation.go`, `rotator/`) | `rotated_at`, the policy | rotate one, rotate what is due, edit the policy | calls `PutSecret`; gated by the election | stale lists, change of leader in mid-pass |
| root keys (`crypto/`, `store/rootkeys.go`) | `root_keys`, the `kek_id` of every wrapped row, each process's ring | boot, add, rewrap in batches, retire | statements without a common transaction | writers under the old key while it is drained; crash between batches |
| read leases (`store/leases.go`, `lease/`) | `secret_leases`, the policy columns | reveal, set or clear the policy, revoke, expire | row lock on the lease, a unique index on live leases | policy read before the transaction; two clocks |
| dynamic credentials (`store/dynamic.go`, `dynamic/`) | `dynamic_roles`, `dynamic_leases`, accounts in foreign databases | issue, revoke, reap, edit and delete a role | calls of a second database | two commits and no common transaction; lost replies; crash |
| webhooks (`webhook/`, `store/webhooks.go`) | `webhook_endpoints`, `webhook_deliveries` | open, post, hand over, claim, record, abandon | HTTP posts; `FOR UPDATE SKIP LOCKED` and a lease | crash, cancelled request, slow receiver against the lease |
| leader election (`leader/`) | an advisory lock, one flag per replica | campaign, heartbeat, resign | a database session | lost grants, dead sessions, pooled connections |
| folders (`store/service.go`) | `folders` with parent and materialised path, `secrets.mrn_resource_path` | create, ensure, move, delete; put, delete and restore in them | transactions without locks on what they read | one path stored in three places |
| transit keys (`store/transit.go`, `transit/`) | `transit_keys`, `transit_key_versions`, tokens callers hold | create, rotate, set the floor, encrypt, decrypt, delete | a row lock for rotation alone | everything else reads in one statement and acts in a later one; names are used again |
| imports, references (`store/imports.go`, `api/imports.go`, `api/reference.go`) | `scope_imports`, references inside values | create, switch, move, delete; resolve, expand | one statement a folder, no lock | a cycle check that walks while the graph changes; a value that comes from another folder than was asked for |
| setup (`setup/`, `store/setup.go`) | `setup_state` | provision, complete | one row | two controllers at once; each step is one guarded statement |
| rate limit (`platform/middleware/rate_limit*.go`) | a map in each replica, `rate_limit_buckets` | allow, reserve, sweep, prune | an upsert outside the limiter's mutex | the window turns during the reservation, the store fails, counts are lost |
| audit, permissions, configuration, surfaces | append-only rows; none | insert; check; decode | calls | little: no state of their own |

What makes each one correct is stated in section 4, with the run that checks it.
`PROJECT.json` lists every component, including those that are not modelled.

## 2. Modules

| module | models | theorems in |
|---|---|---|
| `SecretVersions` | the two tables and every call on them, statement by statement | `SecretVersionsProofs` |
| `VersionedStore` | the abstract store: each call one atomic step | |
| `RootKeys` | registry, rings, wrapped rows, the rewrap loop | `KeyProofs` |
| `ReadLeases` | one governed secret and its leases | `RevealProofs` |
| `DynamicCredentials` | roles, leases, accounts on targets, requests and reaper passes | `DynamicCredentialsProofs` |
| `WebhookDelivery` | one endpoint, inline attempts and re-drive passes | `WebhookDeliveryProofs` |
| `LeaderElection` | the election alone | `ScheduledRotationProofs` |
| `ScheduledRotation` | rotator passes; EXTENDS `LeaderElection` and composes with it | `ScheduledRotationProofs` |
| `FolderTree` | the folders of one environment and the secrets in them | `FolderTreeProofs` |
| `Transit` | the transit keys of a project, their versions and the tokens | `KeyProofs` |
| `RateLimit` | the limiter of each replica and the shared ledger, for one principal | `RateLimitProofs` |
| `Imports` | the graph of imports and the requests that extend it | `RevealProofs` |
| `Reveals` | a reveal from address to answer; EXTENDS `Imports` and composes with it | `RevealProofs` |

`MC<Module>` gives the sets, the functions and the symmetry that a `.cfg` cannot
write. Definitions that begin with the comment "Mutant:" are slips that code like
this could contain, each kept beside the definition it would replace; replacing
that definition by the slip breaks the property that guards it.

How the modules are cut:

* **Atomic steps.** One statement, or one transaction whose first statement takes
  the row lock that everything after depends on. A transaction that reads without
  a lock and writes later is two actions, with what it read kept in `op`, `work`
  or `pass`. `FOR UPDATE` is a guard (`LockFree`), taken in one action and held to
  the next. Default isolation (READ COMMITTED) is assumed: each statement sees
  what is committed when it starts.
* **Unique indexes** are conditions on the write: a duplicate rolls back
  (`Allowed`, `OneLivePerAddress` in `PutCreate` and `Restore`).
* **Round trips to other systems** (target databases, receivers, the session of
  the advisory lock) are split where the other side has acted and this one has not
  heard.
* **Data.** A plaintext, a name, a key and an account are model values.
  Encryption is the key it was made with; a checksum equals another when the
  values do. What a generator draws is any value.
* **Clocks.** `now` is the database's. A process's clock is `now + Skew[c]` where
  the code uses both.

`SecretVersions`. `secrets` and `versions` are the rows; `op[c]` is the call
client `c` is in. `PutLock`, `PutUnchanged`, `PutVersion` and `PutCreate` are
`PutSecret`: lock by address, the checksum shortcut, insert-publish-prune, or
create. `RotateFind`, `RollbackFind` and `RewriteLock` are the two-phase callers.
`GetRow`, `GetLatest` and `GetReturn` are the read. `FindFor` and `UpdateMeta`,
`FindPolicy` and `SetRotationPolicy` are edits, the last of which carries the
retention it read to its write. `SoftDelete`, `Restore`, `DestroyCheck`,
`HardDelete`, `PruneLock` and `Prune` are the rest of the life. `Abort` is a
cancelled request or a dead process. `promised` is a history variable: when, by the
database's clock, the window that the last delete asked for ends. The code only has
`destroyAfter`, which is on the deleting process's clock.

`RootKeys`. `Boot` is `registerRootKey` and `EnsureActiveRootKey`; `StartRewrap`,
`ListVersionWraps`, `RewrapVersion`, `CountVersionWraps` and `RetireRootKey` are
`RewrapAll`, one statement or row transaction each; a writer seals
(`SealUnderActive`) before it inserts (`InsertRow`). `kek` is the column of the
row, `wrap` the key its data key is really under: the code never sees the second.
`Rolling` says whether a replica may start under another key than those running.

`ReadLeases`. `ReadPolicy`, `Select`, `Decide`, `Serve`: policy outside the
transaction, the candidate lease, the row lock with the decision of
`lease.Evaluate` and its write, the decryption. `served` counts what was decrypted
under each lease.

`DynamicCredentials`. `Begin`, `Create`, `Commit`, `Audit` issue; `Revoke` or
`Reap`, then `Resolve`, `Drop`, `Mark` revoke; `CountLive`, `SoftDelete` delete a
role. `accounts` is what really exists on the targets, `cut` the two windows
between the target's commit and the local one. `readable` is the roles whose DSN secret can
be read (`HideDsn`, `ShowDsn`: the secret deleted or restored, its root key held or not);
`Resolve` fails for the others, and the lease stays open. `Retarget` says whether an edit may
point a role at another database.

`WebhookDelivery`. Time is relative: `due` counts down to `next_attempt_at`, `age`
up from the start of a post, so nothing bounds the clock. A post takes up to
`Timeout`; what a worker computes between posts takes none. `outlived` is a history variable:
the deliveries whose claim ran out while the pass that made it still had them.

`LeaderElection`, `ScheduledRotation`. `lock` is who holds the advisory lock:
`Free`, a replica, or `Orphan`, a session whose client is gone. `flag` is
`Elector.leader`. A pass is `Tick` (the gate), `List` (`DueRotations`),
`NextSecret`, `PutSecret`. A crash ends pass and campaign at one moment
(`CrashWith`), an exit waits for the pass (`ExitWith`).

`FolderTree`. `parent` is the truth, `path` its materialisation, `mrn` a third
copy. `Begin...` is what a call reads, the action named for the call what it
writes. `lapsed` is a history variable: the secrets a statement passed over, that is those
deleted when their folder moved or went, and those created with a lookup that a move or
deletion overtook. `Restore` is what the code has, with no look at the folder. `Quiet` lets
one call at a time move or delete folders and none create folders meanwhile; writes into
folders that are there, deletions and restores of secrets overlap with everything.

`Transit`. `Rotate` takes the row lock and `Publish` inserts the version and moves
`current`; `ReadForUpdate`, `ReadForDelete`, `ReadForEncrypt` and `ReadForDecrypt` are the
reads outside a transaction, `Update`, `Delete`, `Encrypt` and `Decrypt` what follows
them. A token remembers the material it was sealed with, which the code does not see:
whether it opens is asked of the key found under its name.

`RateLimit`. `Hit` is the first critical section of `Limiter.Allow`, its steps in the
code's order; `Reserve` the statement of `PgReservationStore`, which may fail before or
after it committed; `Return` the second critical section. `granted` and `spent` of a
bucket are the set of units it holds, so that a unit given out twice is seen. `lost` counts,
for each window, the replicas' counts of it that are gone. `Sweep` is
the reset of a full map, `Restart` a new process, `Prune` the pruner of the elected
replica.

`Imports`, `Reveals`. `Begin`, `WalkStep`, `Insert` are `CreateImport` with
`assertNoImportCycle`, one statement each; `SetImportEnabled`, `DeleteImport`,
`DeleteFolder` change the graph under it. `StartReveal`, `Follow`, `Probe` are the lookup
(`ResolveImportChain`, then each folder), `Get` the grant and the decryption, `Hop` one
reference with its own grant, `Audit` the rows of the log, `Finish` the answer or the
error that can take its place at any point. `SetSecret` and `ImportStep` go on meanwhile.

## 3. Runs

Eleven runs pass and one ends in a violation; they are the runs of `PROJECT.json`.

| run | instance | distinct states | shows |
|---|---|---|---|
| `secret_versions` | 2 clients, one clock ahead and one behind, 2 identities for 1 address, 2 values, 3 versions | 2.5 M | numbering, retention, one live secret per address, recovery window, refinement of `VersionedStore` |
| `root_keys` | 2 replicas, 2 keys, 2 secret rows, a transit row, a webhook row, batches of 1 | 56 k | wraps match, retirement is safe, rewraps end |
| `read_leases` | 2 reveals, 2 workloads, 2 policies, 2 leases, clock 0..1 | 5.0 M | caps, renewals, decisions |
| `dynamic_credentials` | 2 requests, the reaper in batches of 2, 1 role, 1 target, 2 templates, 2 leases, 1 fault | 0.7 M | accounts against leases; expired leases are revoked through unreadable DSNs, refusals and deleted roles |
| `webhook_delivery` | 2 passes, 2 deliveries, 2 + 2 attempts, batch 2, lease 2, timeout 1, 2 faults | 0.4 M | posts, budget and final states but for claims that ran out; parked rows settle |
| `scheduled_rotation` | 2 replicas, 2 secrets (one broken), batch 2, 3 faults of four kinds, 2 due dates | 0.5 M | the lock, one rotation per due date, a leader, progress |
| `folder_tree` | 2 callers, 2 names, depth 2, 4 folders, 1 secret | 1.8 M | paths, MRNs, no secret left behind but those named |
| `transit` | 2 clients, 1 name, 2 keys of that name, 3 versions, 2 tokens | 1.1 M | tokens open as long as they should, rotations do not meet, the floor |
| `rate_limit` | 2 replicas, 2 requests, limit 2 in slices of 1, clocks 1 window apart, 2 windows retained, 4 windows, 1 fault | 1.1 M | one budget for all replicas, its ceiling in an outage, no early refusal |
| `imports` | 4 folders, 1 creator, 4 imports, depth 1, 1 deletion | 2.2 M | circles of imports, also one longer than the walk |
| `reveals` | 3 folders, 1 reader, 2 imports at 2 positions, references of one hop, depth 2 for both | 0.2 M | grants and log of what is returned, precedence, termination |

The run that ends in a violation is `retire_forgets_tables` (`RetireForgetsTables.cfg`): a
key is retired with transit and webhook rows under it.

The directory has further configurations of the same modules. Three pass, each a corner of
an instance above:

| configuration | instance | distinct states | shows |
|---|---|---|---|
| `ReadLeasesAhead.cfg` | as `read_leases` with 1 policy, processes 1 ahead of the database, clock 0..2 | 1.5 M | renewals and decisions when a lease runs out on two clocks |
| `DynamicBatch.cfg` | 1 request, 3 leases, 2 faults, a template that minds a missing account | 0.2 M | a batch smaller than what is due, and a lease that can never be revoked in it |
| `WebhookLease.cfg` | as `webhook_delivery` with lease 3 | 52 k | no claim runs out under its pass (`NoneOutlived`) |

Nine end in a violation: of a claim of a comment (section 4, Divergences), or of a property
without the condition it needs.

| configuration | property | the counterexample |
|---|---|---|
| `SecretVersionsClocks.cfg` | `WindowIgnoresProcessClocks` | deleted with a window of 2, destroyed after 1 |
| `RetireRolling.cfg` | `RetiredIsUnreferenced`, replicas under different keys | a row under the old key between COUNT and retirement |
| `DynamicRetarget.cfg` | `RevokedMeansGone`, a DSN that changes | the role is dropped on another database and the lease closed |
| `WebhookDoublePost.cfg` | `NoDoublePost` | two passes post one delivery at once |
| `FolderMrn.cfg` | `MrnIsAlwaysCurrent` | delete a secret, move its folder, restore it |
| `FolderRestore.cfg` | `RestoredAreReachable` | delete a folder, restore a secret of it |
| `TransitFloor.cfg` | `UnaskedFloorStays` | an edit writes back the floor it read |
| `RateShared.cfg` | `BudgetIsShared` | a reservation comes back after its window turned |
| `ImportsRace.cfg` | `NoCircleByCreation` | two creations close a circle together |

Why these bounds are enough to be worth something. Two actors make every race of
two calls, and every hazard listed is one of two. Two identities of one address
make delete, re-create and restore collide. `MaxVersion` 3 with retention 1 and 2
prunes by both the default and an override. One tick of the clock separates before
from after for every deadline; of the two clients of `secret_versions` one has a clock a
tick ahead and one a tick behind. Two keys make a drain, a return to the old key and a second drain.
Batches of one make every rewrap take several rounds. Two faults of the webhooks cover a lost
outcome followed by a crash, the one of the dynamic credentials each of a lost reply, a crash,
an outage and a failed audit alone; three cover stop, session loss and network in one
behaviour of the election. A broken secret beside a healthy one with a batch of
two shows that one failure does not stop the pass. Depth 2 has a folder with a
child, and four rows let a moved folder's parent be created by the move. Two keys of
one name let a token outlive its key and meet the next. With a limit of 2 in
slices of 1 the two replicas share one window's budget and the next grant is empty, and four
windows let the pruner reach the first; longer slices and short grants are left to the
theorems, which hold for every limit and slice.
Four folders have a circle of four, which a walk of depth 1 from a source does not see to its
end. One creator is enough for `imports`: the property is about circles without creations that
overlap, and one that begins and is refused or abandoned leaves nothing behind. Two leases in
batches of two put one that cannot be revoked before one that can.

Deadlock is checked but in the webhook runs, where all deliveries are final in the
end and nothing more is to be done. Symmetry is used only in runs without liveness
properties, over sets whose members no action tells apart. `rate_limit` has a VIEW that
forgets what happened in a window no replica and no call can reach any more, but that its
row is there, and what a refused request still names of it. `reveals`
starts from any graph of imports within its bounds, circles included, since a circle can
be made (section 4), and has no creators: how the graph came about is the subject of
`imports`. The one folder whose secret its reader may not read is fixed: the folders are
interchangeable in the initial states, so the other choices give the same behaviours.

**Fairness.** Weak fairness of what a goroutine or a ticker does without being
asked: the next step of a rewrap, of a worker that has begun, of an elector, of a
pass, of a reveal; the start of re-drive and reaper passes (tickers); the passing of time; the
restart of a dead replica (an orchestrator's work); the end of an orphaned
session (TCP keep-alive); the return of a target database. No fairness on
requests, on operators or on faults, which are finite in number (`MaxFaults`).

## 4. Properties

Names are those of the modules, where each is stated in words too.

* Secret versions: `CurrentIsNewest`, `OneLivePerAddress`, `ReadsAreFresh`,
  `NumbersNeverReused`, `RetentionIsExact`, `DeletedIsFrozen`,
  `WindowIsKept`, `ImplementsStore`; `LockedReadsAreFresh` is proved and in
  no run.
* Root keys: `WrapMatches`, `RetiredIsUnreferenced`, `RewrapEnds`;
  `EveryVersionReadable`, a consequence of the first two, is proved and in no run.
* Leases: `ServedWithinCap`, `AllowancesDoNotOverlap`, `DecisionsHold`,
  `OwnAllowanceOnly`.
* Dynamic credentials: `RevokedMeansGone`, `AccountsAreAccounted`,
  `ExpiredAreReaped`.
* Webhooks: `OnePostAtATime`, `WithinBudget`, `TerminalIsFinal`, `ParkedIsSettled`;
  `NoneOutlived` and `NoDoublePost` are proved, under a lease that outlasts a batch.
* Election and rotation: `LeadersHoldTheLock`, `HolderWillRelease`,
  `LeaderEmerges`, `RotatedOncePerDue`, `DueIsRotated`.
* Folders: `PathsFollowParents`, `MrnIsCurrent`, `LiveAreReachable`.
* Transit: `TokensKeepOpening`, `RotationsNumberApart`, `FloorFallsOnRequest`.
* Rate limit: `UnitsAreApart`, `ReplicaCeiling`, `RefusedOnlyWhenReserved`.
* Imports and reveals: `CyclesNeedARoute`; `ReturnedIsGrantedAndLogged`,
  `NearestHolderWins`, `RevealsEnd`.
* Claims that the code refutes, the first in a run, the others in the further
  configurations: `RetiredIsDecommissionable`, `WindowIgnoresProcessClocks`, `NoDoublePost`,
  `MrnIsAlwaysCurrent`, `RestoredAreReachable`, `UnaskedFloorStays`, `BudgetIsShared`,
  `NoCircleByCreation`; and `RetiredIsUnreferenced` and `RevokedMeansGone` outside the
  conditions they need.

The type invariants (`TypeOK`, `ImportsTypeOK`, `ElectionTypeOK`) are stated in the
modules. Where there is a proof module the type invariant is a theorem of it or part of
its inductive invariant.

`VersionedStore` is the abstract specification of the first: an atomic store of
numbered histories. `ImplementsStore` maps the rows to it, so every interleaving
of statements looks from outside like calls that ran one at a time.

What some of them need or except. The needs are parameters of the modules, the exceptions
are in the formulas:

* `WindowIsKept` allows a recovery window to be wrong by the error of one process's clock,
  the one the last delete ran on. `WindowIgnoresProcessClocks` does not.
* `RetiredIsUnreferenced` and `EveryVersionReadable` need all running replicas to
  write under one key (`Rolling = FALSE`). With a rolling change of keys a replica
  still on the old one inserts a row between COUNT and retirement
  (`crypto/rewrap.go:126`).
* `RevokedMeansGone` and `AccountsAreAccounted` need DSNs that keep naming one database
  (`Retarget = FALSE`); after an edit the drop runs in the wrong place and closes
  the lease (`store/dynamic.go:605`).
* `ExpiredAreReaped` excepts leases that stay hopeless: the role's DSN cannot be read, the
  template is refused, or it minds that the account is gone. They have to be fewer than a
  batch; a full batch of them holds up all behind it. A lease that is hopeless for a while is
  revoked after. The leases of an erased tenant, which the listing drops after its LIMIT
  (`store/dynamic.go:561`), are not in the model: they are never revoked and take up room.
* `OnePostAtATime`, `WithinBudget` and `TerminalIsFinal` except the deliveries whose lease
  ran out while a pass still had them (`outlived`): such a pass posts beside another, and its
  unconditional UPDATE reopens what the other settled (`webhook.sql:162`). With
  `Batch * Timeout < Lease` there are none (`NoneOutlived`). The defaults (50 posts of up to
  30 s, 2 min) do not satisfy that, and neither does the run `webhook_delivery`.
* `DecisionsHold` needs no process's clock to be behind the database's;
  `AllowancesDoNotOverlap` also needs the processes' clocks to agree with each other. The
  run has equal clocks, `ReadLeasesAhead.cfg` processes ahead of the database; the theorems
  state the conditions.
* `UnitsAreApart` needs the pruner to keep more windows than the clocks are apart
  (`ClockAssumption`), which its retention does by far.
* `ReplicaCeiling` allows the limit once more for a count that a restart or a full map lost,
  in the window it was of, and nothing for reservations that fail or come late.
* `CyclesNeedARoute` excepts the two ways in which a circle can be made (below).
* `FloorFallsOnRequest` excepts the lost update (below).
* `NearestHolderWins` is about lookups during which nothing changes.
* `RotatedOncePerDue` is about crashes. A replica that is stopped, or loses its
  session or its connection, can still be writing when another leads (`leader.go:61` says
  so); `disturbed` records that one was.
* `PathsFollowParents`, `MrnIsCurrent` and `LiveAreReachable` need that one call at a time
  moves or deletes folders and none creates folders meanwhile (`Quiet`). The last two except
  the secrets that a statement passed over (`lapsed`), until a later move or restore sets
  them right.

### Divergences

Each of these has a configuration whose counterexample shows it, and contradicts the line
named. The retirement that forgets tables is the run and the one finding of `PROJECT.json`.

* A process whose clock is behind ends a recovery window early: `destroy_after` is computed
  on its clock (`store/service.go:793`; `secret.sql:202` says the guard holds against a skewed
  caller).
* `RewrapRootKey` retires a key that still wraps transit key versions and webhook secrets
  (`store/rootkeys.go:142`), and, while the fleet changes keys, one that a secret version
  was put under since the COUNT (`crypto/rewrap.go:126`).
* A role that is edited to name another database leaves the accounts issued before, with
  their leases closed (`store/dynamic.go:605`; `dynamic/reaper.go:27` says none outlives its
  lease).
* Two re-drive passes post one delivery at once when a batch outlasts the lease
  (`webhook/redrive.go:147`; line 45 says the claim alone is sufficient).
* A secret deleted before its folder moves and restored after keeps the MRN of the old
  path (`secret.sql:285`), and one restored into a deleted folder is live where no lookup
  finds it, after an answer of 404 (`store/secrets.go:548`).
* `UpdateTransitKey` without a floor writes back the one it read, and so undoes a floor
  raised in between (`store/transit.go:319`; "zero leaves the floor unchanged", line 298).
* A window that turns during a reservation lets that request through uncounted, one more
  than the limit (`rate_limit.go:316`; lines 56-63 say never more).
* Two imports that close a circle only together both pass the cycle check
  (`store/imports.go:99`; line 67 says the transaction prevents it).

The others were met while modelling, and the modules contain the behaviour:

* An edit of the description rewrites the rotation policy of the secret with what the
  request holds of it, nothing (`store/secrets.go:432`).
* A creation on the target database whose reply is lost leaves an account that no lease
  names (`store/dynamic.go:439`); `AccountsAreAccounted` counts it (`cut`).
* An import that is switched on again is not checked for a circle at all.
* `RotateSecret` and `RollbackSecret` find the secret and then write by address:
  deleted in between, it is created anew (`api/rotation.go:88`).
* `SetRotationPolicy` writes back the metadata it read, and so undoes a concurrent
  edit (`store/rotation.go:148`).
* A reference to a lease-governed secret is expanded without its lease gate
  (`api/reference.go:142`), so that read is not counted;
  `migrations/00006_create_secrets.sql:35` says every reveal issues or consumes a lease.
  `ReadLeases` is about direct reveals.
* A reveal that read the policy before it was cleared can issue a lease after
  (`store/leases.go:212`); deleting a secret leaves its leases open
  (`store/secrets.go:477`).
* A reaper pass and a revocation can both run DROP ROLE for one lease
  (`store/dynamic.go:620`); a role can be deleted while a credential is being
  issued (`:298`).
* A late worker reopens a delivery that succeeded (`RecordWebhookRedriveOutcome`
  has no condition on the status); a cancelled request leaves its row pending
  with nobody to pick it up (`webhook.go:261`).
* A lease whose DSN secret is deleted, or sealed under a key the process does not hold, stays
  open on every pass, and no failure is recorded on it (`store/dynamic.go:605`).
* Scheduled rotation writes what it listed at the start of the pass, also over a
  value an operator wrote since; a batch of broken secrets hides all behind it.
* Two moves that cross can make a cycle of parents; a put that races with a move
  stores the old path in the MRN.
* The binary's ring holds one key, so after a restart with another nothing older
  is readable (`cmd/secretd/bootstrap.go:103`).

## 5. Proofs

Everything here holds for every value of the constants that meets the modules'
assumptions, and for any number of actors.

| theorem | says | under |
|---|---|---|
| `SecretVersionsProofs!TypeCorrect` | `[]TypeOK` | |
| `LockedReadsFresh` | `[]LockedReadsAreFresh` | |
| `NewestIsCurrent` | `[]CurrentIsNewest` | |
| `AddressesExclusive` | `[]OneLivePerAddress` | |
| `VersionNumbersFresh` | `NumbersNeverReused` | |
| `DeletedFrozen` | `DeletedIsFrozen` | |
| `WindowKept` | `WindowIsKept` | |
| `ReadsFresh` | `[]ReadsAreFresh` | |
| `RetentionExact` | `RetentionIsExact` | |
| `ImplementsTheStore` | `ImplementsStore`: the refinement of `VersionedStore` | |
| `KeyProofs!WrapsMatch` | `[]WrapMatches` | |
| `RetiredKeysAreUnreferenced` | `[]RetiredIsUnreferenced` | `~Rolling` |
| `LoadedProcessesReadEverything` | `[]EveryVersionReadable` | `~Rolling` |
| `DynamicCredentialsProofs!TypeCorrect` | `[]TypeOK` | |
| `AccountsAccounted` | `[]AccountsAreAccounted` | `~Retarget` |
| `RevokedGone` | `[]RevokedMeansGone` | `~Retarget` |
| `ScheduledRotationProofs!ElectionTypeCorrect`, `LeadershipIsTheLock`, `LockComesBack` | the election's invariants | |
| `ScheduledRotationProofs!RotatorsKeepTheElection` | the same inside the rotator | `Gated` |
| `ScheduledRotationProofs!CrashesRotateOnce` | `[]RotatedOncePerDue` | `Gated` |
| `RevealProofs!TypeCorrect` | `[]TypeOK` | |
| `CapHolds` | `[]ServedWithinCap` | |
| `OwnAllowance` | `OwnAllowanceOnly` | |
| `DecisionsStand` | `[]DecisionsHold` | every `Skew[c] >= 0` |
| `AllowancesApart` | `[]AllowancesDoNotOverlap` | every `Skew[c] = K`, `K >= 0` |
| `KeyProofs!TransitTypeCorrect` | `[]TransitTypeOK` | |
| `TokensOpen` | `[]TokensKeepOpening` | |
| `RotationsApart` | `[]RotationsNumberApart` | |
| `FloorsFall` | `FloorFallsOnRequest` | |
| `RateLimitProofs!TypeCorrect` | `[]TypeOK` | |
| `UnitsApart` | `[]UnitsAreApart` | |
| `RefusedWhenReserved` | `[]RefusedOnlyWhenReserved` | |
| `CeilingHolds` | `[]ReplicaCeiling` | |
| `WebhookDeliveryProofs!OnePostHolds` | `[]OnePostAtATime` | |
| `BudgetHolds` | `[]WithinBudget` | |
| `TerminalHolds` | `TerminalIsFinal` | |
| `LeaseFits` | `[]NoneOutlived` | `Batch * Timeout < Lease` |
| `NeverTwice` | `[]NoDoublePost` | `Batch * Timeout < Lease` |
| `RevealProofs!GrantedAndLogged` | `[]ReturnedIsGrantedAndLogged` | |
| `ImportsInvariance` | `[]ImportsInv`, the inductive invariant | |
| `ImportsTypeCorrect` | `[]ImportsTypeOK` | |
| `NoOtherCircle` | `[]CyclesNeedARoute` | |
| `RevealsTypeCorrect` | `[]RevealsTypeOK` | |
| `NearestWins` | `[]NearestHolderWins` | |
| `FolderTreeProofs!TreeHolds` | `[]TreeInv` | `Quiet` |
| `PathsFollow` | `[]PathsFollowParents` | `Quiet` |
| `MrnsFollow` | `[]MrnIsCurrent` | `Quiet` |
| `SecretsReachable` | `[]LiveAreReachable` | `Quiet` |

The arguments:

* **Secret versions.** None of the safety properties is inductive alone.
  `CurrentIsNewest` depends on a writer knowing the current version when it
  commits, which depends on its row lock being exclusive. `LockInv` is types, the
  exclusiveness of locks and the freshness of what a holder read; it is proved
  first, and with it `CurrentIsNewest` and `OneLivePerAddress`, which together
  make up `IInv`. The action properties follow from a case split of one step into
  what it may do to rows and versions (`RowChange`, `VersionChange`). `WindowKept` adds
  `WindowInv`: the date a deleted row carries is the promised one, shifted by the clock of some
  process.
  `ReadsAreFresh`, `RetentionIsExact` and the refinement need more of the history:
  `HistInv` says that it is finite, that the numbers of a secret start at 1 and are unique,
  and that every row has an address. What a retention keeps is a count over that history,
  and where an argument would be an induction it takes the least number without the
  property instead, which exists because the naturals are well-founded. The refinement has
  one lemma for each operation of `VersionedStore`; every other step is a stutter.
* **Root keys.** `BaseInv` (types, every referenced key is known, wraps match) is
  inductive in any mode. `OneKeyInv` adds that all running processes write under
  the one active key and what a drain has already established (`Drains`): rows of
  its table under the source key can only shrink in number while no one writes
  under it. Retirement then follows from COUNT = 0.
* **Dynamic credentials.** `IInv` adds to the types that a lease id is used by one
  worker (`IdsApart`), that DSNs are the role's home, and that a lease is closed
  only by a worker after its own drop (`DroppedBeforeClosing`).
* **Election.** A replica's view and the server's are related by
  `LeadersHoldTheLock` (flag implies lock, unless the server ended the session)
  and `HolderWillRelease` (a lock held is held by one who knows, or is about to).
  `MidwayFollows` covers the points between the two.
* **Rotation.** Until something other than a crash happens (`Calm`): a pass under
  way runs on the leader, there is one leader, and so a secret that was rotated
  is in no list.

* **Read leases.** The table of leases is what is inductive, and one transaction builds
  the next table in up to three steps (close the expired lease, add one, count the read).
  So `TableHolds` is a predicate of any table: rows numbered without gaps, each typed,
  every value served or granted counted within the cap, and one live lease per requester.
  `TableRevoked`, `TableAdded` and `ReadCounted` carry it over one step each, and
  `Reached` says at which table and lease a decision counts its read; `Decided` proves
  that every decision refuses or reaches such a pair. The cap then does not depend on
  clocks at all. That allowances do not overlap does, through `RunOut`: what was closed as
  expired has run out by the clock the successor is issued on.
* **Transit.** `TransitInv`: versions are apart by material and by number (`VersionsApart`),
  a floor is at or below the current version (`FloorsReached`), a token was sealed by a
  version still there (`TokensSealed`), what each request has read still holds as far as
  it must (`ReadsHold`), and one rotation at a time has a key (`RotatesAlone`). Floors
  that are about to be written stay reached because versions only grow.
* **Rate limit.** `TimeInv` bounds how far a call and a bucket can be behind their
  replica's clock and the clocks behind each other. `ReservedCovers` says that what is out
  of a window somebody can still reserve from is at most the row's running total, so a new
  grant is apart from it; the pruner sets that total to nothing only for windows nobody
  can reserve from, which is where the retention is used. `RefusedOnlyWhenReserved` adds
  (`FullInv`) that a bucket or a request that was told there is no budget names a window
  whose total reached the limit. `ReplicaCeiling` bounds a count of requests by a product,
  and is proved by counting units: the ceiling of a window is the size of a set of pairs of
  a replica and a unit, `Left` what of it no count has used, and each request that passes
  removes one pair. A count of the window that is lost gives its replica its pairs back; no
  other fault touches them.
* **Webhooks.** `Inv`: rows are typed as far as they are claimed (`TableInv`), a worker's
  list is what it claimed (`WorkInv`), a claim of a delivery that is not in `outlived` is exact,
  which is that the row is retrying, its count is the one claimed and no other worker has it
  (`ClaimInv`), a row a request is posting is pending and its alone (`RequestInv`), and a
  parked row counts every post but the one in flight and those a fault lost (`BudgetInv`).
  When a batch fits the lease (`Fits`), the lease of each claim also runs on for longer than
  the posts before it can take, so that nothing is ever in `outlived`. When a
  row that no one claims is due is not typed in it: the backoff is a power of two, which is
  beyond the provers, so the type invariant is not a theorem here.
* **Reveals.** `GrantInv`: at each point of a reveal what has been decrypted was granted,
  and has its row in the log but for the secret it landed on, whose row is written last. It
  holds whatever imports and secrets do meanwhile, because authorisation follows the secret
  that is read. `ReadLeases` and
  `Reveals` are the two gates of a reveal; their proofs are sections of one module,
  `RevealProofs`, and share no state. So it is with the two kinds of key in `KeyProofs`.
* **Imports.** That a walk missed the target is a statement about paths, which would need
  an induction over their length. `ImportsInv` says it without paths: a set of folders is
  closed when no import that is followed leads out of it, and `NoCircle` is that every
  folder can be kept from its own sources by such a set. A walk under way has a part it
  has read and a part still to read (`WalkHolds`): the sources of what it has read are
  among what it has seen, unless another creation or a switch came in between, so that
  the source and what the walk has seen, when nothing is left to read, are closed and do
  not hold the target. That the walk stops at `maxImportDepth` does no harm: each level
  that is not empty adds a folder to what it has seen, so a walk cut short has seen more
  than the depth allows and is refused. An edge from the target then leads into a
  closed set without the target. Deleting, switching off and moving an import leave closed
  sets closed. The folders that `Within` reaches stay in such a set, by the least number of
  imports at which they would leave it. `Folders` must be finite, as the table is.
* **The nearest holder.** `RevealsInv` adds to `ImportsInv` what a lookup knows while
  nothing changes (`Sure`). The levels of the graph from the folder asked for are a function
  of the distance (`Reach`). While the chain is built (`Chained`), what has been seen is a
  level and the part of the next one that the folders read so far have, and the chain lists
  it in an order (`Ordered`) in which nearer levels come first and direct imports stand as
  their positions say. While it is probed (`Probing`) no folder before the head
  holds the secret, so the first that does is on the nearest level that has a holder
  (`Landed`). A change of the graph or of a secret ends what is known of every lookup under
  way (`WorldChanges`), which is what the property says of it. That a listing exists which
  sorts any set of rows by position and row (`Sortable`) is by counting for each row those
  before it.
* **Folder tree.** `TreeInv`: the table is a tree whose paths spell out its parents
  (`IsTree`) and whose live paths differ (`Unique`), a secret, live or deleted, that is not in
  `lapsed` is in a live folder at whose path its MRN is (`Placed`), a row that a call found is
  still where it found it (`CallsHold`), and a move or deletion runs alone among the calls
  that change folders (`Alone`, which is what `Quiet` gives). That `Placed` is about deleted
  secrets too is what a restore needs. `IsTree` and `Unique`
  are said of any table, because one transaction builds the next in up to three steps:
  folders ensured, a subtree moved, a subtree pruned. `EnsuredTree`, `MovedTree` and
  `PrunedTree` carry them over one each. That the moved paths are unique uses that no
  folder moves into its own subtree. Paths have any length and are compared position by
  position, which spares an induction over them.

Every safety property of the runs that pass is a theorem. Only model-checked: liveness
(`RewrapEnds`, `ExpiredAreReaped`, `ParkedIsSettled`, `LeaderEmerges`, `DueIsRotated`,
`RevealsEnd`), which is beyond this proof system, as is `ENABLED`, and the type invariant
of the webhooks (above). No module here uses a RECURSIVE
operator.

## 6. Not modelled

Contents, wording and formats; authentication and the permission table (a grant is a set
of secrets); what a validation refuses; signing of webhooks; the ciphers; metrics and
logs. The audit trail, apart from the failed audit of a dynamic credential, which triggers
a revocation, and the rows of a reveal, without which it returns nothing. Paging of
listings by OFFSET is one listing.

Setup: provisioning gets or creates one scope after the other under unique indexes, and
completion is one upsert guarded on `completed_at IS NULL`. Nothing is read in one
statement and written in another, so there is no interleaving to check. Bulk operations
are loops over calls that are modelled, without a transaction around them. A
rewrap of transit key versions is there (`TransitRewrapStore`, `store/transit.go:496`, the
batched loop with a retirement that does nothing), but nothing calls it, so `RootKeys` has no
such drain; webhook secrets have none at all.

Left out of modules that are there: moves of folders during a reveal (`Reveals` has one
secret a folder and folders that only go), the lease gate inside a reveal (`ReadLeases`
has it), several principals of one limiter, who meet only in the reset of a full map.

More than half of the lines of the repository's implementation are generated from
`proto` and from the SQL queries, or are configuration and encoding: no model of this
system would cover them. The queries are mapped where they are written
(`internal/storage/queries`).

## 7. Plan

Done: secret versions with their abstract store, root keys, read leases, dynamic
credentials, webhooks, the election with scheduled rotation, folders, transit keys, the
rate limit, imports and reveals; theorems for all of them.

Left, the most important first:

1. A composition of `Reveals` with `ReadLeases`: the gate is between the grant and the
   decryption of a direct reveal, and a reference does not pass it.
2. `FolderTree` with moves that run together, under a weaker property of the paths: which
   rows of crossing moves disagree with their parents.
3. The abstract specification of a lease allowance (a counter), which `ReadLeases`
   should implement, and that of a mutual-exclusion lock, which `LeaderElection` should
   while sessions hold.
