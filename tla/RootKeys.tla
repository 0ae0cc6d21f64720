------------------------------ MODULE RootKeys ------------------------------
(***************************************************************************)
(* Root keys and their rotation: the registry `root_keys', the key ring of *)
(* each replica (internal/crypto/keyring.go), the loop that moves wrapped  *)
(* data keys from one root key to another (internal/crypto/rewrap.go) and  *)
(* its two stores (store/rootkeys.go, store/transit.go).                   *)
(*                                                                         *)
(* A row is anything wrapped under a root key.  Table says where it lives: *)
(* the rewrap reaches secret_versions and transit_key_versions, and nothing *)
(* reaches webhook_endpoints.  A rewrap is the statements it runs: list a  *)
(* batch, one transaction per row, the COUNT, the retirement.              *)
(***************************************************************************)
EXTENDS Integers, FiniteSets

CONSTANTS
  Replicas,   \* processes of the service
  Keys,       \* root keys, by kek_id
  Rows,       \* row ids, in the order ListVersionWraps returns them
  Table,      \* the table of each row
  None,       \* no key
  Batch,      \* SECRET_REWRAP_BATCH_SIZE
  AddsKeys,   \* whether KeyRing.Add is called; the binary never does
  Rolling     \* whether a replica may boot while others write under another key

Tables == {"secret", "transit", "webhook"}

ASSUME NoneAssumption == None \notin Keys
ASSUME RowAssumption == Rows \subseteq Nat /\ Table \in [Rows -> Tables]
ASSUME BatchAssumption == Batch \in Nat \ {0}
ASSUME ModeAssumption == AddsKeys \in BOOLEAN /\ Rolling \in BOOLEAN

VARIABLES
  registry,  \* the state column of root_keys
  kek,       \* the kek_id column of each row; None: no such row
  wrap,      \* the key that really wraps the row's data key
  active,    \* the write key of each replica's ring; None: the process is down
  readable,  \* the keys each replica's ring can unwrap with
  sealed,    \* the key under which a replica sealed a row it has not inserted yet
  work       \* the rewrap each replica is running

vars == <<registry, kek, wrap, active, readable, sealed, work>>

Rewrap == [pc : {"idle", "list", "move", "count", "retire"}, table : Tables,
           from : Keys \cup {None}, queue : SUBSET Rows, last : BOOLEAN]

Idle == [pc |-> "idle", table |-> "secret", from |-> None, queue |-> {}, last |-> FALSE]

Up == {r \in Replicas : active[r] # None}

\* Mutant: only the newest row of a table is looked at.
WrappedNewest(t, k) ==
  {x \in Rows : Table[x] = t /\ kek[x] = k
                /\ \A y \in Rows : Table[y] = t /\ kek[y] # None => y <= x}

\* ListVersionWrapsByKEK and CountVersionsByKEK: WHERE kek_id = $1.
Wrapped(t, k) == {x \in Rows : Table[x] = t /\ kek[x] = k}

\* ORDER BY version_id LIMIT batch.
FirstBatch(S) == {x \in S : Cardinality({y \in S : y < x}) < Batch}

-----------------------------------------------------------------------------
Init ==
  /\ registry = [k \in Keys |-> "absent"]
  /\ kek = [x \in Rows |-> None]
  /\ wrap = [x \in Rows |-> None]
  /\ active = [r \in Replicas |-> None]
  /\ readable = [r \in Replicas |-> {}]
  /\ sealed = [r \in Replicas |-> None]
  /\ work = [r \in Replicas |-> Idle]

\* EnsureActiveRootKey: the incumbent steps down, then the key is upserted.
EnsureActiveRootKey(k) ==
  [j \in Keys |-> IF j = k THEN "active"
                  ELSE IF registry[j] = "active" THEN "retiring"
                  ELSE registry[j]]

\* A process starts with one root key: NewKeyRing(rootKey), then registerRootKey.
Boot(r, k) ==
  /\ active[r] = None
  /\ Rolling \/ \A q \in Up : active[q] = k
  /\ registry' = EnsureActiveRootKey(k)
  /\ active' = [active EXCEPT ![r] = k]
  /\ readable' = [readable EXCEPT ![r] = {k}]
  /\ UNCHANGED <<kek, wrap, sealed, work>>

\* KeyRing.Add: the operator supplies a superseded key.
AddKey(r, k) ==
  /\ AddsKeys
  /\ r \in Up
  /\ k \notin readable[r]
  /\ registry[k] # "absent"
  /\ readable' = [readable EXCEPT ![r] = @ \cup {k}]
  /\ UNCHANGED <<registry, kek, wrap, active, sealed, work>>

\* The process stops or dies; what it had in memory is gone.
Stop(r) ==
  /\ r \in Up
  /\ active' = [active EXCEPT ![r] = None]
  /\ readable' = [readable EXCEPT ![r] = {}]
  /\ sealed' = [sealed EXCEPT ![r] = None]
  /\ work' = [work EXCEPT ![r] = Idle]
  /\ UNCHANGED <<registry, kek, wrap>>

\* A write seals its payload under the ring's active key ...
SealUnderActive(r) ==
  /\ r \in Up
  /\ sealed[r] = None
  /\ sealed' = [sealed EXCEPT ![r] = active[r]]
  /\ UNCHANGED <<registry, kek, wrap, active, readable, work>>

\* ... and inserts the row, in any of the tables, in a later statement.
InsertRow(r, x) ==
  /\ sealed[r] # None
  /\ kek[x] = None
  /\ \A y \in Rows : Table[y] = Table[x] /\ kek[y] = None => x <= y
  /\ kek' = [kek EXCEPT ![x] = sealed[r]]
  /\ wrap' = [wrap EXCEPT ![x] = sealed[r]]
  /\ sealed' = [sealed EXCEPT ![r] = None]
  /\ UNCHANGED <<registry, active, readable, work>>

-----------------------------------------------------------------------------
(* RewrapAll.                                                              *)

\* RewrapRootKey refuses an unknown key; RewrapAll returns at once for the active
\* one and fails for a key that is not on the ring.
StartRewrap(r, t, k) ==
  /\ r \in Up
  /\ t \in {"secret", "transit"}
  /\ work[r].pc = "idle"
  /\ registry[k] # "absent"
  /\ k # active[r]
  /\ k \in readable[r]
  /\ work' = [work EXCEPT ![r] = [Idle EXCEPT !.pc = "list", !.table = t, !.from = k]]
  /\ UNCHANGED <<registry, kek, wrap, active, readable, sealed>>

ListVersionWraps(r) ==
  LET w == work[r]
      batch == FirstBatch(Wrapped(w.table, w.from))
  IN
  /\ w.pc = "list"
  /\ work' = [work EXCEPT ![r].pc = IF batch = {} THEN "count" ELSE "move",
                          ![r].queue = batch,
                          ![r].last = Cardinality(batch) < Batch]
  /\ UNCHANGED <<registry, kek, wrap, active, readable, sealed>>

\* Mutant: the new wrapping is stored and kek_id is not.
KeepsKekId(r, x) ==
  /\ wrap' = [wrap EXCEPT ![x] = IF kek[x] = work[r].from THEN active[r] ELSE @]
  /\ UNCHANGED kek

\* RewrapSecretVersion: UPDATE ... WHERE version_id = x AND kek_id = from.
Rewrapped(r, x) ==
  /\ wrap' = [wrap EXCEPT ![x] = IF kek[x] = work[r].from THEN active[r] ELSE @]
  /\ kek' = [kek EXCEPT ![x] = IF @ = work[r].from THEN active[r] ELSE @]

\* RewrapVersion, one transaction per row; a short batch ends the loop.
RewrapVersion(r) ==
  LET w == work[r]
  IN
  /\ w.pc = "move"
  /\ \E x \in w.queue :
       /\ \A y \in w.queue : x <= y
       /\ Rewrapped(r, x)
       /\ work' = [work EXCEPT
            ![r].queue = @ \ {x},
            ![r].pc = IF w.queue # {x} THEN "move" ELSE IF w.last THEN "count" ELSE "list"]
  /\ UNCHANGED <<registry, active, readable, sealed>>

CountVersionWraps(r) ==
  LET w == work[r]
  IN
  /\ w.pc = "count"
  /\ work' = [work EXCEPT ![r] = IF Wrapped(w.table, w.from) = {}
                                 THEN [w EXCEPT !.pc = "retire"] ELSE Idle]
  /\ UNCHANGED <<registry, kek, wrap, active, readable, sealed>>

\* The secret side retires the key unless it is active; the transit side's
\* RetireRootKey does nothing.
RetireRootKey(r) ==
  LET w == work[r]
  IN
  /\ w.pc = "retire"
  /\ registry' = IF w.table = "secret" /\ registry[w.from] # "active"
                 THEN [registry EXCEPT ![w.from] = "retired"]
                 ELSE registry
  /\ work' = [work EXCEPT ![r] = Idle]
  /\ UNCHANGED <<kek, wrap, active, readable, sealed>>

RewrapStep(r) ==
  \/ ListVersionWraps(r)
  \/ RewrapVersion(r)
  \/ CountVersionWraps(r)
  \/ RetireRootKey(r)

Next ==
  \/ \E r \in Replicas, k \in Keys : Boot(r, k)
  \/ \E r \in Replicas, k \in Keys : AddKey(r, k)
  \/ \E r \in Replicas : Stop(r)
  \/ \E r \in Replicas : SealUnderActive(r)
  \/ \E r \in Replicas, x \in Rows : InsertRow(r, x)
  \/ \E r \in Replicas, t \in Tables, k \in Keys : StartRewrap(r, t, k)
  \/ \E r \in Replicas : RewrapStep(r)

Spec == Init /\ [][Next]_vars

\* The loop is one goroutine that runs while its process does.
FairSpec == Spec /\ \A r \in Replicas : WF_vars(RewrapStep(r))

-----------------------------------------------------------------------------
\* Every column holds a value its constraint allows, and only a running process
\* has a ring, a sealed row or a rewrap.
TypeOK ==
  /\ registry \in [Keys -> {"absent", "active", "retiring", "retired"}]
  /\ kek \in [Rows -> Keys \cup {None}]
  /\ wrap \in [Rows -> Keys \cup {None}]
  /\ active \in [Replicas -> Keys \cup {None}]
  /\ readable \in [Replicas -> SUBSET Keys]
  /\ sealed \in [Replicas -> Keys \cup {None}]
  /\ work \in [Replicas -> Rewrap]
  /\ \A r \in Replicas \ Up : sealed[r] = None /\ work[r] = Idle

\* The data key of every row is wrapped under the key its kek_id names, at every
\* point of a rewrap and whatever rewraps run at once: a partly rewrapped store is
\* readable as it stands.
WrapMatches == \A x \in Rows : wrap[x] = kek[x]

\* root_keys calls a key retired only when no secret version refers to it, also
\* while other replicas write (crypto/rewrap.go:72).
RetiredIsUnreferenced ==
  \A x \in Rows : Table[x] = "secret" /\ kek[x] # None => registry[kek[x]] # "retired"

\* A process given every key the registry has not retired can decrypt every
\* secret version.
EveryVersionReadable ==
  \A r \in Up :
    {k \in Keys : registry[k] \in {"active", "retiring"}} \subseteq readable[r]
      => \A x \in Rows : Table[x] = "secret" /\ kek[x] # None
                         => wrap[x] \in readable[r] /\ wrap[x] = kek[x]

\* The key every running process writes under is the one registered as active,
\* also after a key that was being drained is put back, so which key new writes
\* wrap under does not differ per replica.
WritersUseTheActiveKey ==
  /\ \A r \in Up : registry[active[r]] = "active"
  /\ \A j, k \in Keys : registry[j] = "active" /\ registry[k] = "active" => j = k

\* A rewrap ends, whatever its process writes meanwhile.
RewrapEnds == \A r \in Replicas : work[r].pc # "idle" ~> work[r].pc = "idle"

-----------------------------------------------------------------------------
\* A claim of the documentation that the code refutes.
\* 00005_create_root_keys.sql:26 calls the material of a retired key safe to
\* decommission: nothing the store keeps is wrapped under it.
RetiredIsDecommissionable ==
  \A x \in Rows : kek[x] # None => registry[kek[x]] # "retired"

=============================================================================
