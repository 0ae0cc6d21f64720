------------------------------ MODULE KeyProofs ------------------------------
(***************************************************************************)
(* Proofs about the two kinds of keys the service keeps: root keys, which  *)
(* wrap the data keys of everything it stores (RootKeys), and transit      *)
(* keys, which it wields for its callers (Transit). The two share no state *)
(* but for the wrapped material of a transit key, which RootKeys counts    *)
(* among its rows; a section each.                                         *)
(*                                                                         *)
(* Root keys, for every number of replicas, keys and rows and every batch  *)
(* size. What a rewrap preserves (WrapMatches) holds in any deployment.    *)
(* That a retired key has no secret version left needs every running       *)
(* process to write under one key: the theorem assumes ~Rolling. Its       *)
(* inductive invariant says that a process only seals under the registered *)
(* active key, that a rewrap never drains that key, and that from the      *)
(* COUNT to the retirement no row comes back under the drained key.        *)
(*                                                                         *)
(* Transit keys, for any number of clients, names, keys and versions: the  *)
(* types, that issued tokens keep opening, that rotations do not collide,  *)
(* and when a floor comes down. One inductive invariant carries all of     *)
(* them. Versions are told apart by their material and by their number; a  *)
(* rotation in progress is alone with its key, whose columns it has read;  *)
(* a floor stays at or below the current version, also one that is about   *)
(* to be written, because versions only grow.                              *)
(***************************************************************************)
EXTENDS RootKeys, Transit, FiniteSetTheorems, TLAPS

-----------------------------------------------------------------------------
(* Root keys.                                                              *)

\* Whatever is running, in a ring or on a row is registered.
KnownKeys ==
  /\ \A r \in Up : active[r] \in readable[r]
  /\ \A r \in Replicas : \A k \in readable[r] : registry[k] # "absent"
  /\ \A r \in Replicas : sealed[r] # None => registry[sealed[r]] # "absent"
  /\ \A x \in Rows : kek[x] # None => registry[kek[x]] # "absent"
  /\ \A r \in Replicas : work[r].pc # "idle" => work[r].from \in readable[r]

BaseInv == TypeOK /\ KnownKeys /\ WrapMatches

\* All running processes write under the one active key.
OneWriteKey ==
  /\ WritersUseTheActiveKey
  /\ \A r, q \in Up : active[r] = active[q]
  /\ \A r \in Up : sealed[r] \in {None, active[r]}

\* A rewrap drains a superseded key and has drained it when it retires it.
Drains ==
  \A r \in Up :
    /\ work[r].pc # "idle" => work[r].from # active[r]
    /\ work[r].pc = "retire" => Wrapped(work[r].table, work[r].from) = {}

OneKeyInv == BaseInv /\ OneWriteKey /\ Drains /\ RetiredIsUnreferenced

-----------------------------------------------------------------------------
\* The runner that has not started has its type.
LEMMA IdleType == Idle \in Rewrap /\ Idle.pc = "idle"
  BY DEF Idle, Rewrap, Tables

\* A rewrap in progress has a source key, and its process is up.
LEMMA RewrapRuns ==
  ASSUME BaseInv, NEW r \in Replicas, work[r].pc # "idle"
  PROVE  work[r].from \in Keys /\ work[r].from \in readable[r] /\ active[r] \in Keys /\ r \in Up
<1>1. work[r].from \in readable[r] /\ readable[r] \subseteq Keys
  BY DEF BaseInv, KnownKeys, TypeOK
<1>2. r \in Up
  BY IdleType DEF BaseInv, TypeOK
<1>3. QED
  BY <1>1, <1>2 DEF BaseInv, TypeOK, Up

\* A row a rewrap touches leaves its key for the write key of that replica.
LEMMA RewrappedRows ==
  ASSUME BaseInv, NEW r \in Replicas, NEW x \in Rows, work[r].pc # "idle", Rewrapped(r, x)
  PROVE  /\ kek' \in [Rows -> Keys \cup {None}]
         /\ wrap' \in [Rows -> Keys \cup {None}]
         /\ \A y \in Rows : kek'[y] = kek[y] \/ (kek[y] # None /\ kek'[y] = active[r])
         /\ \A y \in Rows : wrap'[y] = kek'[y]
<1>1. /\ kek \in [Rows -> Keys \cup {None}] /\ wrap \in [Rows -> Keys \cup {None}]
      /\ \A y \in Rows : wrap[y] = kek[y]
  BY DEF BaseInv, TypeOK, WrapMatches
<1>2. work[r].from \in Keys /\ active[r] \in Keys /\ work[r].from # None
  BY RewrapRuns, NoneAssumption
<1>3. kek' = [kek EXCEPT ![x] = IF kek[x] = work[r].from THEN active[r] ELSE kek[x]]
      /\ wrap' = [wrap EXCEPT ![x] = IF kek[x] = work[r].from THEN active[r] ELSE wrap[x]]
  BY DEF Rewrapped
<1>4. QED
  BY <1>1, <1>2, <1>3

\* The inductive part holds at the start.
LEMMA BaseInit == Init => BaseInv
<1>1. SUFFICES ASSUME Init PROVE BaseInv
  OBVIOUS
<1>2. TypeOK
  BY <1>1, IdleType DEF Init, TypeOK, Up
<1>3. KnownKeys
  BY <1>1, IdleType DEF Init, KnownKeys, Up
<1>4. WrapMatches
  BY <1>1 DEF Init, WrapMatches
<1>5. QED
  BY <1>2, <1>3, <1>4 DEF BaseInv

\* Every action keeps it.
LEMMA BaseStep == BaseInv /\ [Next]_vars => BaseInv'
<1>1. SUFFICES ASSUME BaseInv, [Next]_vars PROVE BaseInv'
  OBVIOUS
<1>a. TypeOK /\ KnownKeys /\ WrapMatches
  BY <1>1 DEF BaseInv
<1>2. CASE UNCHANGED vars
  BY <1>a, <1>2 DEF vars, BaseInv, TypeOK, KnownKeys, WrapMatches, Up
<1>3. ASSUME NEW r \in Replicas, NEW k \in Keys, Boot(r, k)
      PROVE  BaseInv'
  <2>1. registry' = EnsureActiveRootKey(k) /\ active' = [active EXCEPT ![r] = k]
        /\ readable' = [readable EXCEPT ![r] = {k}] /\ UNCHANGED <<kek, wrap, sealed, work>>
        /\ active[r] = None
    BY <1>3 DEF Boot
  <2>2. \A j \in Keys : registry[j] # "absent" => registry'[j] # "absent"
    BY <2>1, <1>a DEF EnsureActiveRootKey
  <2>3. registry'[k] = "active" /\ registry' \in [Keys -> {"absent", "active", "retiring", "retired"}]
    BY <2>1, <1>a DEF EnsureActiveRootKey, TypeOK
  <2>4. sealed[r] = None /\ work[r] = Idle
    BY <2>1, <1>a DEF TypeOK, Up
  <2>5. TypeOK'
    BY <2>1, <2>3, <1>a DEF TypeOK, Up
  <2>6. KnownKeys'
    BY <2>1, <2>2, <2>3, <2>4, <1>a, IdleType DEF KnownKeys, TypeOK, Up
  <2>7. QED
    BY <2>1, <2>5, <2>6, <1>a DEF BaseInv, WrapMatches
<1>4. ASSUME NEW r \in Replicas, NEW k \in Keys, AddKey(r, k)
      PROVE  BaseInv'
  <2>1. TypeOK'
    BY <1>4, <1>a DEF AddKey, TypeOK, Up
  <2>2. KnownKeys'
    BY <1>4, <1>a DEF AddKey, KnownKeys, TypeOK, Up
  <2>3. QED
    BY <1>4, <2>1, <2>2, <1>a DEF AddKey, BaseInv, WrapMatches
<1>5. ASSUME NEW r \in Replicas, Stop(r)
      PROVE  BaseInv'
  <2>1. TypeOK'
    BY <1>5, <1>a, IdleType DEF Stop, TypeOK, Up
  <2>2. KnownKeys'
    BY <1>5, <1>a, IdleType DEF Stop, KnownKeys, TypeOK, Up
  <2>3. QED
    BY <1>5, <2>1, <2>2, <1>a DEF Stop, BaseInv, WrapMatches
<1>6. ASSUME NEW r \in Replicas, SealUnderActive(r)
      PROVE  BaseInv'
  <2>1. TypeOK'
    BY <1>6, <1>a DEF SealUnderActive, TypeOK, Up
  <2>2. active[r] \in readable[r]
    BY <1>6, <1>a DEF SealUnderActive, KnownKeys
  <2>3. KnownKeys'
    BY <1>6, <1>a, <2>2 DEF SealUnderActive, KnownKeys, TypeOK, Up
  <2>4. QED
    BY <1>6, <2>1, <2>3, <1>a DEF SealUnderActive, BaseInv, WrapMatches
<1>7. ASSUME NEW r \in Replicas, NEW x \in Rows, InsertRow(r, x)
      PROVE  BaseInv'
  <2>1. TypeOK'
    BY <1>7, <1>a DEF InsertRow, TypeOK, Up
  <2>2. KnownKeys'
    BY <1>7, <1>a DEF InsertRow, KnownKeys, TypeOK, Up
  <2>3. WrapMatches'
    BY <1>7, <1>a DEF InsertRow, WrapMatches, TypeOK
  <2>4. QED
    BY <2>1, <2>2, <2>3 DEF BaseInv
<1>8. ASSUME NEW r \in Replicas, NEW t \in Tables, NEW k \in Keys, StartRewrap(r, t, k)
      PROVE  BaseInv'
  <2>1. /\ work' = [work EXCEPT ![r] = [Idle EXCEPT !.pc = "list", !.table = t, !.from = k]]
        /\ k \in readable[r] /\ r \in Up
        /\ UNCHANGED <<registry, kek, wrap, active, readable, sealed>>
    BY <1>8 DEF StartRewrap
  <2>2. [Idle EXCEPT !.pc = "list", !.table = t, !.from = k] \in Rewrap
    BY DEF Idle, Rewrap
  <2>3. [Idle EXCEPT !.pc = "list", !.table = t, !.from = k].from = k
    BY DEF Idle
  <2>4. TypeOK'
    BY <2>1, <2>2, <1>a DEF TypeOK, Up
  <2>5. KnownKeys'
    BY <2>1, <2>2, <2>3, <1>a DEF KnownKeys, TypeOK, Up
  <2>6. QED
    BY <2>1, <2>4, <2>5, <1>a DEF BaseInv, WrapMatches
<1>9. ASSUME NEW r \in Replicas, RewrapStep(r)
      PROVE  BaseInv'
  <2>1. work[r].pc # "idle"
    BY <1>9 DEF RewrapStep, ListVersionWraps, RewrapVersion, CountVersionWraps, RetireRootKey
  <2>2. work[r] \in Rewrap /\ r \in Up /\ work[r].from \in readable[r]
    BY <2>1, <1>1, <1>a, RewrapRuns DEF TypeOK
  <2>3. /\ UNCHANGED <<active, readable, sealed>>
        /\ work' \in [Replicas -> Rewrap]
        /\ \A q \in Replicas \ {r} : work'[q] = work[q]
        /\ work'[r].pc # "idle" => work'[r].from = work[r].from
    <3>1. CASE ListVersionWraps(r)
      <4>1. FirstBatch(Wrapped(work[r].table, work[r].from)) \in SUBSET Rows
        BY DEF FirstBatch, Wrapped
      <4> DEFINE batch == FirstBatch(Wrapped(work[r].table, work[r].from))
                 last == Cardinality(batch) < Batch
                 pc == IF batch = {} THEN "count" ELSE "move"
                 after == [work[r] EXCEPT !.pc = pc, !.queue = batch, !.last = last]
      <4>2. after \in Rewrap /\ after.from = work[r].from
        <5>1. last \in BOOLEAN /\ pc \in {"idle", "list", "move", "count", "retire"}
          OBVIOUS
        <5>2. batch \in SUBSET Rows
          BY <4>1
        <5> HIDE DEF batch, last, pc
        <5>3. work[r] \in Rewrap
          BY <2>2
        <5>4. QED
          BY <5>1, <5>2, <5>3 DEF Rewrap
      <4>3. work' = [work EXCEPT ![r] = after]
        BY <3>1, <1>a DEF ListVersionWraps, TypeOK
      <4>4. UNCHANGED <<active, readable, sealed>>
        BY <3>1 DEF ListVersionWraps
      <4> HIDE DEF after
      <4>5. QED
        BY <4>2, <4>3, <4>4, <1>a DEF TypeOK
    <3>2. CASE RewrapVersion(r)
      <4>1. PICK x \in work[r].queue :
              work' = [work EXCEPT
                ![r].queue = @ \ {x},
                ![r].pc = IF work[r].queue # {x} THEN "move"
                          ELSE IF work[r].last THEN "count" ELSE "list"]
        BY <3>2 DEF RewrapVersion
      <4> DEFINE queue == work[r].queue \ {x}
                 pc == IF work[r].queue # {x} THEN "move"
                       ELSE IF work[r].last THEN "count" ELSE "list"
                 after == [work[r] EXCEPT !.queue = queue, !.pc = pc]
      <4>2. work[r].queue \in SUBSET Rows
        BY <2>2 DEF Rewrap
      <4>3. after \in Rewrap /\ after.from = work[r].from
        <5>1. queue \in SUBSET Rows /\ pc \in {"idle", "list", "move", "count", "retire"}
          BY <4>2
        <5> HIDE DEF queue, pc
        <5>2. work[r] \in Rewrap
          BY <2>2
        <5>3. QED
          BY <5>1, <5>2 DEF Rewrap
      <4>4. work' = [work EXCEPT ![r] = after]
        BY <4>1, <1>a DEF TypeOK
      <4>5. UNCHANGED <<active, readable, sealed>>
        BY <3>2 DEF RewrapVersion
      <4> HIDE DEF after
      <4>6. QED
        BY <4>3, <4>4, <4>5, <1>a DEF TypeOK
    <3>3. CASE CountVersionWraps(r)
      BY <3>3, <2>2, <1>a, IdleType DEF CountVersionWraps, TypeOK, Rewrap
    <3>4. CASE RetireRootKey(r)
      BY <3>4, <2>2, <1>a, IdleType DEF RetireRootKey, TypeOK
    <3>5. QED
      BY <1>9, <3>1, <3>2, <3>3, <3>4 DEF RewrapStep
  <2>4. /\ registry' \in [Keys -> {"absent", "active", "retiring", "retired"}]
        /\ \A k \in Keys : registry[k] # "absent" => registry'[k] # "absent"
    <3>1. CASE RetireRootKey(r)
      BY <3>1, <1>a DEF RetireRootKey, TypeOK
    <3>2. CASE ~RetireRootKey(r)
      BY <3>2, <1>9, <1>a DEF RewrapStep, ListVersionWraps, RewrapVersion, CountVersionWraps, TypeOK
    <3>3. QED
      BY <3>1, <3>2
  <2>5. /\ kek' \in [Rows -> Keys \cup {None}] /\ wrap' \in [Rows -> Keys \cup {None}]
        /\ \A y \in Rows : kek'[y] = kek[y] \/ (kek[y] # None /\ kek'[y] = active[r])
        /\ WrapMatches'
    <3>1. CASE RewrapVersion(r)
      <4>1. PICK x \in work[r].queue : Rewrapped(r, x)
        BY <3>1 DEF RewrapVersion
      <4>2. x \in Rows
        BY <4>1, <2>2 DEF Rewrap
      <4>3. QED
        BY <4>1, <4>2, <2>1, <1>1, RewrappedRows DEF WrapMatches
    <3>2. CASE ~RewrapVersion(r)
      BY <3>2, <1>9, <1>a
         DEF RewrapStep, ListVersionWraps, CountVersionWraps, RetireRootKey, TypeOK, WrapMatches
    <3>3. QED
      BY <3>1, <3>2
  <2>6. TypeOK'
    BY <2>2, <2>3, <2>4, <2>5, <1>a DEF TypeOK, Up
  <2>7. active[r] \in readable[r] /\ active[r] \in Keys /\ readable[r] \subseteq Keys
    BY <2>2, <2>1, <1>1, <1>a, RewrapRuns DEF KnownKeys, TypeOK
  <2>8. KnownKeys'
    <3>1. \A q \in Up' : active'[q] \in readable'[q]
      BY <2>3, <1>a DEF KnownKeys, Up
    <3>2. \A q \in Replicas : \A k \in readable'[q] : registry'[k] # "absent"
      BY <2>3, <2>4, <1>a DEF KnownKeys, TypeOK
    <3>3. \A q \in Replicas : sealed'[q] # None => registry'[sealed'[q]] # "absent"
      BY <2>3, <2>4, <1>a DEF KnownKeys, TypeOK
    <3>4. \A x \in Rows : kek'[x] # None => registry'[kek'[x]] # "absent"
      BY <2>4, <2>5, <2>7, <1>a DEF KnownKeys, TypeOK
    <3>5. \A q \in Replicas : work'[q].pc # "idle" => work'[q].from \in readable'[q]
      BY <2>2, <2>3, <1>a DEF KnownKeys
    <3>6. QED
      BY <3>1, <3>2, <3>3, <3>4, <3>5 DEF KnownKeys
  <2>9. QED
    BY <2>5, <2>6, <2>8 DEF BaseInv
<1>10. QED
  BY <1>1, <1>2, <1>3, <1>4, <1>5, <1>6, <1>7, <1>8, <1>9 DEF Next

\* The data key of every row is wrapped under the key its kek_id names: a rewrap
\* that stops anywhere, or two of them at once, leave a readable store.
THEOREM WrapsMatch == Spec => []WrapMatches
<1>1. Spec => []BaseInv
  BY BaseInit, BaseStep, PTL DEF Spec
<1>2. BaseInv => WrapMatches
  BY DEF BaseInv
<1>3. QED
  BY <1>1, <1>2, PTL

-----------------------------------------------------------------------------
\* With one active key, it holds at the start.
LEMMA OneKeyInit == Init => OneKeyInv
<1>1. SUFFICES ASSUME Init PROVE OneKeyInv
  OBVIOUS
<1>2. BaseInv
  BY <1>1, BaseInit
<1>3. OneWriteKey /\ Drains
  BY <1>1 DEF Init, OneWriteKey, WritersUseTheActiveKey, Drains, Up
<1>4. RetiredIsUnreferenced
  BY <1>1 DEF Init, RetiredIsUnreferenced
<1>5. QED
  BY <1>2, <1>3, <1>4 DEF OneKeyInv

\* With one write key, a row that is inserted or moved ends up under it.
LEMMA RowsReachTheWriteKey ==
  ASSUME OneKeyInv, NEW r \in Up, NEW q \in Up, work[r].pc = "retire",
         NEW x \in Rows, kek'[x] = kek[x] \/ kek'[x] = active[q],
         Table[x] = work[r].table, kek[x] # work[r].from
  PROVE  kek'[x] # work[r].from
  BY DEF OneKeyInv, OneWriteKey, Drains

\* With one active key, every action keeps it.
LEMMA OneKeyStep ==
  ASSUME ~Rolling
  PROVE  OneKeyInv /\ [Next]_vars => OneKeyInv'
<1>1. SUFFICES ASSUME OneKeyInv, [Next]_vars PROVE OneKeyInv'
  OBVIOUS
<1>a. /\ BaseInv /\ TypeOK /\ KnownKeys /\ OneWriteKey /\ WritersUseTheActiveKey
      /\ Drains /\ RetiredIsUnreferenced
  BY <1>1 DEF OneKeyInv, OneWriteKey, BaseInv
<1>b. BaseInv'
  BY <1>1, <1>a, BaseStep
<1>2. CASE UNCHANGED vars
  BY <1>a, <1>b, <1>2 DEF vars, OneKeyInv, OneWriteKey, WritersUseTheActiveKey, Drains,
     RetiredIsUnreferenced, Up, Wrapped
<1>3. ASSUME NEW r \in Replicas, NEW k \in Keys, Boot(r, k)
      PROVE  OneKeyInv'
  <2>1. /\ registry' = EnsureActiveRootKey(k) /\ active' = [active EXCEPT ![r] = k]
        /\ UNCHANGED <<kek, wrap, sealed, work>> /\ active[r] = None
        /\ \A q \in Up : active[q] = k
    BY <1>3 DEF Boot
  <2>2. k # None
    BY NoneAssumption
  <2>3. /\ registry'[k] = "active"
        /\ \A j \in Keys \ {k} : registry'[j] # "active"
        /\ \A j \in Keys : registry'[j] = "retired" => registry[j] = "retired"
    BY <2>1, <1>a DEF EnsureActiveRootKey
  <2>4. sealed[r] = None /\ work[r] = Idle
    BY <2>1, <1>a DEF TypeOK, Up
  <2>5. \A q \in Up' : active'[q] = k
    BY <2>1, <1>a DEF Up, TypeOK
  <2>6. \A q \in Up' : q = r \/ q \in Up
    BY <2>1, <1>a DEF Up, TypeOK
  <2>7. OneWriteKey'
    <3>1. WritersUseTheActiveKey'
      BY <2>3, <2>5 DEF WritersUseTheActiveKey
    <3>2. \A q \in Up' : sealed'[q] \in {None, active'[q]}
      BY <2>1, <2>4, <2>5, <2>6, <1>a DEF OneWriteKey
    <3>3. QED
      BY <3>1, <3>2, <2>5 DEF OneWriteKey
  <2>8. Drains'
    <3>1. ASSUME NEW q \in Up'
          PROVE  /\ work'[q].pc # "idle" => work'[q].from # active'[q]
                 /\ work'[q].pc = "retire" => Wrapped(work[q].table, work[q].from)' = {}
      <4>1. CASE q = r
        BY <4>1, <2>1, <2>4, IdleType
      <4>2. CASE q # r
        BY <4>2, <2>1, <2>5, <2>6, <1>a DEF Drains, Wrapped
      <4>3. QED
        BY <4>1, <4>2
    <3>2. QED
      BY <3>1 DEF Drains
  <2>9. RetiredIsUnreferenced'
    BY <2>1, <2>3, <1>a DEF RetiredIsUnreferenced, TypeOK
  <2>10. QED
    BY <1>b, <2>7, <2>8, <2>9 DEF OneKeyInv
<1>4. ASSUME NEW r \in Replicas, NEW k \in Keys, AddKey(r, k)
      PROVE  OneKeyInv'
  BY <1>4, <1>a, <1>b DEF AddKey, OneKeyInv, OneWriteKey, WritersUseTheActiveKey, Drains,
     RetiredIsUnreferenced, Up, Wrapped
<1>5. ASSUME NEW r \in Replicas, Stop(r)
      PROVE  OneKeyInv'
  <2>1. /\ active' = [active EXCEPT ![r] = None] /\ sealed' = [sealed EXCEPT ![r] = None]
        /\ work' = [work EXCEPT ![r] = Idle] /\ UNCHANGED <<registry, kek>>
    BY <1>5 DEF Stop
  <2>2. \A q \in Up' : /\ q \in Up /\ q # r /\ active'[q] = active[q]
                       /\ sealed'[q] = sealed[q] /\ work'[q] = work[q]
    BY <2>1, <1>a DEF Up, TypeOK
  <2>3. OneWriteKey'
    BY <2>1, <2>2, <1>a DEF OneWriteKey, WritersUseTheActiveKey
  <2>4. Drains'
    BY <2>1, <2>2, <1>a DEF Drains, Wrapped
  <2>5. RetiredIsUnreferenced'
    BY <2>1, <1>a DEF RetiredIsUnreferenced
  <2>6. QED
    BY <1>b, <2>3, <2>4, <2>5 DEF OneKeyInv
<1>6. ASSUME NEW r \in Replicas, SealUnderActive(r)
      PROVE  OneKeyInv'
  <2>1. OneWriteKey'
    BY <1>6, <1>a DEF SealUnderActive, OneWriteKey, WritersUseTheActiveKey, Up, TypeOK
  <2>2. QED
    BY <1>6, <2>1, <1>a, <1>b DEF SealUnderActive, OneKeyInv, Drains, RetiredIsUnreferenced, Up, Wrapped
<1>7. ASSUME NEW r \in Replicas, NEW x \in Rows, InsertRow(r, x)
      PROVE  OneKeyInv'
  <2>1. /\ sealed[r] # None /\ kek' = [kek EXCEPT ![x] = sealed[r]]
        /\ sealed' = [sealed EXCEPT ![r] = None] /\ UNCHANGED <<registry, active, work>>
    BY <1>7 DEF InsertRow
  <2>2. r \in Up /\ sealed[r] = active[r] /\ registry[active[r]] = "active"
    BY <2>1, <1>a DEF TypeOK, OneWriteKey, WritersUseTheActiveKey
  <2>3. OneWriteKey'
    BY <2>1, <1>a DEF OneWriteKey, WritersUseTheActiveKey, Up, TypeOK
  <2>4. \A y \in Rows : kek'[y] = kek[y] \/ kek'[y] = active[r]
    BY <2>1, <2>2, <1>a DEF TypeOK
  <2>5. Drains'
    <3>1. ASSUME NEW q \in Up, work[q].pc = "retire"
          PROVE  Wrapped(work[q].table, work[q].from)' = {}
      BY <3>1, <1>1, <1>a, <2>1, <2>2, <2>4, RowsReachTheWriteKey DEF Drains, Wrapped
    <3>2. QED
      BY <3>1, <2>1, <1>a DEF Drains, Up
  <2>6. RetiredIsUnreferenced'
    BY <2>1, <2>2, <2>4, <1>a DEF RetiredIsUnreferenced
  <2>7. QED
    BY <1>b, <2>3, <2>5, <2>6 DEF OneKeyInv
<1>8. ASSUME NEW r \in Replicas, NEW t \in Tables, NEW k \in Keys, StartRewrap(r, t, k)
      PROVE  OneKeyInv'
  <2>1. /\ work' = [work EXCEPT ![r] = [Idle EXCEPT !.pc = "list", !.table = t, !.from = k]]
        /\ UNCHANGED <<registry, kek, active, sealed>> /\ k # active[r]
    BY <1>8 DEF StartRewrap
  <2>2. work'[r].pc = "list" /\ work'[r].from = k
    BY <2>1, <1>a DEF TypeOK, Idle
  <2>3. \A q \in Replicas \ {r} : work'[q] = work[q]
    BY <2>1, <1>a DEF TypeOK
  <2>4. Drains'
    <3>1. ASSUME NEW q \in Up'
          PROVE  /\ work'[q].pc # "idle" => work'[q].from # active'[q]
                 /\ work'[q].pc = "retire" => (Wrapped(work[q].table, work[q].from) = {})'
      <4>1. CASE q = r
        BY <4>1, <2>1, <2>2
      <4>2. CASE q # r
        BY <4>2, <2>1, <2>3, <1>a DEF Drains, Wrapped, Up
      <4>3. QED
        BY <4>1, <4>2
    <3>2. QED
      BY <3>1 DEF Drains
  <2>5. QED
    BY <2>1, <2>4, <1>a, <1>b DEF OneKeyInv, OneWriteKey, WritersUseTheActiveKey,
       RetiredIsUnreferenced, Up
<1>9. ASSUME NEW r \in Replicas, ListVersionWraps(r)
      PROVE  OneKeyInv'
  <2>1. /\ UNCHANGED <<registry, kek, active, sealed>>
        /\ \A q \in Replicas \ {r} : work'[q] = work[q]
        /\ work'[r].pc \in {"count", "move"} /\ work'[r].from = work[r].from
        /\ work[r].pc = "list"
    BY <1>9, <1>a DEF ListVersionWraps, TypeOK, Rewrap
  <2>2. Drains'
    <3>1. ASSUME NEW q \in Up'
          PROVE  /\ work'[q].pc # "idle" => work'[q].from # active'[q]
                 /\ work'[q].pc = "retire" => (Wrapped(work[q].table, work[q].from) = {})'
      <4>1. CASE q = r
        BY <4>1, <2>1, <1>a DEF Drains, Up
      <4>2. CASE q # r
        BY <4>2, <2>1, <1>a DEF Drains, Wrapped, Up
      <4>3. QED
        BY <4>1, <4>2
    <3>2. QED
      BY <3>1 DEF Drains
  <2>3. QED
    BY <2>1, <2>2, <1>a, <1>b DEF OneKeyInv, OneWriteKey, WritersUseTheActiveKey,
       RetiredIsUnreferenced, Up
<1>10. ASSUME NEW r \in Replicas, RewrapVersion(r)
      PROVE  OneKeyInv'
  <2>1. /\ UNCHANGED <<registry, active, sealed>>
        /\ \A q \in Replicas \ {r} : work'[q] = work[q]
        /\ work'[r].pc \in {"count", "move", "list"} /\ work'[r].from = work[r].from
        /\ work[r].pc = "move"
    BY <1>10, <1>a DEF RewrapVersion, TypeOK, Rewrap
  <2>2. r \in Up /\ registry[active[r]] = "active"
    BY <2>1, <1>a, RewrapRuns DEF WritersUseTheActiveKey
  <2>3. \A y \in Rows : kek'[y] = kek[y] \/ (kek[y] # None /\ kek'[y] = active[r])
    <3>1. PICK x \in work[r].queue : Rewrapped(r, x)
      BY <1>10 DEF RewrapVersion
    <3>2. x \in Rows
      BY <3>1, <1>a DEF TypeOK, Rewrap
    <3>3. QED
      BY <3>1, <3>2, <2>1, <1>a, RewrappedRows
  <2>4. Drains'
    <3>1. ASSUME NEW q \in Up'
          PROVE  /\ work'[q].pc # "idle" => work'[q].from # active'[q]
                 /\ work'[q].pc = "retire" => (Wrapped(work[q].table, work[q].from) = {})'
      <4>1. CASE q = r
        BY <4>1, <2>1, <1>a DEF Drains, Up
      <4>2. CASE q # r /\ work[q].pc = "retire"
        <5>1. q \in Up /\ work'[q] = work[q] /\ UNCHANGED active
          BY <4>2, <2>1 DEF Up
        <5>2. \A x \in Rows : Table[x] = work[q].table => kek'[x] # work[q].from
          BY <4>2, <5>1, <1>1, <1>a, <2>2, <2>3, RowsReachTheWriteKey DEF Drains, Wrapped
        <5>3. QED
          BY <5>1, <5>2, <1>a DEF Drains, Wrapped
      <4>3. CASE q # r /\ work[q].pc # "retire"
        BY <4>3, <2>1, <1>a DEF Drains, Up
      <4>4. QED
        BY <4>1, <4>2, <4>3
    <3>2. QED
      BY <3>1 DEF Drains
  <2>5. RetiredIsUnreferenced'
    BY <2>1, <2>2, <2>3, <1>a DEF RetiredIsUnreferenced
  <2>6. QED
    BY <2>1, <2>4, <2>5, <1>a, <1>b DEF OneKeyInv, OneWriteKey, WritersUseTheActiveKey, Up
<1>11. ASSUME NEW r \in Replicas, CountVersionWraps(r)
      PROVE  OneKeyInv'
  <2>1. /\ UNCHANGED <<registry, kek, active, sealed>>
        /\ \A q \in Replicas \ {r} : work'[q] = work[q]
        /\ work[r].pc = "count"
        /\ work'[r].pc # "idle" =>
             /\ work'[r].from = work[r].from /\ work'[r].table = work[r].table
             /\ Wrapped(work[r].table, work[r].from) = {}
    <3>1. Wrapped(work[r].table, work[r].from) # {} => work'[r].pc = "idle"
      BY <1>11, <1>a, IdleType DEF CountVersionWraps, TypeOK
    <3>2. QED
      BY <1>11, <3>1, <1>a DEF CountVersionWraps, TypeOK, Rewrap
  <2>2. Drains'
    <3>1. ASSUME NEW q \in Up'
          PROVE  /\ work'[q].pc # "idle" => work'[q].from # active'[q]
                 /\ work'[q].pc = "retire" => (Wrapped(work[q].table, work[q].from) = {})'
      <4>1. CASE q = r
        BY <4>1, <2>1, <1>a DEF Drains, Up, Wrapped
      <4>2. CASE q # r
        BY <4>2, <2>1, <1>a DEF Drains, Wrapped, Up
      <4>3. QED
        BY <4>1, <4>2
    <3>2. QED
      BY <3>1 DEF Drains
  <2>3. QED
    BY <2>1, <2>2, <1>a, <1>b DEF OneKeyInv, OneWriteKey, WritersUseTheActiveKey,
       RetiredIsUnreferenced, Up
<1>12. ASSUME NEW r \in Replicas, RetireRootKey(r)
      PROVE  OneKeyInv'
  <2>1. /\ UNCHANGED <<kek, active, sealed>> /\ work[r].pc = "retire"
        /\ work' = [work EXCEPT ![r] = Idle]
        /\ \/ UNCHANGED registry
           \/ /\ registry' = [registry EXCEPT ![work[r].from] = "retired"]
              /\ work[r].table = "secret" /\ registry[work[r].from] # "active"
    BY <1>12 DEF RetireRootKey
  <2>2. r \in Up /\ work[r].from \in Keys /\ Wrapped(work[r].table, work[r].from) = {}
    BY <2>1, <1>a, RewrapRuns DEF Drains
  <2>3. \A k \in Keys : registry'[k] = "active" <=> registry[k] = "active"
    BY <2>1, <2>2, <1>a DEF TypeOK
  <2>4. OneWriteKey'
    BY <2>1, <2>3, <1>a DEF OneWriteKey, WritersUseTheActiveKey, Up, TypeOK
  <2>5. Drains'
    <3>1. \A q \in Replicas : work'[q] = work[q] \/ work'[q].pc = "idle"
      BY <2>1, <1>a, IdleType DEF TypeOK
    <3>2. QED
      BY <3>1, <2>1, <1>a DEF Drains, Up, Wrapped
  <2>6. RetiredIsUnreferenced'
    BY <2>1, <2>2, <1>a DEF RetiredIsUnreferenced, Wrapped, TypeOK
  <2>7. QED
    BY <1>b, <2>4, <2>5, <2>6 DEF OneKeyInv
<1>13. QED
  BY <1>1, <1>2, <1>3, <1>4, <1>5, <1>6, <1>7, <1>8, <1>9, <1>10, <1>11, <1>12 DEF Next, RewrapStep

\* While all running processes write under one key, a retired key has no secret
\* version left: the COUNT cannot be overtaken by a write.
THEOREM RetiredKeysAreUnreferenced ==
  ASSUME ~Rolling
  PROVE  Spec => []RetiredIsUnreferenced
<1>1. Spec => []OneKeyInv
  BY OneKeyInit, OneKeyStep, PTL DEF Spec
<1>2. OneKeyInv => RetiredIsUnreferenced
  BY DEF OneKeyInv
<1>3. QED
  BY <1>1, <1>2, PTL

\* And a process that was given every key not retired reads every version.
THEOREM LoadedProcessesReadEverything ==
  ASSUME ~Rolling
  PROVE  Spec => []EveryVersionReadable
<1>1. Spec => []OneKeyInv
  BY OneKeyInit, OneKeyStep, PTL DEF Spec
<1>2. OneKeyInv => EveryVersionReadable
  <2>1. SUFFICES ASSUME OneKeyInv, NEW r \in Up,
                        {k \in Keys : registry[k] \in {"active", "retiring"}} \subseteq readable[r],
                        NEW x \in Rows, Table[x] = "secret", kek[x] # None
                 PROVE  wrap[x] \in readable[r] /\ wrap[x] = kek[x]
    BY DEF EveryVersionReadable
  <2>2. kek[x] \in Keys /\ registry[kek[x]] \in {"active", "retiring"}
    BY <2>1 DEF OneKeyInv, BaseInv, TypeOK, KnownKeys, RetiredIsUnreferenced
  <2>3. wrap[x] = kek[x]
    BY <2>1 DEF OneKeyInv, BaseInv, WrapMatches
  <2>4. QED
    BY <2>1, <2>2, <2>3
<1>3. QED
  BY <1>1, <1>2, PTL

-----------------------------------------------------------------------------
(* Transit keys.                                                           *)

\* What the rows of a version are: numbers of a key up to its current one, each drawn once.
VersionsApart ==
  /\ IsFiniteSet(versions)
  /\ \A r \in versions :
       /\ r.material <= Cardinality(versions)
       /\ r.key \in DOMAIN keys
       /\ r.version <= keys[r.key].current
  /\ \A r, s \in versions :
       r.material = s.material \/ (r.key = s.key /\ r.version = s.version) => r = s

FloorsReached == \A k \in DOMAIN keys : keys[k].floor <= keys[k].current

\* A token was sealed by a version that is still there.
TokensSealed ==
  \A t \in tokens :
    /\ t.key \in DOMAIN keys
    /\ keys[t.key].name = t.name
    /\ [key |-> t.key, version |-> t.version, material |-> t.material] \in versions

\* What a request in progress has read of its key.
ReadHolds(o) ==
  /\ o.pc # "idle" => o.key \in DOMAIN keys
  /\ o.pc = "rotate" =>
       /\ o.current = keys[o.key].current /\ o.current < MaxVersion
       /\ ~keys[o.key].deleted
  /\ o.pc = "update" =>
       /\ o.floor \in 1..MaxVersion
       /\ o.floor <= keys[o.key].current
       /\ ~o.asked /\ ~o.overtaken => o.floor = keys[o.key].floor

ReadsHold == \A c \in Clients : ReadHolds(op[c])

\* The row lock.
RotatesAlone ==
  \A c, d \in Clients :
    op[c].pc = "rotate" /\ op[d].pc = "rotate" /\ op[c].key = op[d].key => c = d

TransitInv ==
  TransitTypeOK /\ VersionsApart /\ FloorsReached /\ TokensSealed /\ ReadsHold /\ RotatesAlone

-----------------------------------------------------------------------------
(* The data types.                                                         *)

\* A client with nothing to do has its type.
LEMMA IdleIsOp == NoCall \in Op /\ \A o : o = NoCall => o.pc = "idle"
BY BoundAssumption DEF NoCall, Op

\* Version numbers and their bound.
LEMMA VersionBounds ==
  /\ 0 \in 0..MaxVersion
  /\ \A v \in 1..MaxVersion : v \in 0..MaxVersion
  /\ \A v \in 0..MaxVersion : v # 0 => v \in 1..MaxVersion
BY BoundAssumption

\* A request that begins.
LEMMA RequestBuilt ==
  ASSUME NEW p \in {"rotate", "update", "delete", "seal", "open"}, NEW k \in 1..MaxKeys,
         NEW v \in 0..MaxVersion, NEW f \in 0..MaxVersion, NEW a \in BOOLEAN,
         NEW b \in BOOLEAN, NEW t \in Token \cup {NoKey}
  PROVE  [pc |-> p, key |-> k, current |-> v, floor |-> f, active |-> a, asked |-> b,
          overtaken |-> FALSE, token |-> t] \in Op
BY DEF Op

\* Rewriting a row keeps the table a table.
LEMMA RowWritten ==
  ASSUME keys \in Seq(Key), NEW k \in DOMAIN keys, NEW x \in Key,
         keys' = [keys EXCEPT ![k] = x]
  PROVE  /\ keys' \in Seq(Key) /\ Len(keys') = Len(keys) /\ DOMAIN keys' = DOMAIN keys
         /\ keys'[k] = x
         /\ \A j \in DOMAIN keys : j # k => keys'[j] = keys[j]
OBVIOUS

\* What appending a row leaves alone.
LEMMA RowAdded ==
  ASSUME keys \in Seq(Key), NEW x \in Key, keys' = Append(keys, x)
  PROVE  /\ keys' \in Seq(Key) /\ Len(keys') = Len(keys) + 1
         /\ DOMAIN keys' = DOMAIN keys \cup {Len(keys) + 1}
         /\ Len(keys) + 1 \notin DOMAIN keys
         /\ keys'[Len(keys) + 1] = x
         /\ \A j \in DOMAIN keys : keys'[j] = keys[j]
OBVIOUS

\* A row of the table has its type.
LEMMA KeyTyped ==
  ASSUME TransitTypeOK, NEW k \in DOMAIN keys
  PROVE  /\ keys[k] \in Key /\ k \in 1..MaxKeys
         /\ keys[k].current \in 0..MaxVersion /\ keys[k].floor \in 1..MaxVersion
         /\ keys[k].name \in Names
<1>1. keys[k] \in Key
  BY DEF TransitTypeOK
<1>2. Len(keys) \in Nat /\ DOMAIN keys = 1..Len(keys) /\ Len(keys) <= MaxKeys
  BY DEF TransitTypeOK
<1>3. k \in 1..MaxKeys
  BY <1>2, BoundAssumption
<1>4. QED
  BY <1>1, <1>3 DEF Key

-----------------------------------------------------------------------------
(* Steps that only change what a request holds.                            *)

\* A step that only changes what one client has read.
LEMMA OpOnly ==
  ASSUME TransitInv, NEW c \in Clients, NEW o \in Op, UNCHANGED <<keys, versions, tokens>>,
         op' = [op EXCEPT ![c] = o], ReadHolds(o),
         o.pc = "rotate" => \A d \in Clients : ~(op[d].pc = "rotate" /\ op[d].key = o.key)
  PROVE  TransitInv'
<1>1. op \in [Clients -> Op]
  BY DEF TransitInv, TransitTypeOK
<1>2. op'[c] = o /\ \A d \in Clients : d # c => op'[d] = op[d]
  BY <1>1
<1>3. TransitTypeOK'
  BY <1>1 DEF TransitInv, TransitTypeOK
<1>4. VersionsApart' /\ FloorsReached' /\ TokensSealed'
  BY DEF TransitInv, VersionsApart, FloorsReached, TokensSealed
<1>5. ReadsHold'
  <2>1. SUFFICES ASSUME NEW d \in Clients PROVE ReadHolds(op[d])'
    BY DEF ReadsHold
  <2>2. PICK x : x = op'[d]
    OBVIOUS
  <2>3. ReadHolds(x)
    BY <1>2, <2>2 DEF TransitInv, ReadsHold
  <2>4. QED
    BY <2>2, <2>3 DEF ReadHolds
<1>6. RotatesAlone'
  BY <1>2 DEF TransitInv, RotatesAlone
<1>7. QED
  BY <1>3, <1>4, <1>5, <1>6 DEF TransitInv

\* A client that gives up or is done.
LEMMA BecomesIdle ==
  ASSUME TransitInv, NEW c \in Clients, UNCHANGED <<keys, versions, tokens>>,
         op' = [op EXCEPT ![c] = NoCall]
  PROVE  TransitInv'
<1>1. ReadHolds(NoCall) /\ NoCall.pc = "idle"
  BY DEF ReadHolds, NoCall
<1>2. QED
  BY <1>1, IdleIsOp, OpOnly

-----------------------------------------------------------------------------
(* A version that is added.                                                *)

\* A version under a number that was free leaves versions apart.
LEMMA VersionAdded ==
  ASSUME TransitInv, NEW k \in 1..MaxKeys, NEW v \in 1..MaxVersion, ~Taken(k, v),
         versions' = versions \cup {Sealed(k, v)},
         DOMAIN keys \subseteq DOMAIN keys', k \in DOMAIN keys',
         \A j \in DOMAIN keys : keys[j].current <= keys'[j].current,
         keys'[k].current \in Nat, \A j \in DOMAIN keys : keys'[j].current \in Nat,
         v <= keys'[k].current
  PROVE  VersionsApart' /\ versions' \subseteq KeyVersion
<1> DEFINE n == Cardinality(versions)
           new == Sealed(k, v)
<1>1. versions \subseteq KeyVersion /\ IsFiniteSet(versions) /\ n \in Nat
  BY FS_CardinalityType DEF TransitInv, TransitTypeOK, VersionsApart
<1>2. new = [key |-> k, version |-> v, material |-> n + 1]
  BY DEF Sealed
<1>3. \A r \in versions : r.material \in Nat /\ r.material <= n /\ r.version \in Nat
                          /\ r.key \in DOMAIN keys
  BY <1>1, BoundAssumption DEF TransitInv, VersionsApart, KeyVersion
<1>4. new \notin versions
  BY <1>1, <1>2, <1>3
<1>5. IsFiniteSet(versions') /\ Cardinality(versions') = n + 1
  BY <1>1, <1>4, FS_AddElement
<1>6. new \in KeyVersion
  BY <1>1, <1>2 DEF KeyVersion
<1>7. ASSUME NEW r \in versions'
      PROVE  /\ r.material <= n + 1 /\ r.key \in DOMAIN keys' /\ r.version <= keys'[r.key].current
  <2>1. CASE r = new
    BY <1>1, <1>2, <2>1
  <2>2. CASE r \in versions
    <3>1. r.version <= keys[r.key].current /\ r.key \in DOMAIN keys
      BY <2>2 DEF TransitInv, VersionsApart
    <3>2. keys[r.key].current \in Nat
      BY <3>1, KeyTyped, BoundAssumption DEF TransitInv
    <3>3. QED
      BY <1>1, <1>3, <2>2, <3>1, <3>2
  <2>3. QED
    BY <2>1, <2>2
<1>8. ASSUME NEW r \in versions', NEW s \in versions',
             r.material = s.material \/ (r.key = s.key /\ r.version = s.version)
      PROVE  r = s
  <2>1. CASE r \in versions /\ s \in versions
    BY <1>8, <2>1 DEF TransitInv, VersionsApart
  <2>2. CASE r = new /\ s \in versions
    BY <1>1, <1>2, <1>3, <1>8, <2>2 DEF Taken
  <2>3. CASE r \in versions /\ s = new
    BY <1>1, <1>2, <1>3, <1>8, <2>3 DEF Taken
  <2>4. QED
    BY <2>1, <2>2, <2>3
<1>9. QED
  BY <1>1, <1>5, <1>6, <1>7, <1>8 DEF VersionsApart

-----------------------------------------------------------------------------
(* What a request has read while the table changes under it.               *)

\* Rows may be added and a row's current version, floor and status may change: a request
\* that is not a rotation keeps its hold, an update if the floor stays or it is overtaken.
LEMMA HoldKept ==
  ASSUME NEW o \in Op, ReadHolds(o), TransitTypeOK,
         DOMAIN keys \subseteq DOMAIN keys',
         \A j \in DOMAIN keys : /\ keys'[j].current \in Nat
                               /\ keys[j].current <= keys'[j].current,
         o.pc = "rotate" => /\ keys'[o.key].current = keys[o.key].current
                            /\ keys'[o.key].deleted = keys[o.key].deleted,
         o.pc = "update" => keys'[o.key].floor = keys[o.key].floor \/ o.overtaken
  PROVE  ReadHolds(o)'
<1>1. o.pc # "idle" => o.key \in DOMAIN keys /\ o.key \in DOMAIN keys'
  BY DEF ReadHolds
<1>2. CASE o.pc = "rotate"
  BY <1>1, <1>2 DEF ReadHolds
<1>3. CASE o.pc = "update"
  <2>1. keys[o.key].current \in 0..MaxVersion
    BY <1>1, <1>3, KeyTyped
  <2>2. o.floor <= keys[o.key].current /\ o.floor \in 1..MaxVersion
    BY <1>3 DEF ReadHolds
  <2>3. o.floor <= keys'[o.key].current
    BY <1>1, <1>3, <2>1, <2>2, BoundAssumption
  <2>4. ~o.asked /\ ~o.overtaken => o.floor = keys'[o.key].floor
    BY <1>1, <1>3 DEF ReadHolds
  <2>5. QED
    BY <1>1, <1>3, <2>2, <2>3, <2>4 DEF ReadHolds
<1>4. QED
  BY <1>1, <1>2, <1>3 DEF ReadHolds

-----------------------------------------------------------------------------
(* The initial state and the steps.                                        *)

\* The invariant holds at the start.
LEMMA TransitStarts == TransitInit => TransitInv
<1> SUFFICES ASSUME TransitInit PROVE TransitInv
  OBVIOUS
<1>1. keys = <<>> /\ versions = {} /\ tokens = {} /\ op = [c \in Clients |-> NoCall]
  BY DEF TransitInit
<1>2. NoCall \in Op /\ NoCall.pc = "idle"
  BY IdleIsOp
<1>3. keys \in Seq(Key) /\ Len(keys) = 0 /\ DOMAIN keys = {}
  BY <1>1
<1>4. TransitTypeOK
  BY <1>1, <1>2, <1>3, BoundAssumption DEF TransitTypeOK
<1>5. VersionsApart /\ FloorsReached /\ TokensSealed
  BY <1>1, <1>3, FS_EmptySet DEF VersionsApart, FloorsReached, TokensSealed
<1>6. ReadsHold /\ RotatesAlone
  BY <1>1, <1>2 DEF ReadsHold, ReadHolds, RotatesAlone
<1>7. QED
  BY <1>4, <1>5, <1>6 DEF TransitInv

\* A key is created with its first version.
LEMMA CreateStep ==
  ASSUME TransitInv, NEW c \in Clients, NEW n \in Names, Create(c, n)
  PROVE  TransitInv'
<1> DEFINE x == [name |-> n, current |-> 1, floor |-> 1, active |-> TRUE, deleted |-> FALSE]
<1>1. PICK k : k = Len(keys) + 1
  OBVIOUS
<1>2. keys \in Seq(Key) /\ Len(keys) \in Nat /\ Len(keys) < MaxKeys /\ Live(n) = {}
      /\ DOMAIN keys = 1..Len(keys)
  BY DEF Create, TransitInv, TransitTypeOK
<1>3. x \in Key
  BY BoundAssumption DEF Key
<1>4. /\ keys' = Append(keys, x) /\ versions' = versions \cup {Sealed(k, 1)}
      /\ UNCHANGED <<tokens, op>>
  BY <1>1 DEF Create
<1>5. /\ keys' \in Seq(Key) /\ Len(keys') = k /\ DOMAIN keys' = DOMAIN keys \cup {k}
      /\ k \notin DOMAIN keys /\ keys'[k] = x
      /\ \A j \in DOMAIN keys : keys'[j] = keys[j]
  BY <1>1, <1>2, <1>3, <1>4, RowAdded
<1>6. k \in 1..MaxKeys /\ 1 \in 1..MaxVersion
  BY <1>1, <1>2, BoundAssumption
<1>7. \A j \in DOMAIN keys : keys[j].current \in Nat
  BY KeyTyped, BoundAssumption DEF TransitInv
<1>8. ~Taken(k, 1)
  BY <1>5 DEF Taken, TransitInv, VersionsApart
<1>9. VersionsApart' /\ versions' \subseteq KeyVersion
  BY <1>4, <1>5, <1>6, <1>7, <1>8, VersionAdded
<1>10. TransitTypeOK'
  <2>1. \A j \in DOMAIN keys : ~keys[j].deleted => keys[j].name # n
    BY <1>2 DEF Live
  <2>2. \A i, j \in DOMAIN keys' :
          ~keys'[i].deleted /\ ~keys'[j].deleted /\ keys'[i].name = keys'[j].name => i = j
    BY <1>5, <2>1 DEF TransitInv, TransitTypeOK
  <2>3. Len(keys') <= MaxKeys
    BY <1>5, <1>6
  <2>4. QED
    BY <1>4, <1>5, <1>9, <2>2, <2>3 DEF TransitInv, TransitTypeOK
<1>11. FloorsReached'
  BY <1>5 DEF TransitInv, FloorsReached
<1>12. TokensSealed'
  BY <1>4, <1>5 DEF TransitInv, TokensSealed
<1>13. ReadsHold'
  <2>1. SUFFICES ASSUME NEW d \in Clients PROVE ReadHolds(op[d])'
    BY DEF ReadsHold
  <2>2. PICK o : o = op[d]
    OBVIOUS
  <2>3. o \in Op /\ ReadHolds(o)
    BY <2>2 DEF TransitInv, TransitTypeOK, ReadsHold
  <2>4. o.pc # "idle" => o.key \in DOMAIN keys
    BY <2>3 DEF ReadHolds
  <2>5. ReadHolds(o)'
    BY <1>5, <1>7, <2>3, <2>4, HoldKept DEF TransitInv
  <2>6. QED
    BY <1>4, <2>2, <2>5
<1>14. RotatesAlone'
  BY <1>4 DEF TransitInv, RotatesAlone
<1>15. QED
  BY <1>9, <1>10, <1>11, <1>12, <1>13, <1>14 DEF TransitInv

\* A row is rewritten and nothing is sealed: what remains to be shown is what the requests
\* still hold.
LEMMA RowChanged ==
  ASSUME TransitInv, NEW k \in DOMAIN keys, NEW x \in Key,
         x.name = keys[k].name, x.current = keys[k].current, x.floor <= x.current,
         keys[k].deleted => x.deleted,
         keys' = [keys EXCEPT ![k] = x], UNCHANGED <<versions, tokens>>,
         op' \in [Clients -> Op], ReadsHold', RotatesAlone'
  PROVE  TransitInv'
<1>1. /\ keys' \in Seq(Key) /\ Len(keys') = Len(keys) /\ DOMAIN keys' = DOMAIN keys
      /\ keys'[k] = x
      /\ \A j \in DOMAIN keys : j # k => keys'[j] = keys[j]
  BY RowWritten DEF TransitInv, TransitTypeOK
<1>2. \A j \in DOMAIN keys : /\ keys'[j].name = keys[j].name
                             /\ keys'[j].current = keys[j].current
                             /\ keys[j].deleted => keys'[j].deleted
  BY <1>1
<1>3. TransitTypeOK'
  <2>1. \A i, j \in DOMAIN keys' :
          ~keys'[i].deleted /\ ~keys'[j].deleted /\ keys'[i].name = keys'[j].name => i = j
    BY <1>1, <1>2 DEF TransitInv, TransitTypeOK
  <2>2. QED
    BY <1>1, <2>1 DEF TransitInv, TransitTypeOK
<1>4. VersionsApart' /\ TokensSealed'
  BY <1>1, <1>2 DEF TransitInv, VersionsApart, TokensSealed
<1>5. FloorsReached'
  BY <1>1 DEF TransitInv, FloorsReached
<1>6. QED
  BY <1>3, <1>4, <1>5 DEF TransitInv

\* A key is deleted.
LEMMA DeleteStep ==
  ASSUME TransitInv, NEW c \in Clients, Delete(c)
  PROVE  TransitInv'
<1>1. PICK k : k = op[c].key
  OBVIOUS
<1>2. op \in [Clients -> Op] /\ keys \in Seq(Key) /\ k \in DOMAIN keys
  BY <1>1 DEF TransitInv, TransitTypeOK, Delete, ReadsHold, ReadHolds
<1>3. PICK x : x = [keys[k] EXCEPT !.deleted = TRUE]
  OBVIOUS
<1>4. keys[k] \in Key
  BY <1>2
<1>5. /\ x \in Key /\ x.name = keys[k].name /\ x.current = keys[k].current
      /\ x.floor = keys[k].floor /\ x.deleted
  BY <1>3, <1>4 DEF Key
<1>6. /\ keys' = [keys EXCEPT ![k] = x] /\ op' = [op EXCEPT ![c] = NoCall]
      /\ UNCHANGED <<versions, tokens>> /\ ~Locked(k)
  <2>1. keys' = [keys EXCEPT ![k].deleted = TRUE]
    BY <1>1 DEF Delete
  <2>2. QED
    BY <1>1, <1>3, <2>1 DEF Delete
<1>7. /\ DOMAIN keys' = DOMAIN keys /\ keys'[k] = x
      /\ \A j \in DOMAIN keys : j # k => keys'[j] = keys[j]
  BY <1>2, <1>5, <1>6, RowWritten
<1>8. op' \in [Clients -> Op] /\ op'[c] = NoCall /\ \A d \in Clients : d # c => op'[d] = op[d]
  BY <1>2, <1>6, IdleIsOp
<1>9. ReadsHold'
  <2>1. SUFFICES ASSUME NEW d \in Clients PROVE ReadHolds(op[d])'
    BY DEF ReadsHold
  <2>2. CASE d = c
    BY <1>8, <2>2, IdleIsOp DEF ReadHolds
  <2>3. CASE d # c
    <3>1. PICK o : o = op[d]
      OBVIOUS
    <3>2. o \in Op /\ ReadHolds(o)
      BY <3>1 DEF TransitInv, TransitTypeOK, ReadsHold
    <3>3. o.pc = "rotate" => o.key # k
      BY <1>6, <3>1 DEF Locked
    <3>4. \A j \in DOMAIN keys : /\ keys'[j].current = keys[j].current
                                 /\ keys'[j].floor = keys[j].floor
                                 /\ keys[j].current \in Nat
      BY <1>5, <1>7, KeyTyped, BoundAssumption DEF TransitInv
    <3>5. ReadHolds(o)'
      BY <1>7, <3>2, <3>3, <3>4, HoldKept DEF TransitInv, ReadHolds
    <3>6. QED
      BY <1>8, <2>3, <3>1, <3>5
  <2>4. QED
    BY <2>2, <2>3
<1>10. RotatesAlone'
  BY <1>8, IdleIsOp DEF TransitInv, RotatesAlone
<1>11. x.floor <= x.current
  BY <1>2, <1>5 DEF TransitInv, FloorsReached
<1>12. QED
  BY <1>2, <1>5, <1>6, <1>8, <1>9, <1>10, <1>11, RowChanged

\* An update writes the floor and the status it decided on.
LEMMA UpdateStep ==
  ASSUME TransitInv, NEW c \in Clients, Update(c)
  PROVE  TransitInv'
<1>1. PICK k, w : k = op[c].key /\ w = op[c]
  OBVIOUS
<1>2. /\ op \in [Clients -> Op] /\ keys \in Seq(Key) /\ k \in DOMAIN keys
      /\ w \in Op /\ w.floor \in 1..MaxVersion /\ w.floor <= keys[k].current
  BY <1>1 DEF TransitInv, TransitTypeOK, Update, ReadsHold, ReadHolds
<1>3. PICK x : x = IF keys[k].deleted THEN keys[k]
                   ELSE [keys[k] EXCEPT !.floor = w.floor, !.active = w.active]
  OBVIOUS
<1>4. keys[k] \in Key /\ w.active \in BOOLEAN
  BY <1>2 DEF Op
<1>5. /\ x \in Key /\ x.name = keys[k].name /\ x.current = keys[k].current
      /\ x.deleted = keys[k].deleted
      /\ x.floor = keys[k].floor \/ x.floor = w.floor
  BY <1>2, <1>3, <1>4 DEF Key
<1>6. keys' = [keys EXCEPT ![k] = x]
  <2>1. CASE keys[k].deleted
    <3>1. keys' = keys
      BY <1>1, <2>1 DEF Update
    <3>2. QED
      BY <1>2, <1>3, <2>1, <3>1
  <2>2. CASE ~keys[k].deleted
    <3>1. keys' = [keys EXCEPT ![k].floor = w.floor, ![k].active = w.active]
      BY <1>1, <2>2 DEF Update
    <3>2. [keys EXCEPT ![k].floor = w.floor, ![k].active = w.active]
            = [keys EXCEPT ![k] = [keys[k] EXCEPT !.floor = w.floor, !.active = w.active]]
      BY <1>2
    <3>3. QED
      BY <1>3, <2>2, <3>1, <3>2
  <2>3. QED
    BY <2>1, <2>2
<1>7. UNCHANGED <<versions, tokens>> /\ ~Locked(k)
  BY <1>1 DEF Update
<1>8. /\ DOMAIN keys' = DOMAIN keys /\ keys'[k] = x
      /\ \A j \in DOMAIN keys : j # k => keys'[j] = keys[j]
  BY <1>2, <1>5, <1>6, RowWritten
<1>9. \A d \in Clients :
        op'[d] = IF d = c THEN NoCall
                 ELSE [op[d] EXCEPT !.overtaken = @ \/ (op[d].pc = "update" /\ op[d].key = k)]
  BY <1>1 DEF Update
<1>10. op' \in [Clients -> Op]
  <2>1. op' = [d \in Clients |-> op'[d]]
    BY DEF Update
  <2>2. \A d \in Clients : op'[d] \in Op
    <3>1. \A o \in Op, b \in BOOLEAN : [o EXCEPT !.overtaken = b] \in Op
      BY DEF Op
    <3>2. \A d \in Clients :
            (op[d].overtaken \/ (op[d].pc = "update" /\ op[d].key = k)) \in BOOLEAN
      BY <1>2 DEF Op
    <3>3. ASSUME NEW d \in Clients PROVE op'[d] \in Op
      <4>1. CASE d = c
        BY <1>9, <4>1, IdleIsOp
      <4>2. CASE d # c
        <5>1. PICK o, b : o = op[d] /\ b = (o.overtaken \/ (o.pc = "update" /\ o.key = k))
          OBVIOUS
        <5>2. op'[d] = [o EXCEPT !.overtaken = b]
          BY <1>9, <4>2, <5>1
        <5>3. o \in Op /\ b \in BOOLEAN
          BY <1>2, <3>2, <5>1
        <5>4. QED
          BY <3>1, <5>2, <5>3
      <4>3. QED
        BY <4>1, <4>2
    <3>4. QED
      BY <3>3
  <2>3. QED
    BY <2>1, <2>2
<1>11. ASSUME NEW d \in Clients, d # c
       PROVE  /\ op'[d].pc = op[d].pc /\ op'[d].key = op[d].key
              /\ op'[d].current = op[d].current /\ op'[d].floor = op[d].floor
              /\ op'[d].asked = op[d].asked
              /\ op'[d].overtaken = (op[d].overtaken \/ (op[d].pc = "update" /\ op[d].key = k))
  <2>1. op[d] \in Op
    BY <1>2
  <2>2. QED
    BY <1>9, <1>11, <2>1 DEF Op
<1>12. ReadsHold'
  <2>1. SUFFICES ASSUME NEW d \in Clients PROVE ReadHolds(op[d])'
    BY DEF ReadsHold
  <2>2. CASE d = c
    BY <1>9, <2>2, IdleIsOp DEF ReadHolds
  <2>3. CASE d # c
    <3>1. PICK o, q : o = op[d] /\ q = op'[d]
      OBVIOUS
    <3>2. /\ q.pc = o.pc /\ q.key = o.key /\ q.current = o.current /\ q.floor = o.floor
          /\ q.asked = o.asked
          /\ q.overtaken = (o.overtaken \/ (o.pc = "update" /\ o.key = k))
      BY <1>11, <2>3, <3>1
    <3>3. q \in Op /\ ReadHolds(o)
      BY <1>10, <3>1 DEF TransitInv, ReadsHold
    <3>4. ReadHolds(q)
      BY <3>2, <3>3 DEF ReadHolds
    <3>5. o.pc = "rotate" => o.key # k
      BY <1>7, <3>1 DEF Locked
    <3>6. \A j \in DOMAIN keys : /\ keys'[j].current = keys[j].current
                                 /\ keys[j].current \in Nat
      BY <1>5, <1>8, KeyTyped, BoundAssumption DEF TransitInv
    <3>7. q.pc # "idle" => q.key \in DOMAIN keys
      BY <3>4 DEF ReadHolds
    <3>8. q.pc = "update" => keys'[q.key].floor = keys[q.key].floor \/ q.overtaken
      BY <1>8, <3>2, <3>7
    <3>9. ReadHolds(q)'
      BY <1>8, <3>2, <3>3, <3>4, <3>5, <3>6, <3>7, <3>8, HoldKept DEF TransitInv
    <3>10. QED
      BY <3>1, <3>9
  <2>4. QED
    BY <2>2, <2>3
<1>13. RotatesAlone'
  <2>1. op'[c].pc = "idle"
    BY <1>9, IdleIsOp
  <2>2. QED
    BY <1>11, <2>1 DEF TransitInv, RotatesAlone
<1>14. x.floor <= x.current
  BY <1>2, <1>5 DEF TransitInv, FloorsReached
<1>15. QED
  BY <1>2, <1>5, <1>6, <1>7, <1>10, <1>12, <1>13, <1>14, RowChanged

\* A rotation inserts its version and moves current_version.
LEMMA PublishStep ==
  ASSUME TransitInv, NEW c \in Clients, Publish(c)
  PROVE  TransitInv'
<1>1. PICK k, v : k = op[c].key /\ v = op[c].current + 1
  OBVIOUS
<1>2. /\ op \in [Clients -> Op] /\ keys \in Seq(Key) /\ k \in DOMAIN keys
      /\ op[c].current = keys[k].current /\ op[c].current < MaxVersion /\ ~keys[k].deleted
  BY <1>1 DEF TransitInv, TransitTypeOK, Publish, ReadsHold, ReadHolds
<1>3. /\ keys[k] \in Key /\ k \in 1..MaxKeys /\ keys[k].current \in 0..MaxVersion
      /\ keys[k].floor \in 1..MaxVersion
  BY <1>2, KeyTyped DEF TransitInv
<1>4. v = keys[k].current + 1 /\ v \in 1..MaxVersion
  BY <1>1, <1>2, <1>3, BoundAssumption
<1>5. CASE Taken(k, v) \/ ~(keys[k].current < v)
  <2>1. UNCHANGED <<keys, versions, tokens>> /\ op' = [op EXCEPT ![c] = NoCall]
    BY <1>1, <1>5 DEF Publish
  <2>2. QED
    BY <2>1, BecomesIdle
<1>6. CASE ~Taken(k, v) /\ keys[k].current < v
  <2>1. PICK x : x = [keys[k] EXCEPT !.current = v]
    OBVIOUS
  <2>2. /\ x \in Key /\ x.name = keys[k].name /\ x.current = v
        /\ x.floor = keys[k].floor /\ x.deleted = keys[k].deleted
    BY <1>3, <1>4, <2>1, BoundAssumption DEF Key
  <2>3. /\ versions' = versions \cup {Sealed(k, v)} /\ op' = [op EXCEPT ![c] = NoCall]
        /\ tokens' = tokens /\ keys' = [keys EXCEPT ![k].current = v]
    BY <1>1, <1>6 DEF Publish
  <2>4. keys' = [keys EXCEPT ![k] = x]
    BY <1>2, <2>1, <2>3
  <2>5. /\ keys' \in Seq(Key) /\ Len(keys') = Len(keys) /\ DOMAIN keys' = DOMAIN keys
        /\ keys'[k] = x
        /\ \A j \in DOMAIN keys : j # k => keys'[j] = keys[j]
    BY <1>2, <2>2, <2>4, RowWritten
  <2>6. \A j \in DOMAIN keys :
          /\ keys'[j].name = keys[j].name /\ keys'[j].deleted = keys[j].deleted
          /\ keys'[j].floor = keys[j].floor
          /\ keys'[j].current \in Nat /\ keys[j].current <= keys'[j].current
    <3>1. \A j \in DOMAIN keys : keys[j].current \in Nat
      BY KeyTyped, BoundAssumption DEF TransitInv
    <3>2. v \in Nat /\ keys[k].current <= v
      BY <1>3, <1>4, BoundAssumption
    <3>3. QED
      BY <2>2, <2>5, <3>1, <3>2
  <2>7. VersionsApart' /\ versions' \subseteq KeyVersion
    <3>1. k \in DOMAIN keys' /\ keys'[k].current \in Nat /\ v <= keys'[k].current
      BY <1>2, <1>4, <2>2, <2>5, <2>6
    <3>2. QED
      BY <1>3, <1>4, <1>6, <2>3, <2>5, <2>6, <3>1, VersionAdded
  <2>8. op' \in [Clients -> Op] /\ op'[c] = NoCall /\ \A d \in Clients : d # c => op'[d] = op[d]
    BY <1>2, <2>3, IdleIsOp
  <2>9. TransitTypeOK'
    <3>1. \A i, j \in DOMAIN keys' :
            ~keys'[i].deleted /\ ~keys'[j].deleted /\ keys'[i].name = keys'[j].name => i = j
      BY <2>5, <2>6 DEF TransitInv, TransitTypeOK
    <3>2. QED
      BY <2>3, <2>5, <2>7, <2>8, <3>1 DEF TransitInv, TransitTypeOK
  <2>10. FloorsReached'
    <3>1. SUFFICES ASSUME NEW j \in DOMAIN keys PROVE keys'[j].floor <= keys'[j].current
      BY <2>5 DEF FloorsReached
    <3>2. keys[j].floor <= keys[j].current
      BY DEF TransitInv, FloorsReached
    <3>3. keys[j].floor \in Nat /\ keys[j].current \in Nat
      BY KeyTyped, BoundAssumption DEF TransitInv
    <3>4. QED
      BY <2>6, <3>2, <3>3
  <2>11. TokensSealed'
    BY <2>3, <2>5, <2>6 DEF TransitInv, TokensSealed
  <2>12. ReadsHold'
    <3>1. SUFFICES ASSUME NEW d \in Clients PROVE ReadHolds(op[d])'
      BY DEF ReadsHold
    <3>2. CASE d = c
      BY <2>8, <3>2, IdleIsOp DEF ReadHolds
    <3>3. CASE d # c
      <4>1. PICK o : o = op[d]
        OBVIOUS
      <4>2. o \in Op /\ ReadHolds(o)
        BY <4>1 DEF TransitInv, TransitTypeOK, ReadsHold
      <4>3. o.pc = "rotate" => o.key \in DOMAIN keys /\ o.key # k
        BY <1>1, <3>3, <4>1, <4>2 DEF TransitInv, RotatesAlone, Publish, ReadHolds
      <4>4. o.pc = "update" => o.key \in DOMAIN keys
        BY <4>2 DEF ReadHolds
      <4>5. ReadHolds(o)'
        BY <2>5, <2>6, <4>2, <4>3, <4>4, HoldKept DEF TransitInv
      <4>6. QED
        BY <2>8, <3>3, <4>1, <4>5
    <3>4. QED
      BY <3>2, <3>3
  <2>13. RotatesAlone'
    BY <2>8, IdleIsOp DEF TransitInv, RotatesAlone
  <2>14. QED
    BY <2>7, <2>9, <2>10, <2>11, <2>12, <2>13 DEF TransitInv
<1>7. QED
  BY <1>5, <1>6

\* A token is issued.
LEMMA EncryptStep ==
  ASSUME TransitInv, NEW c \in Clients, Encrypt(c)
  PROVE  TransitInv'
<1>1. PICK r \in versions :
        tokens' = tokens \cup {[name |-> keys[r.key].name, version |-> r.version,
                                key |-> r.key, material |-> r.material]}
  BY DEF Encrypt
<1>2. PICK t : t = [name |-> keys[r.key].name, version |-> r.version,
                    key |-> r.key, material |-> r.material]
  OBVIOUS
<1>3. /\ op' = [op EXCEPT ![c] = NoCall] /\ UNCHANGED <<keys, versions>>
      /\ tokens' = tokens \cup {t}
  BY <1>1, <1>2 DEF Encrypt
<1>4. r \in KeyVersion /\ r.key \in DOMAIN keys
  BY DEF TransitInv, TransitTypeOK, VersionsApart
<1>5. t \in Token
  BY <1>2, <1>4, KeyTyped DEF TransitInv, Token, KeyVersion
<1>6. r = [key |-> t.key, version |-> t.version, material |-> t.material]
  BY <1>2, <1>4 DEF KeyVersion
<1>7. /\ op \in [Clients -> Op] /\ op' \in [Clients -> Op] /\ op'[c] = NoCall
      /\ \A d \in Clients : d # c => op'[d] = op[d]
  BY <1>3, IdleIsOp DEF TransitInv, TransitTypeOK
<1>8. TransitTypeOK'
  BY <1>3, <1>5, <1>7 DEF TransitInv, TransitTypeOK
<1>9. TokensSealed'
  <2>1. t.key \in DOMAIN keys /\ keys[t.key].name = t.name
    BY <1>2, <1>4
  <2>2. QED
    BY <1>3, <1>6, <2>1 DEF TransitInv, TokensSealed
<1>10. VersionsApart' /\ FloorsReached'
  BY <1>3 DEF TransitInv, VersionsApart, FloorsReached
<1>11. ReadsHold'
  <2>1. SUFFICES ASSUME NEW d \in Clients PROVE ReadHolds(op[d])'
    BY DEF ReadsHold
  <2>2. PICK o : o = op'[d]
    OBVIOUS
  <2>3. ReadHolds(o)
    BY <1>7, <2>2, IdleIsOp DEF TransitInv, ReadsHold, ReadHolds
  <2>4. QED
    BY <1>3, <2>2, <2>3 DEF ReadHolds
<1>12. RotatesAlone'
  BY <1>7, IdleIsOp DEF TransitInv, RotatesAlone
<1>13. QED
  BY <1>8, <1>9, <1>10, <1>11, <1>12 DEF TransitInv

\* A rotation locks the key.
LEMMA RotateRead ==
  ASSUME TransitInv, NEW c \in Clients, NEW n \in Names, Rotate(c, n)
  PROVE  TransitInv'
<1>1. PICK k \in Live(n) :
        /\ ~Locked(k) /\ keys[k].current < MaxVersion
        /\ op' = [op EXCEPT ![c] = [NoCall EXCEPT !.pc = "rotate", !.key = k,
                                               !.current = keys[k].current]]
        /\ UNCHANGED <<keys, versions, tokens>>
  BY DEF Rotate, Begin
<1>2. PICK o : o = [NoCall EXCEPT !.pc = "rotate", !.key = k, !.current = keys[k].current]
  OBVIOUS
<1>3. k \in DOMAIN keys /\ ~keys[k].deleted
  BY DEF Live
<1>4. o \in Op
  <2>1. o = [pc |-> "rotate", key |-> k, current |-> keys[k].current, floor |-> 0,
             active |-> FALSE, asked |-> FALSE, overtaken |-> FALSE, token |-> NoKey]
    BY <1>2 DEF NoCall
  <2>2. k \in 1..MaxKeys /\ keys[k].current \in 0..MaxVersion /\ 0 \in 0..MaxVersion
    BY <1>3, KeyTyped, BoundAssumption DEF TransitInv
  <2>3. QED
    BY <2>1, <2>2, RequestBuilt
<1>5. o.pc = "rotate" /\ o.key = k /\ o.current = keys[k].current
  BY <1>2 DEF NoCall
<1>6. ReadHolds(o)
  BY <1>1, <1>3, <1>5 DEF ReadHolds
<1>7. \A d \in Clients : ~(op[d].pc = "rotate" /\ op[d].key = o.key)
  BY <1>1, <1>5 DEF Locked
<1>8. op' = [op EXCEPT ![c] = o] /\ UNCHANGED <<keys, versions, tokens>>
  BY <1>1, <1>2
<1>9. QED
  BY <1>4, <1>6, <1>7, <1>8, OpOnly

\* An update reads the key.
LEMMA UpdateRead ==
  ASSUME TransitInv, NEW c \in Clients, NEW n \in Names, NEW floor \in 0..MaxVersion,
         NEW status \in {"", "active", "disabled"}, ReadForUpdate(c, n, floor, status)
  PROVE  TransitInv'
<1>1. PICK k \in Live(n) :
        /\ FloorAllowed(k, FloorToWrite(k, floor))
        /\ op' = [op EXCEPT ![c] =
              [NoCall EXCEPT !.pc = "update", !.key = k, !.asked = floor # 0,
                           !.floor = FloorToWrite(k, floor),
                           !.active = IF status = "" THEN keys[k].active ELSE status = "active"]]
        /\ UNCHANGED <<keys, versions, tokens>>
  BY DEF ReadForUpdate, Begin
<1>2. PICK f, a : /\ f = FloorToWrite(k, floor)
                  /\ a = IF status = "" THEN keys[k].active ELSE status = "active"
  OBVIOUS
<1>3. PICK o : o = [NoCall EXCEPT !.pc = "update", !.key = k, !.asked = floor # 0,
                                !.floor = f, !.active = a]
  OBVIOUS
<1>4. k \in DOMAIN keys /\ k \in 1..MaxKeys /\ keys[k] \in Key
      /\ keys[k].floor \in 1..MaxVersion
  BY KeyTyped DEF TransitInv, Live
<1>5. f \in 1..MaxVersion /\ f <= keys[k].current /\ (floor = 0 => f = keys[k].floor)
  <2>1. f = IF floor = 0 THEN keys[k].floor ELSE floor
    BY <1>2 DEF FloorToWrite
  <2>2. f <= keys[k].current
    BY <1>1, <1>2 DEF FloorAllowed
  <2>3. floor # 0 => floor \in 1..MaxVersion
    BY VersionBounds
  <2>4. QED
    BY <1>4, <2>1, <2>2, <2>3
<1>6. a \in BOOLEAN
  BY <1>2, <1>4 DEF Key
<1>7. o = [pc |-> "update", key |-> k, current |-> 0, floor |-> f, active |-> a,
           asked |-> floor # 0, overtaken |-> FALSE, token |-> NoKey]
  BY <1>3 DEF NoCall
<1>8. o \in Op
  <2>1. f \in 0..MaxVersion /\ 0 \in 0..MaxVersion /\ (floor # 0) \in BOOLEAN
    BY <1>5, VersionBounds
  <2>2. QED
    BY <1>4, <1>6, <1>7, <2>1, RequestBuilt
<1>9. ReadHolds(o)
  BY <1>4, <1>5, <1>7 DEF ReadHolds
<1>10. op' = [op EXCEPT ![c] = o] /\ o.pc # "rotate" /\ UNCHANGED <<keys, versions, tokens>>
  BY <1>1, <1>2, <1>3, <1>7
<1>11. QED
  BY <1>8, <1>9, <1>10, OpOnly

\* A deletion or an encryption finds the key by name.
LEMMA NameRead ==
  ASSUME TransitInv, NEW c \in Clients, NEW n \in Names, ReadForDelete(c, n) \/ ReadForEncrypt(c, n)
  PROVE  TransitInv'
<1>1. PICK k, o :
        /\ k \in Live(n)
        /\ \/ o = [NoCall EXCEPT !.pc = "delete", !.key = k]
           \/ o = [NoCall EXCEPT !.pc = "seal", !.key = k, !.current = keys[k].current]
        /\ op' = [op EXCEPT ![c] = o]
        /\ UNCHANGED <<keys, versions, tokens>>
  BY DEF ReadForDelete, ReadForEncrypt, Begin
<1>2. k \in DOMAIN keys
  BY <1>1 DEF Live
<1>3. o \in Op
  <2>1. PICK p, v : /\ \/ p = "delete" /\ v = 0
                       \/ p = "seal" /\ v = keys[k].current
                    /\ o = [pc |-> p, key |-> k, current |-> v, floor |-> 0,
                            active |-> FALSE, asked |-> FALSE, overtaken |-> FALSE,
                            token |-> NoKey]
    BY <1>1 DEF NoCall
  <2>2. k \in 1..MaxKeys /\ v \in 0..MaxVersion /\ 0 \in 0..MaxVersion
    BY <1>2, <2>1, KeyTyped, BoundAssumption DEF TransitInv
  <2>3. QED
    BY <2>1, <2>2, RequestBuilt
<1>4. o.pc \in {"delete", "seal"} /\ o.key = k
  BY <1>1 DEF NoCall
<1>5. ReadHolds(o)
  BY <1>2, <1>4 DEF ReadHolds
<1>6. QED
  BY <1>1, <1>3, <1>4, <1>5, OpOnly

\* A decryption finds the key of its token by name.
LEMMA TokenRead ==
  ASSUME TransitInv, NEW c \in Clients, NEW t \in tokens, ReadForDecrypt(c, t)
  PROVE  TransitInv'
<1>0. op \in [Clients -> Op] /\ tokens \subseteq Token
  BY DEF TransitInv, TransitTypeOK
<1>1. PICK k, o :
        /\ k \in Live(t.name)
        /\ o = [NoCall EXCEPT !.pc = "open", !.key = k, !.token = t]
        /\ op' = [op EXCEPT ![c] = o]
        /\ UNCHANGED <<keys, versions, tokens>>
  BY DEF ReadForDecrypt, Begin
<1>2. k \in DOMAIN keys
  BY <1>1 DEF Live
<1>3. o \in Op
  <2>1. o = [pc |-> "open", key |-> k, current |-> 0, floor |-> 0, active |-> FALSE,
             asked |-> FALSE, overtaken |-> FALSE, token |-> t]
    BY <1>1 DEF NoCall
  <2>2. k \in 1..MaxKeys /\ 0 \in 0..MaxVersion
    BY <1>2, KeyTyped, BoundAssumption DEF TransitInv
  <2>3. QED
    BY <1>0, <2>1, <2>2, RequestBuilt
<1>4. o.pc = "open" /\ o.key = k
  BY <1>1 DEF NoCall
<1>5. ReadHolds(o)
  BY <1>2, <1>4 DEF ReadHolds
<1>6. QED
  BY <1>1, <1>3, <1>4, <1>5, OpOnly

\* A token opens or is refused.
LEMMA DecryptStep ==
  ASSUME TransitInv, NEW c \in Clients, Decrypt(c)
  PROVE  TransitInv'
<1>0. op \in [Clients -> Op] /\ tokens \subseteq Token
  BY DEF TransitInv, TransitTypeOK
<1>1. PICK b : b = \E r \in versions : /\ r.key = op[c].key /\ r.version = op[c].token.version
                                       /\ r.material = op[c].token.material
  OBVIOUS
<1>2. /\ op' = [op EXCEPT ![c] = IF b THEN [@ EXCEPT !.pc = "opened"] ELSE NoCall]
      /\ op[c].pc = "open" /\ UNCHANGED <<keys, versions, tokens>>
  BY <1>1 DEF Decrypt
<1>3. CASE b
  <2>1. PICK w, o : w = op[c] /\ o = [w EXCEPT !.pc = "opened"]
    OBVIOUS
  <2>2. w \in Op /\ ReadHolds(w) /\ w.pc = "open"
    BY <1>0, <1>2, <2>1 DEF TransitInv, ReadsHold
  <2>3. o \in Op /\ o.pc = "opened" /\ o.key = w.key
    BY <2>1, <2>2 DEF Op
  <2>4. ReadHolds(o)
    BY <2>2, <2>3 DEF ReadHolds
  <2>5. op' = [op EXCEPT ![c] = o]
    BY <1>0, <1>2, <1>3, <2>1
  <2>6. QED
    BY <1>2, <2>3, <2>4, <2>5, OpOnly
<1>4. CASE ~b
  <2>1. op' = [op EXCEPT ![c] = NoCall]
    BY <1>2, <1>4
  <2>2. QED
    BY <1>2, <2>1, BecomesIdle
<1>5. QED
  BY <1>3, <1>4

\* Every action keeps the invariant.
LEMMA TransitStep == TransitInv /\ [TransitNext]_transitVars => TransitInv'
<1> SUFFICES ASSUME TransitInv, [TransitNext]_transitVars PROVE TransitInv'
  OBVIOUS
<1>1. UNCHANGED transitVars => TransitInv'
  BY DEF transitVars, TransitInv, TransitTypeOK, VersionsApart, FloorsReached, TokensSealed, ReadsHold,
         ReadHolds, RotatesAlone
<1>2. CASE TransitNext
  <2>1. PICK c \in Clients :
          \/ \E n \in Names :
               \/ Create(c, n) \/ Rotate(c, n) \/ ReadForDelete(c, n) \/ ReadForEncrypt(c, n)
               \/ NotFound(c, n)
               \/ \E floor \in 0..MaxVersion, status \in {"", "active", "disabled"} :
                    ReadForUpdate(c, n, floor, status)
          \/ Publish(c) \/ Update(c) \/ Delete(c) \/ Encrypt(c) \/ Decrypt(c) \/ Finish(c)
          \/ \E t \in tokens : ReadForDecrypt(c, t)
    BY <1>2 DEF TransitNext
  <2>2. CASE \E n \in Names : Create(c, n)
    BY <2>2, CreateStep
  <2>3. CASE Publish(c) \/ Update(c) \/ Delete(c) \/ Encrypt(c)
    BY <2>3, PublishStep, UpdateStep, DeleteStep, EncryptStep
  <2>4. CASE \E n \in Names : \/ Rotate(c, n) \/ ReadForDelete(c, n) \/ ReadForEncrypt(c, n)
                                \/ \E floor \in 0..MaxVersion, status \in {"", "active", "disabled"} :
                                     ReadForUpdate(c, n, floor, status)
    BY <2>4, RotateRead, NameRead, UpdateRead
  <2>5. CASE Decrypt(c) \/ \E t \in tokens : ReadForDecrypt(c, t)
    BY <2>5, DecryptStep, TokenRead
  <2>6. CASE Finish(c)
    BY <2>6, BecomesIdle DEF Finish
  <2>7. CASE \E n \in Names : NotFound(c, n)
    BY <1>1, <2>7 DEF NotFound
  <2>8. QED
    BY <2>1, <2>2, <2>3, <2>4, <2>5, <2>6, <2>7
<1>3. QED
  BY <1>1, <1>2

\* The invariant holds: of Transit as transit.go and the statements of transit.sql have it.
THEOREM TransitInvariance == TransitSpec => []TransitInv
BY TransitStarts, TransitStep, PTL DEF TransitSpec

-----------------------------------------------------------------------------
(* What the invariant says.                                                *)

\* Every variable has its type, and a name has at most one live key however creation,
\* deletion and re-creation interleave.
THEOREM TransitTypeCorrect == TransitSpec => []TransitTypeOK
<1>1. TransitInv => TransitTypeOK
  BY DEF TransitInv
<1>2. QED
  BY <1>1, TransitInvariance, PTL

\* An issued token of a key that is there opens exactly when the floor lets it, and one of
\* the current version always does; the token of a deleted key opens under no other key.
THEOREM TokensOpen == TransitSpec => []TokensKeepOpening
<1>1. TransitInv => TokensKeepOpening
  <2>1. SUFFICES ASSUME TransitInv, NEW t \in tokens
                 PROVE  /\ ~keys[t.key].deleted =>
                              (Opens(t) <=> keys[t.key].floor <= t.version)
                        /\ ~keys[t.key].deleted /\ t.version = keys[t.key].current => Opens(t)
                        /\ keys[t.key].deleted => ~Opens(t)
    BY DEF TokensKeepOpening
  <2>2. PICK s : s = [key |-> t.key, version |-> t.version, material |-> t.material]
    OBVIOUS
  <2>3. /\ s \in versions /\ t.key \in DOMAIN keys /\ keys[t.key].name = t.name
        /\ s.key = t.key /\ s.version = t.version /\ s.material = t.material
    BY <2>1, <2>2 DEF TransitInv, TokensSealed
  <2>4. keys[t.key].floor <= keys[t.key].current
    BY <2>1, <2>3 DEF TransitInv, FloorsReached
  <2>5. t.version \in 1..MaxVersion /\ keys[t.key].floor \in 1..MaxVersion
    BY <2>1, <2>3, KeyTyped DEF TransitInv, TransitTypeOK, Token
  <2>6. ASSUME NEW k \in Live(t.name), ~keys[t.key].deleted PROVE k = t.key
    BY <2>1, <2>3, <2>6 DEF TransitInv, TransitTypeOK, Live
  <2>7. ~keys[t.key].deleted => t.key \in Live(t.name)
    BY <2>3 DEF Live
  <2>8. \A k \in Live(t.name) :
          (\E r \in versions : r.key = k /\ r.version = t.version /\ r.material = t.material)
            => k = t.key /\ ~keys[k].deleted
    BY <2>1, <2>3 DEF TransitInv, VersionsApart, Live
  <2>9. QED
    BY <2>3, <2>4, <2>5, <2>6, <2>7, <2>8, BoundAssumption DEF Opens
<1>2. QED
  BY <1>1, TransitInvariance, PTL

\* A rotation that has read the key will not find its number taken, nor the key gone.
THEOREM RotationsApart == TransitSpec => []RotationsNumberApart
<1>1. TransitInv => RotationsNumberApart
  <2>1. SUFFICES ASSUME TransitInv, NEW c \in Clients, op[c].pc = "rotate"
                 PROVE  ~Taken(op[c].key, op[c].current + 1) /\ ~keys[op[c].key].deleted
    BY DEF RotationsNumberApart
  <2>2. PICK k : k = op[c].key
    OBVIOUS
  <2>3. k \in DOMAIN keys /\ op[c].current = keys[k].current /\ ~keys[k].deleted
    BY <2>1, <2>2 DEF TransitInv, ReadsHold, ReadHolds
  <2>4. keys[k].current \in 0..MaxVersion
    BY <2>1, <2>3, KeyTyped DEF TransitInv
  <2>5. \A r \in versions : r.key = k => r.version \in Nat /\ r.version <= keys[k].current
    BY <2>1, BoundAssumption DEF TransitInv, TransitTypeOK, VersionsApart, KeyVersion
  <2>6. ~Taken(k, keys[k].current + 1)
    BY <2>4, <2>5, BoundAssumption DEF Taken
  <2>7. QED
    BY <2>2, <2>3, <2>6
<1>2. QED
  BY <1>1, TransitInvariance, PTL

\* A floor comes down only on request, or by an update that another one has overtaken.
THEOREM FloorsFall == TransitSpec => FloorFallsOnRequest
<1> DEFINE Falls ==
      \A k \in DOMAIN keys :
        keys'[k].floor < keys[k].floor =>
          \E c \in Clients :
            op[c].pc = "update" /\ op[c].key = k /\ (op[c].asked \/ op[c].overtaken)
<1>1. ASSUME TransitInv, NEW c \in Clients, Update(c) PROVE Falls
  <2>1. SUFFICES ASSUME NEW j \in DOMAIN keys, keys'[j].floor < keys[j].floor
                 PROVE  op[c].pc = "update" /\ op[c].key = j /\ (op[c].asked \/ op[c].overtaken)
    OBVIOUS
  <2>2. keys[j] \in Key /\ keys[j].floor \in Nat /\ keys \in Seq(Key)
    BY <1>1, KeyTyped, BoundAssumption DEF TransitInv, TransitTypeOK
  <2>3. PICK k, w : k = op[c].key /\ w = op[c]
    OBVIOUS
  <2>4. w.pc = "update" /\ k \in DOMAIN keys /\ ReadHolds(w)
    BY <1>1, <2>3 DEF Update, TransitInv, ReadsHold, ReadHolds
  <2>5. keys' = IF keys[k].deleted THEN keys
                ELSE [keys EXCEPT ![k].floor = w.floor, ![k].active = w.active]
    BY <1>1, <2>3 DEF Update
  <2>6. ~keys[k].deleted
    BY <2>1, <2>2, <2>5
  <2>7. j = k
    BY <2>1, <2>2, <2>5, <2>6
  <2>8. keys'[j].floor = w.floor
    <3>1. keys[j] = keys[k] /\ keys[k] \in Key
      BY <2>2, <2>7
    <3>2. QED
      BY <2>2, <2>4, <2>5, <2>6, <2>7, <3>1 DEF Key
  <2>9. w.floor # keys[k].floor
    BY <2>1, <2>2, <2>7, <2>8
  <2>10. w.asked \/ w.overtaken
    BY <2>3, <2>4, <2>9 DEF ReadHolds
  <2>11. QED
    BY <2>3, <2>4, <2>7, <2>10
<1>2. ASSUME TransitInv, [TransitNext]_transitVars PROVE [Falls]_transitVars
  <2>1. CASE \E c \in Clients : Update(c)
    BY <1>1, <1>2, <2>1
  <2>2. CASE UNCHANGED transitVars
    BY <2>2
  <2>3. CASE TransitNext /\ ~\E c \in Clients : Update(c)
    <3>1. SUFFICES ASSUME NEW j \in DOMAIN keys
                   PROVE  keys'[j].floor = keys[j].floor /\ keys[j].floor \in Nat
      OBVIOUS
    <3>2. keys[j] \in Key /\ keys[j].floor \in Nat /\ keys \in Seq(Key) /\ Len(keys) \in Nat
          /\ j \in 1..Len(keys)
      BY <1>2, KeyTyped, BoundAssumption DEF TransitInv, TransitTypeOK
    <3>3. PICK c \in Clients :
            \/ keys' = keys \/ Publish(c) \/ Delete(c) \/ \E n \in Names : Create(c, n)
      BY <2>3 DEF TransitNext, Rotate, ReadForDelete, ReadForEncrypt, NotFound, transitVars, ReadForUpdate,
                  Encrypt, Decrypt, Finish, ReadForDecrypt
    <3>4. CASE Publish(c)
      <4>1. PICK k, v : keys' = keys \/ keys' = [keys EXCEPT ![k].current = v]
        BY <3>4 DEF Publish
      <4>2. CASE keys' = keys
        BY <3>2, <4>2
      <4>3. CASE keys' = [keys EXCEPT ![k].current = v]
        <5>1. CASE j = k
          <6>1. keys'[j] = [keys[j] EXCEPT !.current = v]
            BY <3>2, <4>3, <5>1
          <6>2. QED
            BY <3>2, <6>1 DEF Key
        <5>2. CASE j # k
          BY <3>2, <4>3, <5>2
        <5>3. QED
          BY <5>1, <5>2
      <4>4. QED
        BY <4>1, <4>2, <4>3
    <3>5. CASE Delete(c)
      <4>1. PICK k : keys' = [keys EXCEPT ![k].deleted = TRUE]
        BY <3>5 DEF Delete
      <4>2. QED
        BY <3>2, <4>1 DEF Key
    <3>6. CASE \E n \in Names : Create(c, n)
      <4>1. PICK x : keys' = Append(keys, x)
        BY <3>6 DEF Create
      <4>2. QED
        BY <3>2, <4>1
    <3>7. QED
      BY <3>2, <3>3, <3>4, <3>5, <3>6
  <2>4. QED
    BY <1>2, <2>1, <2>2, <2>3
<1>3. QED
  BY <1>2, TransitInvariance, PTL DEF TransitSpec, FloorFallsOnRequest

=============================================================================
