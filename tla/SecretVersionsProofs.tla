------------------------ MODULE SecretVersionsProofs ------------------------
(***************************************************************************)
(* Theorems about SecretVersions for every number of clients, secrets and  *)
(* versions, with the proofs TLAPS checks.                                 *)
(***************************************************************************)
EXTENDS SecretVersions, FiniteSetTheorems, TLAPS

-----------------------------------------------------------------------------
(* Typing of the pieces the actions are built from.                        *)

\* The idle call and a call that has just found a row are well-formed calls.
LEMMA CallTypes ==
  /\ Idle \in Op
  /\ \A k \in Kinds, s \in Secrets : Found(k, s) \in Op
BY DEF Idle, Op, Kinds, Found

\* A secret that does not exist yet is a well-formed row.
LEMMA NoRowType == NoRow \in SecretRow
BY DEF NoRow, SecretRow

\* The retention in force is a positive number.
LEMMA EffectiveKeepType ==
  ASSUME NEW k \in Nat
  PROVE  EffectiveKeep(k) \in Nat \ {0}
BY KeepAssumption DEF EffectiveKeep

\* Locking the row for a put leaves a well-formed call.
LEMMA LockForPutType ==
  ASSUME TypeOK, NEW c \in Clients, NEW a \in Addresses \cup {None}, NEW from \in Op,
         LockForPut(c, a, from)
  PROVE  op' \in [Clients -> Op]
<1>1. CASE \E s \in LiveAt(a) :
             op' = [op EXCEPT ![c] = [Found("put", s) EXCEPT
                      !.seen = secrets[s].current, !.origin = from.origin,
                      !.value = from.value]]
  <2>1. PICK s \in LiveAt(a) :
             op' = [op EXCEPT ![c] = [Found("put", s) EXCEPT
                      !.seen = secrets[s].current, !.origin = from.origin,
                      !.value = from.value]]
    BY <1>1
  <2>2. s \in Secrets /\ secrets[s].current \in Nat
    BY DEF LiveAt, TypeOK, SecretRow
  <2>3. [Found("put", s) EXCEPT !.seen = secrets[s].current, !.origin = from.origin,
                                !.value = from.value] \in Op
    BY <2>2 DEF Found, Idle, Op, Kinds
  <2> QED BY <2>1, <2>3 DEF TypeOK
<1>2. CASE op' = [op EXCEPT ![c] = [from EXCEPT !.kind = "put", !.addr = a,
                                                !.secret = None]]
  <2>1. [from EXCEPT !.kind = "put", !.addr = a, !.secret = None] \in Op
    BY DEF Op, Kinds
  <2> QED BY <1>2, <2>1 DEF TypeOK
<1> QED BY <1>1, <1>2 DEF LockForPut

\* A step that only records what a call has read keeps everything well-formed.
LEMMA ReadType ==
  ASSUME TypeOK, NEW c \in Clients, NEW o \in Op,
         op' = [op EXCEPT ![c] = o], UNCHANGED <<secrets, versions, now>>
  PROVE  TypeOK'
BY DEF TypeOK

\* A row may change its status and, with it, the dates of its window.
LEMMA StatusType ==
  ASSUME NEW r \in SecretRow, NEW d \in Int, NEW e \in Int,
         NEW x \in {"absent", "live", "deleted", "destroyed"}
  PROVE  [r EXCEPT !.status = x, !.destroyAfter = d, !.promised = e] \in SecretRow
BY DEF SecretRow

\* The live secret at an address is a secret with a well-formed row.
LEMMA LiveAtType ==
  ASSUME TypeOK, NEW a, NEW s \in LiveAt(a)
  PROVE  s \in Secrets /\ secrets[s].current \in Nat /\ secrets[s].keep \in Nat
BY DEF TypeOK, LiveAt, SecretRow

\* An edit of a live row's metadata that ends its call keeps the types.
LEMMA EditType ==
  ASSUME TypeOK, NEW c \in Clients, NEW s, NEW k \in Nat, NEW b \in BOOLEAN, Finish(c),
         secrets' = IF secrets[s].status = "live"
                    THEN [secrets EXCEPT ![s].keep = k, ![s].rotates = b] ELSE secrets,
         UNCHANGED <<versions, now>>
  PROVE  TypeOK'
<1>1. op' \in [Clients -> Op]
  BY CallTypes DEF Finish, TypeOK
<1>2. secrets' \in [Secrets -> SecretRow]
  <2> DEFINE row == [[secrets[s] EXCEPT !.keep = k] EXCEPT !.rotates = b]
  <2>1. CASE s \in Secrets /\ secrets[s].status = "live"
    <3>1. secrets[s] \in SecretRow
      BY <2>1 DEF TypeOK
    <3>2. row \in SecretRow
      BY <3>1 DEF SecretRow
    <3>3. secrets' = [secrets EXCEPT ![s] = row]
      BY <2>1, <3>1 DEF TypeOK
    <3> QED BY <3>2, <3>3 DEF TypeOK
  <2>2. CASE s \notin Secrets \/ secrets[s].status # "live"
    BY <2>2 DEF TypeOK
  <2> QED BY <2>1, <2>2
<1>3. \A t \in Secrets : /\ secrets'[t].status = secrets[t].status
                         /\ secrets'[t].destroyAfter = secrets[t].destroyAfter
  BY DEF TypeOK, SecretRow
<1> QED BY <1>1, <1>2, <1>3 DEF TypeOK

\* Every step keeps the tables and the calls well-formed.
LEMMA TypeStep == TypeOK /\ [Next]_vars => TypeOK'
<1> SUFFICES ASSUME TypeOK, [Next]_vars
             PROVE  TypeOK'
  OBVIOUS
<1>1. ASSUME NEW c \in Clients, NEW a \in Addresses, PutLock(c, a)
      PROVE  TypeOK'
  BY <1>1, CallTypes, LockForPutType DEF PutLock, TypeOK
<1>2. ASSUME NEW c \in Clients, NEW a \in Addresses, RotateFind(c, a)
      PROVE  TypeOK'
  <2>1. PICK s \in LiveAt(a) :
          op' = [op EXCEPT ![c] = [Idle EXCEPT !.kind = "rewrite", !.addr = a, !.origin = s]]
    BY <1>2 DEF RotateFind
  <2>2. s \in Secrets /\ secrets[s].current \in Nat /\ secrets[s].keep \in Nat
    BY LiveAtType
  <2>3. [Idle EXCEPT !.kind = "rewrite", !.addr = a, !.origin = s] \in Op
    BY <2>2 DEF Idle, Op, Kinds
  <2> QED BY <1>2, <2>1, <2>3, ReadType DEF RotateFind
<1>3. ASSUME NEW c \in Clients, NEW a \in Addresses, RollbackFind(c, a)
      PROVE  TypeOK'
  <2> PICK s \in LiveAt(a) : \E r \in Rows(s) :
          op' = [op EXCEPT ![c] = [Idle EXCEPT !.kind = "rewrite", !.addr = a,
                                               !.origin = s, !.value = r.value]]
    BY <1>3 DEF RollbackFind
  <2>1. PICK r \in Rows(s) :
          op' = [op EXCEPT ![c] = [Idle EXCEPT !.kind = "rewrite", !.addr = a,
                                               !.origin = s, !.value = r.value]]
    OBVIOUS
  <2>2. s \in Secrets /\ r.value \in Values
    BY LiveAtType DEF TypeOK, Rows, VersionRow
  <2>3. [Idle EXCEPT !.kind = "rewrite", !.addr = a, !.origin = s, !.value = r.value] \in Op
    BY <2>2 DEF Idle, Op, Kinds
  <2> QED BY <1>3, <2>1, <2>3, ReadType DEF RollbackFind
<1>4. ASSUME NEW c \in Clients, NEW a \in Addresses, GetRow(c, a)
      PROVE  TypeOK'
  <2>1. PICK s \in LiveAt(a) :
          op' = [op EXCEPT ![c] = [Found("get", s) EXCEPT !.seen = secrets[s].current]]
    BY <1>4 DEF GetRow
  <2>2. s \in Secrets /\ secrets[s].current \in Nat /\ secrets[s].keep \in Nat
    BY LiveAtType
  <2>3. [Found("get", s) EXCEPT !.seen = secrets[s].current] \in Op
    BY <2>2 DEF Found, Idle, Op, Kinds
  <2> QED BY <1>4, <2>1, <2>3, ReadType DEF GetRow
<1>5. ASSUME NEW c \in Clients, NEW a \in Addresses, NEW k \in Kinds, FindFor(k, c, a)
      PROVE  TypeOK'
  BY <1>5, CallTypes, LiveAtType, ReadType DEF FindFor
<1>6. ASSUME NEW c \in Clients, NEW a \in Addresses, FindPolicy(c, a)
      PROVE  TypeOK'
  <2>1. PICK s \in LiveAt(a) :
          op' = [op EXCEPT ![c] = [Found("policy", s) EXCEPT !.keep = secrets[s].keep]]
    BY <1>6 DEF FindPolicy
  <2>2. s \in Secrets /\ secrets[s].current \in Nat /\ secrets[s].keep \in Nat
    BY LiveAtType
  <2>3. [Found("policy", s) EXCEPT !.keep = secrets[s].keep] \in Op
    BY <2>2 DEF Found, Idle, Op, Kinds
  <2> QED BY <1>6, <2>1, <2>3, ReadType DEF FindPolicy
<1>7. ASSUME NEW c \in Clients, NEW a \in Addresses, PruneLock(c, a)
      PROVE  TypeOK'
  <2>1. PICK s \in LiveAt(a) :
          op' = [op EXCEPT ![c] = [Found("prune", s) EXCEPT
                   !.seen = secrets[s].current, !.keep = secrets[s].keep]]
    BY <1>7 DEF PruneLock
  <2>2. s \in Secrets /\ secrets[s].current \in Nat /\ secrets[s].keep \in Nat
    BY LiveAtType
  <2>3. [Found("prune", s) EXCEPT !.seen = secrets[s].current, !.keep = secrets[s].keep] \in Op
    BY <2>2 DEF Found, Idle, Op, Kinds
  <2> QED BY <1>7, <2>1, <2>3, ReadType DEF PruneLock
<1>8. ASSUME NEW c \in Clients, PutUnchanged(c)
      PROVE  TypeOK'
  BY <1>8, CallTypes DEF PutUnchanged, Finish, TypeOK
<1>9. ASSUME NEW c \in Clients, PutVersion(c)
      PROVE  TypeOK'
  <2>1. op[c].secret \in Secrets /\ NextVersion(c) \in Nat
    BY <1>9 DEF PutVersion, TypeOK, Op, NextVersion
  <2>2. op' \in [Clients -> Op] /\ now' \in Nat
    BY <1>9, CallTypes DEF PutVersion, Finish, TypeOK
  <2>3. ASSUME NEW v \in Values
        PROVE  Rows(op[c].secret)
                 \cup {[secret |-> op[c].secret, version |-> NextVersion(c), value |-> v]}
                 \subseteq VersionRow
    BY <2>1 DEF Rows, TypeOK, VersionRow
  <2>4. Incoming(c) \subseteq Values
    BY DEF Incoming, TypeOK, Op
  <2>5. versions' \subseteq VersionRow
    BY <1>9, <2>3, <2>4 DEF PutVersion, TypeOK
  <2>6. /\ secrets' \in [Secrets -> SecretRow]
        /\ \A s \in Secrets : secrets'[s].status # "deleted" => secrets'[s].destroyAfter = 0
    BY <1>9, <2>1 DEF PutVersion, Publish, TypeOK, SecretRow
  <2> QED BY <2>2, <2>5, <2>6 DEF TypeOK
<1>10. ASSUME NEW c \in Clients, PutCreate(c)
       PROVE  TypeOK'
  <2>1. op' \in [Clients -> Op] /\ now' \in Nat
    BY <1>10, CallTypes DEF PutCreate, Finish, TypeOK
  <2>2. CASE UNCHANGED <<secrets, versions>>
    BY <2>1, <2>2 DEF TypeOK
  <2>3. ASSUME NEW s \in Secrets, NEW v \in Incoming(c), NEW meta \in NewMeta(c),
               secrets' = [secrets EXCEPT ![s] =
                 [NoRow EXCEPT !.status = "live", !.addr = op[c].addr, !.current = 1,
                               !.keep = meta.keep, !.rotates = meta.rotates]],
               versions' = versions \cup {[secret |-> s, version |-> 1, value |-> v]}
        PROVE  TypeOK'
    <3>1. v \in Values
      BY DEF Incoming, TypeOK, Op
    <3>2. meta.keep \in Nat /\ meta.rotates \in BOOLEAN
      <4>1. CASE op[c].origin = None
        <5>1. meta \in [keep : KeepChoices, rotates : Policies]
          BY <4>1 DEF NewMeta
        <5> QED BY <5>1, KeepAssumption, PolicyAssumption
      <4>2. CASE op[c].origin # None
        <5>1. meta = [keep |-> 0, rotates |-> FALSE]
          BY <4>2 DEF NewMeta
        <5> QED BY <5>1
      <4> QED BY <4>1, <4>2
    <3>3. versions' \subseteq VersionRow
      BY <2>3, <3>1 DEF TypeOK, VersionRow
    <3>4. [NoRow EXCEPT !.status = "live", !.addr = op[c].addr, !.current = 1,
                        !.keep = meta.keep, !.rotates = meta.rotates] \in SecretRow
      <4>1. op[c].addr \in Addresses \cup {None}
        BY DEF TypeOK, Op
      <4> QED BY <3>2, <4>1, NoRowType DEF SecretRow
    <3>5. [NoRow EXCEPT !.status = "live", !.addr = op[c].addr, !.current = 1,
                        !.keep = meta.keep, !.rotates = meta.rotates].destroyAfter = 0
      BY DEF NoRow
    <3> QED BY <2>1, <2>3, <3>3, <3>4, <3>5 DEF TypeOK
  <2> QED BY <1>10, <2>2, <2>3 DEF PutCreate
<1>11. ASSUME NEW c \in Clients, RewriteLock(c)
       PROVE  TypeOK'
  <2>1. op[c] \in Op /\ op[c].addr \in Addresses \cup {None}
    BY DEF TypeOK, Op
  <2>2. op' \in [Clients -> Op]
    BY <1>11, <2>1, LockForPutType DEF RewriteLock
  <2> QED BY <1>11, <2>2 DEF RewriteLock, TypeOK
<1>12. ASSUME NEW c \in Clients, GetLatest(c)
       PROVE  TypeOK'
  <2>1. op[c] \in Op
    BY DEF TypeOK
  <2>2. CASE \E r \in Latest(op[c].secret) :
               op' = [op EXCEPT ![c].kind = "got", ![c].version = r.version]
    <3>1. PICK r \in Latest(op[c].secret) :
            op' = [op EXCEPT ![c].kind = "got", ![c].version = r.version]
      BY <2>2
    <3>2. r.version \in Nat
      BY DEF Latest, Newest, Rows, TypeOK, VersionRow
    <3>3. [op[c] EXCEPT !.kind = "got", !.version = r.version] \in Op
      BY <2>1, <3>2 DEF Op, Kinds
    <3>4. op' = [op EXCEPT ![c] = [op[c] EXCEPT !.kind = "got", !.version = r.version]]
      BY <3>1 DEF TypeOK, Op
    <3> QED BY <1>12, <3>3, <3>4, ReadType DEF GetLatest
  <2>3. CASE op' = [op EXCEPT ![c].kind = "missed"]
    <3>1. [op[c] EXCEPT !.kind = "missed"] \in Op
      BY <2>1 DEF Op, Kinds
    <3> QED BY <1>12, <2>3, <3>1, ReadType DEF GetLatest
  <2> QED BY <1>12, <2>2, <2>3 DEF GetLatest
<1>13. ASSUME NEW c \in Clients, GetReturn(c) \/ Abort(c)
       PROVE  TypeOK'
  BY <1>13, CallTypes DEF GetReturn, Abort, Finish, TypeOK
<1>14. ASSUME NEW c \in Clients, NEW k \in KeepChoices, NEW b \in Policies, UpdateMeta(c, k, b)
       PROVE  TypeOK'
  <2>1. k \in Nat /\ b \in BOOLEAN
    BY KeepAssumption, PolicyAssumption
  <2> QED
    BY <1>14, <2>1, EditType DEF UpdateMeta
<1>15. ASSUME NEW c \in Clients, NEW b \in Policies, SetRotationPolicy(c, b)
       PROVE  TypeOK'
  <2>1. op[c].keep \in Nat
    BY DEF TypeOK, Op
  <2>2. b \in BOOLEAN
    BY PolicyAssumption
  <2> QED
    BY <1>15, <2>1, <2>2, EditType DEF SetRotationPolicy
<1>16. ASSUME NEW c \in Clients, NEW w \in Windows, SoftDelete(c, w)
       PROVE  TypeOK'
  <2>1. DestroyAfter(c, w) \in Int /\ now + WindowOf(w) \in Int
    BY ClockAssumption DEF DestroyAfter, WindowOf, TypeOK
  <2> DEFINE s == op[c].secret
             row == [secrets[s] EXCEPT !.status = "deleted",
                                       !.destroyAfter = DestroyAfter(c, w),
                                       !.promised = now + WindowOf(w)]
  <2>2. op' \in [Clients -> Op] /\ UNCHANGED <<versions, now>>
    BY <1>16, CallTypes DEF SoftDelete, Finish, TypeOK
  <2>3. CASE s \in Secrets /\ secrets[s].status = "live"
    <3>1. secrets[s] \in SecretRow
      BY <2>3 DEF TypeOK
    <3>2. row \in SecretRow /\ row.status = "deleted"
      BY <2>1, <3>1 DEF SecretRow
    <3>3. secrets' = [secrets EXCEPT ![s] = row]
      BY <1>16, <2>3, <3>1 DEF SoftDelete, TypeOK, SecretRow
    <3>4. secrets' \in [Secrets -> SecretRow]
      BY <3>2, <3>3 DEF TypeOK
    <3>5. \A t \in Secrets : secrets'[t].status # "deleted" => secrets'[t].destroyAfter = 0
      BY <3>2, <3>3 DEF TypeOK
    <3> QED BY <2>2, <3>4, <3>5 DEF TypeOK
  <2>4. CASE ~(s \in Secrets /\ secrets[s].status = "live")
    <3>1. secrets' = secrets
      BY <1>16, <2>4 DEF SoftDelete, TypeOK
    <3> QED BY <2>2, <3>1 DEF TypeOK
  <2> QED BY <2>3, <2>4
<1>17. ASSUME NEW c \in Clients, HardDelete(c)
       PROVE  TypeOK'
  <2>1. op' \in [Clients -> Op] /\ now' \in Nat
    BY <1>17, CallTypes DEF HardDelete, Finish, TypeOK
  <2>2. CASE UNCHANGED <<secrets, versions>>
    BY <2>1, <2>2 DEF TypeOK
  <2>3. CASE /\ secrets' = [secrets EXCEPT ![op[c].secret] =
                              [NoRow EXCEPT !.status = "destroyed"]]
             /\ versions' = versions \ Rows(op[c].secret)
    <3>1. [NoRow EXCEPT !.status = "destroyed"] \in SecretRow
      BY NoRowType DEF SecretRow
    <3>2. [NoRow EXCEPT !.status = "destroyed"].destroyAfter = 0
      BY DEF NoRow
    <3> QED BY <2>1, <2>3, <3>1, <3>2 DEF TypeOK
  <2> QED BY <1>17, <2>2, <2>3 DEF HardDelete
<1>18. ASSUME NEW c \in Clients, Prune(c)
       PROVE  TypeOK'
  BY <1>18, CallTypes DEF Prune, Finish, TypeOK
<1>19. ASSUME NEW c \in Clients, NEW s \in Secrets, DestroyCheck(c, s)
       PROVE  TypeOK'
  BY <1>19, CallTypes, ReadType DEF DestroyCheck, Kinds
<1>20. ASSUME NEW s \in Secrets, Restore(s)
       PROVE  TypeOK'
  <2>1. secrets' \in [Secrets -> SecretRow]
    <3>1. [secrets[s] EXCEPT !.status = "live", !.destroyAfter = 0, !.promised = 0]
            \in SecretRow
      <4>1. secrets[s] \in SecretRow
        BY DEF TypeOK
      <4>2. 0 \in Int /\ "live" \in {"absent", "live", "deleted", "destroyed"}
        OBVIOUS
      <4> QED BY <4>1, <4>2, StatusType, Zenon
    <3>2. secrets' = [secrets EXCEPT ![s] =
                        [secrets[s] EXCEPT !.status = "live", !.destroyAfter = 0,
                                           !.promised = 0]]
      BY <1>20 DEF Restore, TypeOK, SecretRow
    <3> QED BY <3>1, <3>2 DEF TypeOK
  <2>2. \A t \in Secrets : secrets'[t].status # "deleted" => secrets'[t].destroyAfter = 0
    BY <1>20 DEF Restore, TypeOK, SecretRow
  <2> QED BY <1>20, <2>1, <2>2 DEF Restore, TypeOK
<1>21. CASE Tick
  BY <1>21 DEF Tick, TypeOK
<1>22. CASE UNCHANGED vars
  BY <1>22 DEF vars, TypeOK
<1> QED
  BY <1>1, <1>2, <1>3, <1>4, <1>5, <1>6, <1>7, <1>8, <1>9, <1>10, <1>11, <1>12,
     <1>13, <1>14, <1>15, <1>16, <1>17, <1>18, <1>19, <1>20, <1>21, <1>22
     DEF Next, Begin, End, Kinds

\* Type correctness: the tables keep the schema's shape in every reachable state.
THEOREM TypeCorrect == Spec => []TypeOK
<1>1. Init => TypeOK
  BY CallTypes, NoRowType DEF Init, TypeOK, NoRow, VersionRow
<1> QED BY <1>1, TypeStep, PTL DEF Spec

-----------------------------------------------------------------------------
(* Row locks.                                                              *)

\* Two calls never hold the row lock of one secret.
LockExclusive ==
  \A c, d \in Clients :
    op[c].secret # None /\ Holds(c, op[c].secret) /\ Holds(d, op[c].secret) => c = d

LockInv == TypeOK /\ LockExclusive /\ LockedReadsAreFresh

\* The locks of the other calls, and what they read, survive a step that leaves
\* the secrets alone and a call that ends it without a lock.
LEMMA UnlockedStep ==
  ASSUME LockInv, NEW c \in Clients, NEW o \in Op, o.kind \notin {"put", "prune"},
         op' = [op EXCEPT ![c] = o], UNCHANGED secrets
  PROVE  LockExclusive' /\ LockedReadsAreFresh'
BY DEF LockInv, TypeOK, LockExclusive, LockedReadsAreFresh, Holds

\* They survive a call that writes one row and ends, if no other call holds the
\* lock of that row.
LEMMA WriteStep ==
  ASSUME LockInv, NEW c \in Clients, NEW s \in Secrets, Finish(c),
         \A d \in Clients \ {c} : ~Holds(d, s),
         \A t \in Secrets \ {s} : secrets'[t] = secrets[t]
  PROVE  LockExclusive' /\ LockedReadsAreFresh'
<1>1. op' = [op EXCEPT ![c] = Idle] /\ Idle.kind = "idle" /\ op \in [Clients -> Op]
  BY DEF Finish, Idle, LockInv, TypeOK
<1>2. LockExclusive'
  BY <1>1 DEF LockInv, LockExclusive, Holds
<1>3. ASSUME NEW d \in Clients, op'[d].kind \in {"put", "prune"}, op'[d].secret # None
      PROVE  /\ secrets'[op'[d].secret].status = "live"
             /\ secrets'[op'[d].secret].current = op'[d].seen
             /\ op'[d].kind = "prune" => secrets'[op'[d].secret].keep = op'[d].keep
  <2>1. d # c /\ op'[d] = op[d]
    BY <1>1, <1>3
  <2>2. op[d].secret \in Secrets
    BY <1>1, <1>3, <2>1 DEF Op
  <2>3. op[d].secret # s
    BY <1>3, <2>1 DEF Holds
  <2> QED BY <1>3, <2>1, <2>2, <2>3 DEF LockInv, LockedReadsAreFresh, Holds
<1> QED BY <1>2, <1>3 DEF LockedReadsAreFresh, Holds

\* Taking the lock of a live row that nobody holds, and remembering what the row
\* says, keeps both.
LEMMA AcquireStep ==
  ASSUME LockInv, NEW c \in Clients, NEW s \in Secrets, NEW o \in Op, LockFree(s),
         o.secret = s, secrets[s].status = "live", o.seen = secrets[s].current,
         o.kind \in {"put", "prune"}, o.kind = "prune" => o.keep = secrets[s].keep,
         op' = [op EXCEPT ![c] = o], UNCHANGED secrets
  PROVE  LockExclusive' /\ LockedReadsAreFresh'
<1>1. op \in [Clients -> Op]
  BY DEF LockInv, TypeOK
<1>2. LockExclusive'
  BY <1>1 DEF LockInv, LockExclusive, Holds, LockFree
<1>3. LockedReadsAreFresh'
  BY <1>1 DEF LockInv, LockedReadsAreFresh, Holds
<1> QED BY <1>2, <1>3

\* Neither way of starting a put disturbs the locks.
LEMMA LockForPutLocks ==
  ASSUME LockInv, NEW c \in Clients, NEW a \in Addresses \cup {None}, NEW from \in Op,
         LockForPut(c, a, from), UNCHANGED secrets
  PROVE  LockExclusive' /\ LockedReadsAreFresh'
<1>0. TypeOK
  BY DEF LockInv
<1>1. ASSUME NEW s \in LiveAt(a), LockFree(s),
             op' = [op EXCEPT ![c] = [Found("put", s) EXCEPT
                      !.seen = secrets[s].current, !.origin = from.origin,
                      !.value = from.value]]
      PROVE  LockExclusive' /\ LockedReadsAreFresh'
  <2> DEFINE o == [Found("put", s) EXCEPT
                     !.seen = secrets[s].current, !.origin = from.origin,
                     !.value = from.value]
  <2>1. s \in Secrets /\ secrets[s].current \in Nat /\ secrets[s].status = "live"
    BY <1>0, LiveAtType DEF LiveAt
  <2>2. o \in Op /\ o.secret = s /\ o.seen = secrets[s].current /\ o.kind = "put"
    BY <2>1 DEF Found, Idle, Op, Kinds
  <2>3. op' = [op EXCEPT ![c] = o]
    BY <1>1
  <2> QED BY <1>1, <2>1, <2>2, <2>3, AcquireStep
<1>2. CASE op' = [op EXCEPT ![c] = [from EXCEPT !.kind = "put", !.addr = a,
                                                !.secret = None]]
  <2>1. op'[c].secret = None /\ \A d \in Clients \ {c} : op'[d] = op[d]
    BY <1>0, <1>2 DEF TypeOK, Op
  <2> QED
    BY <2>1, NoneAssumption DEF LockInv, LockExclusive, LockedReadsAreFresh, Holds
<1> QED BY <1>1, <1>2 DEF LockForPut

\* Every step keeps the row locks exclusive and what was read under them fresh.
LEMMA LockStep == LockInv /\ [Next]_vars => LockExclusive' /\ LockedReadsAreFresh'
<1> DEFINE Locks == LockExclusive /\ LockedReadsAreFresh
<1> SUFFICES ASSUME LockInv, [Next]_vars
             PROVE  Locks'
  OBVIOUS
<1>0. TypeOK /\ Idle \in Op /\ Idle.kind = "idle"
  BY CallTypes DEF LockInv, Idle
<1>1. ASSUME NEW c \in Clients, NEW a \in Addresses, PutLock(c, a)
      PROVE  Locks'
  BY <1>0, <1>1, LockForPutLocks DEF PutLock
<1>2. ASSUME NEW c \in Clients, NEW a \in Addresses,
             \/ RotateFind(c, a) \/ RollbackFind(c, a) \/ GetRow(c, a) \/ FindPolicy(c, a)
             \/ \E k \in {"meta", "edit", "delete"} : FindFor(k, c, a)
      PROVE  Locks'
  <2>1. UNCHANGED secrets
    BY <1>2 DEF RotateFind, RollbackFind, GetRow, FindPolicy, FindFor
  <2>2. \A d \in Clients \ {c} : op'[d] = op[d]
    BY <1>0, <1>2 DEF RotateFind, RollbackFind, GetRow, FindPolicy, FindFor, TypeOK
  <2>3. op'[c].kind \notin {"put", "prune"}
    BY <1>0, <1>2
       DEF RotateFind, RollbackFind, GetRow, FindPolicy, FindFor, Found, Idle, TypeOK
  <2> QED
    BY <1>0, <2>1, <2>2, <2>3 DEF LockInv, LockExclusive, LockedReadsAreFresh, Holds
<1>3. ASSUME NEW c \in Clients, NEW a \in Addresses, PruneLock(c, a)
      PROVE  Locks'
  <2>1. PICK s \in LiveAt(a) :
          /\ LockFree(s)
          /\ op' = [op EXCEPT ![c] = [Found("prune", s) EXCEPT
                      !.seen = secrets[s].current, !.keep = secrets[s].keep]]
    BY <1>3 DEF PruneLock
  <2> DEFINE o == [Found("prune", s) EXCEPT
                     !.seen = secrets[s].current, !.keep = secrets[s].keep]
  <2>2. /\ s \in Secrets /\ secrets[s].status = "live"
        /\ secrets[s].current \in Nat /\ secrets[s].keep \in Nat
    BY <1>0, LiveAtType DEF LiveAt
  <2>3. /\ o \in Op /\ o.kind = "prune" /\ o.secret = s
        /\ o.seen = secrets[s].current /\ o.keep = secrets[s].keep
    BY <2>2 DEF Found, Idle, Op, Kinds
  <2> HIDE DEF o
  <2> QED BY <1>3, <2>1, <2>2, <2>3, AcquireStep DEF PruneLock, o
<1>4. ASSUME NEW c \in Clients,
             PutUnchanged(c) \/ GetReturn(c) \/ Abort(c) \/ Prune(c)
      PROVE  Locks'
  BY <1>0, <1>4, UnlockedStep DEF PutUnchanged, GetReturn, Abort, Prune, Finish
<1>5. ASSUME NEW c \in Clients, PutVersion(c)
      PROVE  Locks'
  <2>1. op[c].secret \in Secrets /\ op[c].kind = "put" /\ Finish(c)
    BY <1>0, <1>5 DEF PutVersion, TypeOK, Op
  <2>2. \A d \in Clients \ {c} : ~Holds(d, op[c].secret)
    BY <2>1, NoneAssumption DEF LockInv, LockExclusive, Holds
  <2>3. \A t \in Secrets \ {op[c].secret} : secrets'[t] = secrets[t]
    BY <1>0, <1>5 DEF PutVersion, Publish, TypeOK
  <2> QED BY <2>1, <2>2, <2>3, WriteStep
<1>6. ASSUME NEW c \in Clients, PutCreate(c)
      PROVE  Locks'
  <2>1. CASE UNCHANGED secrets
    BY <1>0, <1>6, <2>1, UnlockedStep DEF PutCreate, Finish
  <2>2. CASE secrets' # secrets
    <3>1. PICK s \in Secrets :
            /\ secrets[s].status = "absent"
            /\ \A t \in Secrets \ {s} : secrets'[t] = secrets[t]
      BY <1>0, <1>6, <2>2 DEF PutCreate, TypeOK
    <3>2. \A d \in Clients : ~Holds(d, s)
      BY <3>1, NoneAssumption DEF LockInv, LockedReadsAreFresh, Holds
    <3> QED BY <1>6, <3>1, <3>2, WriteStep DEF PutCreate
  <2> QED BY <2>1, <2>2
<1>7. ASSUME NEW c \in Clients, RewriteLock(c)
      PROVE  Locks'
  <2>1. op[c] \in Op /\ op[c].addr \in Addresses \cup {None}
    BY <1>0 DEF TypeOK, Op
  <2> QED BY <1>7, <2>1, LockForPutLocks DEF RewriteLock
<1>8. ASSUME NEW c \in Clients, GetLatest(c)
      PROVE  Locks'
  <2>1. /\ UNCHANGED secrets
        /\ op'[c].kind \notin {"put", "prune"}
        /\ \A d \in Clients \ {c} : op'[d] = op[d]
    BY <1>0, <1>8 DEF GetLatest, TypeOK, Op
  <2> QED BY <2>1 DEF LockInv, LockExclusive, LockedReadsAreFresh, Holds
<1>9. ASSUME NEW c \in Clients,
             \/ \E k \in KeepChoices, b \in Policies : UpdateMeta(c, k, b)
             \/ \E b \in Policies : SetRotationPolicy(c, b)
             \/ \E w \in Windows : SoftDelete(c, w)
             \/ HardDelete(c)
      PROVE  Locks'
  <2>1. LockFree(op[c].secret) /\ Finish(c)
    BY <1>9 DEF UpdateMeta, SetRotationPolicy, SoftDelete, HardDelete
  <2>2. \A t \in Secrets \ {op[c].secret} : secrets'[t] = secrets[t]
    BY <1>0, <1>9 DEF UpdateMeta, SetRotationPolicy, SoftDelete, HardDelete, TypeOK
  <2>3. CASE op[c].secret \in Secrets
    BY <2>1, <2>2, <2>3, WriteStep DEF LockFree
  <2>4. CASE op[c].secret = None
    <3>1. UNCHANGED secrets
      <4>1. \A t \in Secrets : secrets'[t] = secrets[t]
        BY <2>2, <2>4, NoneAssumption
      <4>2. secrets \in [Secrets -> SecretRow] /\ secrets' \in [Secrets -> SecretRow]
        BY <1>0, TypeStep DEF TypeOK
      <4> QED BY <4>1, <4>2
    <3> QED BY <1>0, <2>1, <3>1, UnlockedStep DEF Finish
  <2> QED BY <1>0, <2>3, <2>4 DEF TypeOK, Op
<1>10. ASSUME NEW c \in Clients, NEW s \in Secrets, DestroyCheck(c, s)
       PROVE  Locks'
  <2>1. Found("destroy", s) \in Op /\ Found("destroy", s).kind = "destroy"
    BY CallTypes DEF Found, Idle, Kinds
  <2> QED BY <1>10, <2>1, UnlockedStep DEF DestroyCheck
<1>11. ASSUME NEW s \in Secrets, Restore(s)
       PROVE  Locks'
  <2>1. UNCHANGED op /\ LockFree(s) /\ \A t \in Secrets \ {s} : secrets'[t] = secrets[t]
    BY <1>0, <1>11 DEF Restore, TypeOK
  <2>2. \A d \in Clients : op[d].secret \in Secrets \cup {None}
    BY <1>0 DEF TypeOK, Op
  <2> QED
    BY <2>1, <2>2 DEF LockInv, LockExclusive, LockedReadsAreFresh, Holds, LockFree
<1>12. CASE Tick \/ UNCHANGED vars
  BY <1>12 DEF Tick, vars, LockInv, LockExclusive, LockedReadsAreFresh, Holds
<1> QED
  BY <1>1, <1>2, <1>3, <1>4, <1>5, <1>6, <1>7, <1>8, <1>9, <1>10, <1>11, <1>12
     DEF Next, Begin, End

\* A writer commits what it decided under the lock: the version number it read is
\* still current and its secret still live, in every reachable state.
THEOREM LockedReadsFresh == Spec => []LockedReadsAreFresh
<1>1. Init => LockInv
  BY CallTypes, NoRowType
     DEF Init, TypeOK, NoRow, VersionRow, LockInv, LockExclusive, LockedReadsAreFresh,
         Holds, Idle
<1>2. LockInv /\ [Next]_vars => LockInv'
  BY TypeStep, LockStep DEF LockInv
<1>3. LockInv => LockedReadsAreFresh
  BY DEF LockInv
<1> QED BY <1>1, <1>2, <1>3, PTL DEF Spec

-----------------------------------------------------------------------------
(* The two tables.                                                         *)

\* A step that changes no version, and of a secret neither its status nor its
\* place nor its current version, keeps what relates the tables.
LEMMA MetaStep ==
  ASSUME CurrentIsNewest, OneLivePerAddress, UNCHANGED versions,
         \A t \in Secrets : /\ secrets'[t].status = secrets[t].status
                            /\ secrets'[t].addr = secrets[t].addr
                            /\ secrets'[t].current = secrets[t].current,
         versions \subseteq VersionRow
  PROVE  CurrentIsNewest' /\ OneLivePerAddress'
BY DEF CurrentIsNewest, OneLivePerAddress, Existing, Rows, VersionRow

\* An insert of the next version, published, that prunes only other versions of
\* the same secret, leaves it current.
LEMMA InsertStep ==
  ASSUME TypeOK, CurrentIsNewest, NEW s \in Secrets, secrets[s].status = "live",
         NEW n \in Nat, n > secrets[s].current, NEW row \in VersionRow,
         row.secret = s, row.version = n, NEW gone, \A r \in gone : r.secret = s /\ r.version # n,
         secrets' = [secrets EXCEPT ![s].current = n],
         versions' = (versions \cup (Rows(s) \cup {row})) \ gone
  PROVE  CurrentIsNewest'
<1>1. /\ secrets'[s].status = "live" /\ secrets'[s].current = n
      /\ \A t \in Secrets \ {s} : secrets'[t] = secrets[t]
  BY DEF TypeOK, SecretRow
<1>2. row \in versions'
  OBVIOUS
<1>3. Existing' = Existing
  BY <1>1 DEF Existing
<1>4. \A r \in versions' : r = row \/ r \in versions
  BY DEF Rows
<1>5. \A r \in versions : r.secret \in Secrets /\ r.version \in Nat
  BY DEF TypeOK, VersionRow
<1>6. secrets[s].current \in Nat
  BY DEF TypeOK, SecretRow
<1>7. ASSUME NEW r \in versions'
      PROVE  r.secret \in Existing' /\ r.version <= secrets'[r.secret].current
  <2>1. CASE r = row
    BY <1>1, <1>3, <2>1 DEF Existing
  <2>2. CASE r \in versions
    <3>1. r.secret \in Existing /\ r.version <= secrets[r.secret].current
      BY <2>2 DEF CurrentIsNewest
    <3> QED BY <1>1, <1>3, <1>5, <1>6, <2>2, <3>1
  <2> QED BY <1>4, <2>1, <2>2
<1>8. ASSUME NEW t \in Existing'
      PROVE  \E r \in versions' : r.secret = t /\ r.version = secrets'[t].current
  <2>1. CASE t = s
    BY <1>1, <1>2, <2>1
  <2>2. CASE t # s
    <3>1. PICK r \in versions : r.secret = t /\ r.version = secrets[t].current
      BY <1>3 DEF CurrentIsNewest, Rows
    <3>2. r \in versions'
      BY <2>2, <3>1
    <3> QED BY <1>1, <1>3, <2>2, <3>1, <3>2 DEF Existing
  <2> QED BY <2>1, <2>2
<1> QED BY <1>7, <1>8 DEF CurrentIsNewest, Rows

\* Deleting rows of one secret, none of them current, leaves it readable.
LEMMA PruneStep ==
  ASSUME TypeOK, CurrentIsNewest, NEW s \in Secrets, NEW gone,
         \A r \in gone : r.secret = s /\ r.version # secrets[s].current,
         UNCHANGED secrets, versions' = versions \ gone
  PROVE  CurrentIsNewest'
<1>1. \A t \in Existing : \E r \in versions' : r.secret = t /\ r.version = secrets[t].current
  <2> TAKE t \in Existing
  <2>1. PICK r \in versions : r.secret = t /\ r.version = secrets[t].current
    BY DEF CurrentIsNewest, Rows
  <2>2. r \notin gone
    BY <2>1
  <2> QED BY <2>1, <2>2
<1> QED BY <1>1 DEF CurrentIsNewest, Existing, Rows

\* Every step keeps the newest version current and addresses exclusive.
LEMMA TableStep ==
  LockInv /\ CurrentIsNewest /\ OneLivePerAddress /\ [Next]_vars
    => CurrentIsNewest' /\ OneLivePerAddress'
<1> DEFINE Tables == CurrentIsNewest /\ OneLivePerAddress
<1> SUFFICES ASSUME LockInv, Tables, [Next]_vars
             PROVE  Tables'
  OBVIOUS
<1>0. TypeOK /\ versions \subseteq VersionRow
  BY DEF LockInv, TypeOK
<1>1. CASE UNCHANGED <<secrets, versions>>
  BY <1>0, <1>1, MetaStep
<1>2. ASSUME NEW c \in Clients, PutVersion(c)
      PROVE  Tables'
  <2>1. CASE UNCHANGED <<secrets, versions>>
    BY <1>1, <2>1
  <2>2. CASE ~UNCHANGED <<secrets, versions>>
    <3> DEFINE s == op[c].secret
               n == NextVersion(c)
    <3>1. s \in Secrets /\ n \in Nat /\ n > op[c].seen /\ op[c].kind = "put"
      BY <1>0, <1>2 DEF PutVersion, NextVersion, TypeOK, Op
    <3>2. Incoming(c) \subseteq Values
      BY <1>0 DEF Incoming, TypeOK, Op
    <3>3. PICK v \in Values :
            /\ secrets' = Publish(s, n)
            /\ versions' = (versions \cup (Rows(s) \cup
                               {[secret |-> s, version |-> n, value |-> v]}))
                 \ Prunable(Rows(s) \cup {[secret |-> s, version |-> n, value |-> v]}, n,
                            EffectiveKeep(secrets[s].keep))
      BY <1>2, <2>2, <3>2 DEF PutVersion
    <3>4. secrets[s].status = "live" /\ secrets[s].current = op[c].seen
      BY <3>1, NoneAssumption DEF LockInv, LockedReadsAreFresh, Holds
    <3> DEFINE row == [secret |-> s, version |-> n, value |-> v]
               gone == Prunable(Rows(s) \cup {row}, n, EffectiveKeep(secrets[s].keep))
    <3>5. row \in VersionRow /\ row.secret = s /\ row.version = n
      BY <3>1 DEF VersionRow
    <3>6. \A r \in gone : r.secret = s /\ r.version # n
      BY DEF Prunable, Rows
    <3>7. n > secrets[s].current
      BY <3>1, <3>4
    <3>8. CurrentIsNewest'
      <4> HIDE DEF s, n, row, gone
      <4> QED BY <1>0, <3>1, <3>3, <3>4, <3>5, <3>6, <3>7, InsertStep
              DEF Publish, row, gone
    <3>9. OneLivePerAddress'
      BY <1>0, <3>1, <3>3 DEF OneLivePerAddress, Publish, TypeOK, SecretRow
    <3> QED BY <3>8, <3>9
  <2> QED BY <2>1, <2>2
<1>3. ASSUME NEW c \in Clients, PutCreate(c)
      PROVE  Tables'
  <2>1. CASE UNCHANGED <<secrets, versions>>
    BY <1>1, <2>1
  <2>2. CASE ~UNCHANGED <<secrets, versions>>
    <3>1. LiveAt(op[c].addr) = {}
      BY <1>3, <2>2 DEF PutCreate
    <3>2. PICK s \in Secrets, v \in Incoming(c), meta \in NewMeta(c) :
            /\ secrets[s].status = "absent"
            /\ secrets' = [secrets EXCEPT ![s] =
                 [NoRow EXCEPT !.status = "live", !.addr = op[c].addr, !.current = 1,
                               !.keep = meta.keep, !.rotates = meta.rotates]]
            /\ versions' = versions \cup {[secret |-> s, version |-> 1, value |-> v]}
      BY <1>3, <2>2 DEF PutCreate
    <3>3. /\ secrets'[s].status = "live" /\ secrets'[s].addr = op[c].addr
          /\ secrets'[s].current = 1
          /\ \A t \in Secrets \ {s} : secrets'[t] = secrets[t]
      BY <1>0, <3>2 DEF TypeOK, NoRow
    <3>4. \A r \in versions : r.secret # s
      BY <3>2 DEF CurrentIsNewest, Existing
    <3>5. Existing' = Existing \cup {s}
      BY <3>3 DEF Existing
    <3> DEFINE row == [secret |-> s, version |-> 1, value |-> v]
    <3>6. CurrentIsNewest'
      <4>1. row.secret = s /\ row.version = 1 /\ versions' = versions \cup {row}
        BY <3>2
      <4>2. ASSUME NEW r \in versions'
            PROVE  r.secret \in Existing' /\ r.version <= secrets'[r.secret].current
        <5>1. CASE r = row
          BY <3>3, <3>5, <4>1, <5>1
        <5>2. CASE r \in versions
          <6>1. r.secret \in Existing /\ r.version <= secrets[r.secret].current
            BY <5>2 DEF CurrentIsNewest
          <6> QED BY <3>3, <3>4, <3>5, <5>2, <6>1 DEF Existing
        <5> HIDE DEF row
        <5> QED BY <4>1, <5>1, <5>2
      <4>3. ASSUME NEW t \in Existing'
            PROVE  \E r \in versions' : r.secret = t /\ r.version = secrets'[t].current
        <5>1. CASE t = s
          <6> HIDE DEF row
          <6> QED BY <3>3, <4>1, <5>1
        <5>2. CASE t # s
          <6>1. t \in Existing /\ secrets'[t] = secrets[t]
            BY <3>3, <3>5, <5>2 DEF Existing
          <6>2. PICK r \in versions : r.secret = t /\ r.version = secrets[t].current
            BY <6>1 DEF CurrentIsNewest, Rows
          <6> QED BY <4>1, <6>1, <6>2
        <5> QED BY <5>1, <5>2
      <4> QED BY <4>2, <4>3 DEF CurrentIsNewest, Rows
    <3>7. OneLivePerAddress'
      BY <3>1, <3>3 DEF OneLivePerAddress, LiveAt
    <3> QED BY <3>6, <3>7
  <2> QED BY <2>1, <2>2
<1>4. ASSUME NEW c \in Clients,
             \/ \E k \in KeepChoices, b \in Policies : UpdateMeta(c, k, b)
             \/ \E b \in Policies : SetRotationPolicy(c, b)
      PROVE  Tables'
  <2>1. UNCHANGED versions
    BY <1>4 DEF UpdateMeta, SetRotationPolicy
  <2>2. \A t \in Secrets : /\ secrets'[t].status = secrets[t].status
                           /\ secrets'[t].addr = secrets[t].addr
                           /\ secrets'[t].current = secrets[t].current
    <3>1. CASE UNCHANGED secrets
      BY <3>1
    <3>2. CASE \E k, b : secrets' = [secrets EXCEPT ![op[c].secret].keep = k,
                                                   ![op[c].secret].rotates = b]
      BY <1>0, <3>2 DEF TypeOK, SecretRow
    <3> QED BY <1>4, <3>1, <3>2 DEF UpdateMeta, SetRotationPolicy
  <2> QED BY <1>0, <2>1, <2>2, MetaStep
<1>5. ASSUME NEW c \in Clients, NEW w \in Windows, SoftDelete(c, w)
      PROVE  Tables'
  <2>1. UNCHANGED versions
    BY <1>5 DEF SoftDelete
  <2>2. \A t \in Secrets : /\ secrets'[t].addr = secrets[t].addr
                           /\ secrets'[t].current = secrets[t].current
                           /\ secrets'[t].status = "live" => secrets[t].status = "live"
                           /\ t \in Existing' <=> t \in Existing
    BY <1>0, <1>5 DEF SoftDelete, TypeOK, SecretRow, Existing
  <2>3. CurrentIsNewest'
    BY <1>0, <2>1, <2>2 DEF CurrentIsNewest, Existing, Rows, VersionRow
  <2> QED BY <2>2, <2>3 DEF OneLivePerAddress
<1>6. ASSUME NEW c \in Clients, HardDelete(c)
      PROVE  Tables'
  <2>1. CASE UNCHANGED <<secrets, versions>>
    BY <1>1, <2>1
  <2>2. CASE ~UNCHANGED <<secrets, versions>>
    <3>1. /\ secrets' = [secrets EXCEPT ![op[c].secret] = [NoRow EXCEPT !.status = "destroyed"]]
          /\ versions' = versions \ Rows(op[c].secret)
      BY <1>6, <2>2 DEF HardDelete
    <3>2. \A t \in Secrets : \/ secrets'[t] = secrets[t] /\ t # op[c].secret
                             \/ t = op[c].secret /\ secrets'[t].status = "destroyed"
      BY <1>0, <3>1 DEF TypeOK, NoRow
    <3>3. CurrentIsNewest'
      BY <1>0, <3>1, <3>2 DEF CurrentIsNewest, Existing, Rows, VersionRow
    <3> QED BY <3>2, <3>3 DEF OneLivePerAddress
  <2> QED BY <2>1, <2>2
<1>7. ASSUME NEW c \in Clients, Prune(c)
      PROVE  Tables'
  <2>0. CASE op[c].secret = None
    <3>1. Rows(op[c].secret) = {}
      BY <1>0, <2>0, NoneAssumption DEF Rows, VersionRow
    <3> QED BY <1>1, <1>7, <3>1 DEF Prune, Prunable
  <2> DEFINE s == op[c].secret
             gone == Prunable(Rows(s), op[c].seen, EffectiveKeep(op[c].keep))
  <2>1. CASE s # None
    <3>1. s \in Secrets /\ op[c].kind = "prune"
      BY <1>0, <1>7, <2>1 DEF Prune, TypeOK, Op
    <3>2. secrets[s].current = op[c].seen
      BY <2>1, <3>1 DEF LockInv, LockedReadsAreFresh, Holds
    <3>3. \A r \in gone : r.secret = s /\ r.version # secrets[s].current
      BY <3>2 DEF Prunable, Rows
    <3>4. UNCHANGED secrets /\ versions' = versions \ gone
      BY <1>7 DEF Prune
    <3>5. CurrentIsNewest'
      <4> HIDE DEF s, gone
      <4> QED BY <1>0, <3>1, <3>3, <3>4, PruneStep
    <3> QED BY <3>4, <3>5 DEF OneLivePerAddress
  <2> QED BY <2>0, <2>1
<1>8. ASSUME NEW s \in Secrets, Restore(s)
      PROVE  Tables'
  <2>1. UNCHANGED versions /\ LiveAt(secrets[s].addr) = {}
    BY <1>8 DEF Restore
  <2>2. \A t \in Secrets : /\ secrets'[t].addr = secrets[t].addr
                           /\ secrets'[t].current = secrets[t].current
                           /\ t # s => secrets'[t].status = secrets[t].status
                           /\ t \in Existing' <=> t \in Existing
    BY <1>0, <1>8 DEF Restore, TypeOK, SecretRow, Existing
  <2>3. CurrentIsNewest'
    BY <1>0, <2>1, <2>2 DEF CurrentIsNewest, Existing, Rows, VersionRow
  <2> QED BY <2>1, <2>2, <2>3 DEF OneLivePerAddress, LiveAt
<1>9. CASE \E c \in Clients :
             \/ PutUnchanged(c) \/ RewriteLock(c) \/ GetLatest(c) \/ GetReturn(c) \/ Abort(c)
             \/ \E a \in Addresses : Begin(c, a)
             \/ \E s \in Secrets : DestroyCheck(c, s)
  <2>1. UNCHANGED <<secrets, versions>>
    BY <1>9 DEF PutUnchanged, RewriteLock, GetLatest, GetReturn, Abort, DestroyCheck, Begin,
       PutLock, RotateFind, RollbackFind, GetRow, FindFor, FindPolicy, PruneLock
  <2> QED BY <1>1, <2>1
<1>10. CASE Tick \/ UNCHANGED vars
  BY <1>1, <1>10 DEF Tick, vars
<1> HIDE DEF Tables
<1> QED
  BY <1>2, <1>3, <1>4, <1>5, <1>6, <1>7, <1>8, <1>9, <1>10 DEF Next, End

\* The inductive invariant.  A writer trusts the number it read under the lock,
\* so which version is current depends on what the locks guarantee.
IInv == LockInv /\ CurrentIsNewest /\ OneLivePerAddress

\* Every reachable state satisfies the inductive invariant.
THEOREM Invariance == Spec => []IInv
<1>1. Init => IInv
  <2> SUFFICES ASSUME Init
               PROVE  IInv
    OBVIOUS
  <2>1. LockInv
    BY CallTypes, NoRowType
       DEF Init, TypeOK, NoRow, VersionRow, LockInv, LockExclusive, LockedReadsAreFresh,
           Holds, Idle
  <2>2. versions = {} /\ \A s \in Secrets : secrets[s].status = "absent"
    BY DEF Init, NoRow
  <2> QED BY <2>1, <2>2 DEF IInv, CurrentIsNewest, OneLivePerAddress, Existing
<1>2. IInv /\ [Next]_vars => IInv'
  BY TypeStep, LockStep, TableStep DEF IInv, LockInv
<1> QED BY <1>1, <1>2, PTL DEF Spec

\* Whatever writers, prunes, deletes and restores interleave, current_version
\* names a row that exists and that is the newest of its secret.
THEOREM NewestIsCurrent == Spec => []CurrentIsNewest
<1>1. IInv => CurrentIsNewest
  BY DEF IInv
<1> QED BY <1>1, Invariance, PTL

\* Two live secrets never share an address.
THEOREM AddressesExclusive == Spec => []OneLivePerAddress
<1>1. IInv => OneLivePerAddress
  BY DEF IInv
<1> QED BY <1>1, Invariance, PTL

-----------------------------------------------------------------------------
(* What no step may do.                                                    *)

\* The destruction date of a row is the end of the window its delete asked for, shifted
\* by what one process's clock is off.
WindowAsked(s) == \E c \in Clients : secrets[s].destroyAfter = secrets[s].promised + Skew[c]

\* The ways a step may change the row of a secret: create it, write to it or
\* delete it while it is live, which never takes current_version back, restore it,
\* destroy it when its destruction date is past.
RowChange(s) ==
  \/ secrets'[s] = secrets[s]
  \/ secrets[s].status = "absent" /\ secrets'[s].status = "live"
  \/ /\ secrets[s].status = "live" /\ secrets'[s].status \in {"live", "deleted"}
     /\ secrets'[s].current >= secrets[s].current
     /\ secrets'[s].status = "deleted" => WindowAsked(s)'
  \/ /\ secrets[s].status = "deleted" /\ secrets'[s].status = "live"
     /\ secrets'[s].current = secrets[s].current
     /\ secrets'[s].keep = secrets[s].keep
  \/ /\ secrets[s].status = "deleted" /\ secrets'[s].status = "destroyed"
     /\ secrets[s].destroyAfter <= now

\* No step changes a row in any other way.
LEMMA RowStep ==
  ASSUME TypeOK, [Next]_vars, NEW s \in Secrets
  PROVE  RowChange(s)
<1>0. secrets \in [Secrets -> SecretRow]
  BY DEF TypeOK
<1>1. CASE UNCHANGED secrets
  BY <1>1 DEF RowChange
<1>2. ASSUME NEW c \in Clients, PutVersion(c)
      PROVE  RowChange(s)
  <2>1. CASE UNCHANGED secrets
    BY <1>1, <2>1
  <2>2. ASSUME NEW t \in Secrets, NEW n \in Nat, secrets[t].status = "live",
               secrets[t].current < n, secrets' = [secrets EXCEPT ![t].current = n]
        PROVE  RowChange(s)
    BY <1>0, <2>2 DEF SecretRow, RowChange
  <2>3. op[c].secret \in Secrets /\ NextVersion(c) \in Nat
    BY <1>2 DEF PutVersion, NextVersion, TypeOK, Op
  <2> QED BY <1>2, <2>1, <2>2, <2>3 DEF PutVersion, Publish
<1>3. ASSUME NEW c \in Clients, PutCreate(c)
      PROVE  RowChange(s)
  BY <1>0, <1>3 DEF PutCreate, NoRow, RowChange
<1>4. ASSUME NEW c \in Clients,
             \/ \E k \in KeepChoices, b \in Policies : UpdateMeta(c, k, b)
             \/ \E b \in Policies : SetRotationPolicy(c, b)
      PROVE  RowChange(s)
  <2>1. CASE /\ secrets[op[c].secret].status = "live"
             /\ \E k, b : secrets' = [secrets EXCEPT ![op[c].secret].keep = k,
                                                    ![op[c].secret].rotates = b]
    BY <1>0, <2>1 DEF SecretRow, RowChange
  <2> QED BY <1>1, <1>4, <2>1 DEF UpdateMeta, SetRotationPolicy
<1>5. ASSUME NEW c \in Clients, NEW w \in Windows, SoftDelete(c, w)
      PROVE  RowChange(s)
  <2> DEFINE t == op[c].secret
             row == [secrets[t] EXCEPT !.status = "deleted",
                                       !.destroyAfter = DestroyAfter(c, w),
                                       !.promised = now + WindowOf(w)]
  <2>1. CASE t = s /\ secrets[s].status = "live"
    <3>1. secrets' = [secrets EXCEPT ![s] = row]
      BY <1>0, <1>5, <2>1 DEF SoftDelete, SecretRow
    <3>2. /\ row.status = "deleted" /\ row.current = secrets[s].current
          /\ row.destroyAfter = DestroyAfter(c, w) /\ row.promised = now + WindowOf(w)
      BY <1>0, <2>1 DEF SecretRow
    <3>3. DestroyAfter(c, w) = now + WindowOf(w) + Skew[c]
      BY ClockAssumption DEF DestroyAfter, WindowOf, TypeOK
    <3>4. secrets'[s] = row /\ secrets[s].current \in Nat
      BY <1>0, <3>1 DEF SecretRow
    <3> HIDE DEF row
    <3>5. WindowAsked(s)'
      BY <3>2, <3>3, <3>4 DEF WindowAsked
    <3> QED BY <2>1, <3>2, <3>4, <3>5 DEF RowChange
  <2>2. CASE ~(t = s /\ secrets[s].status = "live")
    BY <1>0, <1>5, <2>2 DEF SoftDelete, RowChange
  <2> QED BY <2>1, <2>2
<1>6. ASSUME NEW c \in Clients, HardDelete(c)
      PROVE  RowChange(s)
  BY <1>0, <1>6 DEF HardDelete, NoRow, Destroyable, RowChange
<1>7. ASSUME NEW t \in Secrets, Restore(t)
      PROVE  RowChange(s)
  BY <1>0, <1>7 DEF Restore, SecretRow, RowChange
<1>8. CASE \E c \in Clients :
             \/ PutUnchanged(c) \/ RewriteLock(c) \/ GetLatest(c) \/ GetReturn(c) \/ Abort(c)
             \/ Prune(c)
             \/ \E a \in Addresses : Begin(c, a)
             \/ \E t \in Secrets : DestroyCheck(c, t)
  <2>1. UNCHANGED secrets
    BY <1>8 DEF PutUnchanged, RewriteLock, GetLatest, GetReturn, Abort, DestroyCheck, Begin,
       Prune, PutLock, RotateFind, RollbackFind, GetRow, FindFor, FindPolicy, PruneLock
  <2> QED BY <1>1, <2>1
<1>9. CASE Tick \/ UNCHANGED vars
  BY <1>1, <1>9 DEF Tick, vars
<1> QED
  <2>1. ASSUME NEW c \in Clients, End(c)
        PROVE  RowChange(s)
    BY <1>2, <1>3, <1>4, <1>5, <1>6, <1>8, <2>1 DEF End
  <2> QED BY <1>7, <1>8, <1>9, <2>1 DEF Next

\* The ways a step may change the version table: a put adds the next version of a
\* live secret, a create adds version 1, a prune and a destroy only delete.
PutChange(s) ==
  /\ secrets[s].status = "live"
  /\ \A r \in versions' \ versions : r.secret = s /\ r.version = secrets[s].current + 1
  /\ \A r \in versions \ versions' : r.secret = s

CreateChange(s) ==
  /\ secrets[s].status = "absent"
  /\ versions \subseteq versions'
  /\ \A r \in versions' \ versions : r.secret = s /\ r.version = 1

DestroyChange(s) ==
  /\ secrets'[s].status = "destroyed"
  /\ versions' \subseteq versions
  /\ \A r \in versions \ versions' : r.secret = s

VersionChange ==
  \/ UNCHANGED versions
  \/ \E s \in Secrets : PutChange(s) \/ CreateChange(s) \/ DestroyChange(s)

\* No step changes the version table in any other way.
LEMMA VersionStep ==
  ASSUME IInv, [Next]_vars
  PROVE  VersionChange
<1>0. TypeOK
  BY DEF IInv, LockInv
<1>1. CASE UNCHANGED versions
  BY <1>1 DEF VersionChange
<1>2. ASSUME NEW c \in Clients, PutVersion(c)
      PROVE  VersionChange
  <2>1. op[c].secret \in Secrets /\ op[c].kind = "put"
    BY <1>0, <1>2 DEF PutVersion, TypeOK, Op
  <2>2. /\ secrets[op[c].secret].status = "live"
        /\ NextVersion(c) = secrets[op[c].secret].current + 1
    BY <2>1, NoneAssumption DEF IInv, LockInv, LockedReadsAreFresh, Holds, NextVersion
  <2>3. /\ \A r \in versions' \ versions :
               r.secret = op[c].secret /\ r.version = NextVersion(c)
        /\ \A r \in versions \ versions' : r.secret = op[c].secret
    <3>1. CASE UNCHANGED versions
      BY <3>1
    <3>2. ASSUME NEW v, NEW k,
                 versions' = (versions \cup Rows(op[c].secret) \cup
                    {[secret |-> op[c].secret, version |-> NextVersion(c), value |-> v]})
                  \ Prunable(Rows(op[c].secret) \cup
                    {[secret |-> op[c].secret, version |-> NextVersion(c), value |-> v]},
                    NextVersion(c), k)
          PROVE  /\ \A r \in versions' \ versions :
                      r.secret = op[c].secret /\ r.version = NextVersion(c)
                 /\ \A r \in versions \ versions' : r.secret = op[c].secret
      BY <3>2 DEF Rows, Prunable
    <3> QED BY <1>2, <3>1, <3>2 DEF PutVersion
  <2> QED BY <2>1, <2>2, <2>3 DEF VersionChange, PutChange
<1>3. ASSUME NEW c \in Clients, PutCreate(c)
      PROVE  VersionChange
  <2>1. CASE UNCHANGED versions
    BY <1>1, <2>1
  <2>2. ASSUME NEW s \in Secrets, NEW v, secrets[s].status = "absent",
               versions' = versions \cup {[secret |-> s, version |-> 1, value |-> v]}
        PROVE  VersionChange
    BY <2>2 DEF VersionChange, CreateChange
  <2> QED BY <1>3, <2>1, <2>2 DEF PutCreate
<1>4. ASSUME NEW c \in Clients, HardDelete(c)
      PROVE  VersionChange
  <2>1. CASE UNCHANGED versions
    BY <1>1, <2>1
  <2>2. CASE /\ secrets' = [secrets EXCEPT ![op[c].secret] =
                              [NoRow EXCEPT !.status = "destroyed"]]
             /\ versions' = versions \ Rows(op[c].secret)
    <3>1. op[c].secret \in Secrets \cup {None}
      BY <1>0 DEF TypeOK, Op
    <3>2. CASE op[c].secret = None
      BY <1>0, <2>2, <3>2, NoneAssumption DEF Rows, TypeOK, VersionRow, VersionChange
    <3>3. CASE op[c].secret \in Secrets
      <4>1. secrets'[op[c].secret].status = "destroyed"
        BY <1>0, <2>2, <3>3 DEF TypeOK, NoRow
      <4>2. versions' \subseteq versions /\ \A r \in versions \ versions' : r.secret = op[c].secret
        BY <2>2 DEF Rows
      <4> QED BY <3>3, <4>1, <4>2 DEF VersionChange, DestroyChange
    <3> QED BY <3>1, <3>2, <3>3
  <2> QED BY <1>4, <2>1, <2>2 DEF HardDelete
<1>5. ASSUME NEW c \in Clients, Prune(c)
      PROVE  VersionChange
  <2>1. op[c].kind = "prune" /\ op[c].secret \in Secrets \cup {None}
    BY <1>0, <1>5 DEF Prune, TypeOK, Op
  <2>2. versions' \subseteq versions /\ \A r \in versions \ versions' : r.secret = op[c].secret
    BY <1>5 DEF Prune, Prunable, Rows
  <2>3. CASE op[c].secret = None
    BY <1>0, <2>2, <2>3, NoneAssumption DEF TypeOK, VersionRow, VersionChange
  <2>4. CASE op[c].secret \in Secrets
    <3>1. secrets[op[c].secret].status = "live"
      BY <2>1, <2>4, NoneAssumption DEF IInv, LockInv, LockedReadsAreFresh, Holds
    <3> QED BY <2>2, <2>4, <3>1 DEF VersionChange, PutChange
  <2> QED BY <2>1, <2>3, <2>4
<1>6. CASE \E c \in Clients :
             \/ PutUnchanged(c) \/ RewriteLock(c) \/ GetLatest(c) \/ GetReturn(c) \/ Abort(c)
             \/ \E k \in KeepChoices, b \in Policies : UpdateMeta(c, k, b)
             \/ \E b \in Policies : SetRotationPolicy(c, b)
             \/ \E w \in Windows : SoftDelete(c, w)
             \/ \E a \in Addresses : Begin(c, a)
             \/ \E t \in Secrets : DestroyCheck(c, t)
  <2>1. UNCHANGED versions
    BY <1>6 DEF PutUnchanged, RewriteLock, GetLatest, GetReturn, Abort, UpdateMeta,
       SetRotationPolicy, SoftDelete, DestroyCheck, Begin, PutLock, RotateFind,
       RollbackFind, GetRow, FindFor, FindPolicy, PruneLock
  <2> QED BY <1>1, <2>1
<1>7. CASE Tick \/ UNCHANGED vars \/ \E s \in Secrets : Restore(s)
  BY <1>1, <1>7 DEF Tick, vars, Restore
<1> QED
  <2>1. ASSUME NEW c \in Clients, End(c)
        PROVE  VersionChange
    BY <1>2, <1>3, <1>4, <1>5, <1>6, <2>1 DEF End
  <2> QED BY <1>6, <1>7, <2>1 DEF Next

\* An identity that has never been created has never had a version.
AbsentIsEmpty == \A s \in Secrets : secrets[s].status = "absent" => secrets[s].current = 0

\* Every reachable state has it, next to the inductive invariant.
LEMMA AbsentInvariance == Spec => [](IInv /\ AbsentIsEmpty)
<1>1. Init => AbsentIsEmpty
  BY DEF Init, AbsentIsEmpty, NoRow
<1>2. IInv /\ AbsentIsEmpty /\ [Next]_vars => AbsentIsEmpty'
  BY RowStep DEF AbsentIsEmpty, IInv, LockInv, RowChange
<1> QED BY <1>1, <1>2, Invariance, PTL DEF Spec

\* A version number is used once in the life of a secret, also when the version
\* that carried it has been pruned.
THEOREM VersionNumbersFresh == Spec => NumbersNeverReused
<1>1. IInv /\ AbsentIsEmpty /\ [Next]_vars
        => [\A r \in versions' \ versions : r.version = secrets[r.secret].current + 1]_vars
  BY VersionStep DEF AbsentIsEmpty, VersionChange, PutChange, CreateChange, DestroyChange
<1> QED BY <1>1, AbsentInvariance, PTL DEF NumbersNeverReused, Spec

\* A deleted secret comes back exactly as it was deleted.
THEOREM DeletedFrozen == Spec => DeletedIsFrozen
<1>1. IInv /\ [Next]_vars
        => [\A s \in Secrets :
              secrets[s].status = "deleted" /\ secrets'[s].status # "destroyed"
                => /\ Rows(s)' = Rows(s)
                   /\ secrets'[s].current = secrets[s].current
                   /\ secrets'[s].keep = secrets[s].keep]_vars
  <2> SUFFICES ASSUME IInv, [Next]_vars, NEW s \in Secrets,
                      secrets[s].status = "deleted", secrets'[s].status # "destroyed"
               PROVE  /\ Rows(s)' = Rows(s)
                      /\ secrets'[s].current = secrets[s].current
                      /\ secrets'[s].keep = secrets[s].keep
    OBVIOUS
  <2>1. secrets'[s].current = secrets[s].current /\ secrets'[s].keep = secrets[s].keep
    BY RowStep DEF IInv, LockInv, RowChange
  <2>2. Rows(s)' = Rows(s)
    BY VersionStep DEF Rows, VersionChange, PutChange, CreateChange, DestroyChange
  <2> QED BY <2>1, <2>2
<1> QED BY <1>1, Invariance, PTL DEF DeletedIsFrozen, Spec

\* The destruction date of every deleted secret is that of its last delete.
WindowInv == \A s \in Secrets : secrets[s].status = "deleted" => WindowAsked(s)

\* No step leaves a deleted secret with another destruction date than its own delete's.
LEMMA WindowStep == TypeOK /\ WindowInv /\ [Next]_vars => WindowInv'
<1> SUFFICES ASSUME TypeOK, WindowInv, [Next]_vars, NEW s \in Secrets,
                    secrets'[s].status = "deleted"
             PROVE  WindowAsked(s)'
  BY DEF WindowInv
<1>1. RowChange(s)
  BY RowStep
<1>2. CASE secrets'[s] = secrets[s]
  BY <1>2 DEF WindowInv, WindowAsked
<1> QED BY <1>1, <1>2 DEF RowChange

\* A secret is destroyed only while it is deleted and after the window its last delete
\* asked for, shifted by at most what one process's clock is off: the destruction date
\* is never that of an earlier delete, and the clock of the process that destroys counts
\* for nothing.
THEOREM WindowKept == Spec => WindowIsKept
<1>1. TypeOK /\ WindowInv /\ [Next]_vars
        => [\A s \in Secrets :
              secrets'[s].status = "destroyed" /\ secrets[s].status # "destroyed"
                => /\ secrets[s].status = "deleted"
                   /\ \E c \in Clients : secrets[s].promised + Skew[c] <= now]_vars
  <2> SUFFICES ASSUME TypeOK, WindowInv, [Next]_vars, NEW s \in Secrets,
                      secrets'[s].status = "destroyed", secrets[s].status # "destroyed"
               PROVE  /\ secrets[s].status = "deleted"
                      /\ \E c \in Clients : secrets[s].promised + Skew[c] <= now
    OBVIOUS
  <2>1. secrets[s].status = "deleted" /\ secrets[s].destroyAfter <= now
    BY RowStep DEF RowChange
  <2> QED BY <2>1 DEF WindowInv, WindowAsked
<1>2. Init => WindowInv
  BY DEF Init, WindowInv, NoRow
<1> QED BY <1>1, <1>2, WindowStep, TypeCorrect, PTL DEF WindowIsKept, Spec

-----------------------------------------------------------------------------
(* The newest rows of a secret: what ORDER BY version DESC LIMIT n returns. *)

\* A set of natural numbers has a least element.
LEMMA LeastNatural ==
  ASSUME NEW S, S \subseteq Nat, S # {}
  PROVE  \E m \in S : \A x \in S : m <= x
<1> DEFINE Below == {p \in Nat \X Nat : p[1] < p[2]}
<1>1. IsWellFoundedOn(Below, Nat)
  <2>1. Below = OpToRel(<, Nat)
    BY DEF OpToRel
  <2> QED BY <2>1, NatLessThanWellFounded
<1>2. \E m \in S : \A x \in S : <<x, m>> \notin Below
  <2> HIDE DEF Below
  <2> QED BY <1>1, WFMin, Zenon
<1>3. \A x, m \in S : <<x, m>> \notin Below => m <= x
  OBVIOUS
<1> HIDE DEF Below
<1> QED BY <1>2, <1>3

\* The rows above a row are counted by a natural number, and rows above a higher
\* row are among them.
LEMMA AboveCounts ==
  ASSUME NEW rows, IsFiniteSet(rows), NEW r \in rows, NEW q \in rows,
         \A p \in rows : p.version \in Nat, r.version <= q.version
  PROVE  /\ Cardinality({p \in rows : p.version > r.version}) \in Nat
         /\ Cardinality({p \in rows : p.version > q.version})
              <= Cardinality({p \in rows : p.version > r.version})
         /\ Cardinality({p \in rows : p.version > q.version}) \in Nat
<1> DEFINE Above(x) == {p \in rows : p.version > x.version}
<1>1. IsFiniteSet(Above(r)) /\ IsFiniteSet(Above(q))
  <2>1. Above(r) \in SUBSET rows /\ Above(q) \in SUBSET rows
    OBVIOUS
  <2> HIDE DEF Above
  <2> QED BY <2>1, FS_Subset
<1>2. Above(q) \in SUBSET Above(r)
  OBVIOUS
<1> HIDE DEF Above
<1>3. Cardinality(Above(r)) \in Nat /\ Cardinality(Above(q)) <= Cardinality(Above(r))
  BY <1>1, <1>2, FS_Subset, FS_CardinalityType
<1>4. Cardinality(Above(q)) \in Nat
  BY <1>1, FS_CardinalityType
<1> QED BY <1>3, <1>4 DEF Above

\* A row above one of the newest n is one of the newest n.
LEMMA NewestUpward ==
  ASSUME NEW rows, IsFiniteSet(rows), \A p \in rows : p.version \in Nat, NEW n \in Nat,
         NEW r \in Newest(rows, n), NEW q \in rows, r.version <= q.version
  PROVE  q \in Newest(rows, n)
<1>1. r \in rows /\ Cardinality({p \in rows : p.version > r.version}) < n
  BY DEF Newest
<1>2. /\ Cardinality({p \in rows : p.version > q.version}) \in Nat
      /\ Cardinality({p \in rows : p.version > r.version}) \in Nat
      /\ Cardinality({p \in rows : p.version > q.version})
           <= Cardinality({p \in rows : p.version > r.version})
  BY <1>1, AboveCounts
<1>3. Cardinality({p \in rows : p.version > q.version}) < n
  BY <1>1, <1>2
<1> QED BY <1>3 DEF Newest

\* A row that no row is above is the newest one, and nothing is above the newest one.
LEMMA NewestIsHighest ==
  ASSUME NEW rows, IsFiniteSet(rows), \A p \in rows : p.version \in Nat, NEW r \in rows
  PROVE  /\ (\A q \in rows : q.version <= r.version)
              => \A n \in Nat \ {0} : r \in Newest(rows, n)
         /\ r \in Newest(rows, 1) => \A q \in rows : q.version <= r.version
<1> DEFINE Above == {p \in rows : p.version > r.version}
<1>1. IsFiniteSet(Above)
  <2>1. Above \in SUBSET rows
    OBVIOUS
  <2> HIDE DEF Above
  <2> QED BY <2>1, FS_Subset
<1>2. Cardinality(Above) \in Nat /\ (Cardinality(Above) = 0 <=> Above = {})
  <2> HIDE DEF Above
  <2> QED BY <1>1, FS_CardinalityType, FS_EmptySet
<1>3. ASSUME \A q \in rows : q.version <= r.version, NEW n \in Nat \ {0}
      PROVE  r \in Newest(rows, n)
  <2>1. Above = {}
    BY <1>3
  <2>2. Cardinality(Above) < n
    BY <1>2, <2>1
  <2> QED BY <2>2 DEF Newest
<1>4. ASSUME r \in Newest(rows, 1)
      PROVE  \A q \in rows : q.version <= r.version
  <2>1. Cardinality(Above) < 1
    BY <1>4 DEF Newest
  <2>2. Above = {}
    BY <1>2, <2>1
  <2> QED BY <2>2
<1> QED BY <1>3, <1>4

\* When version numbers are not repeated, the newest n are at most n.
LEMMA NewestCount ==
  ASSUME NEW rows, IsFiniteSet(rows), \A p \in rows : p.version \in Nat,
         \A p, q \in rows : p.version = q.version => p = q, NEW n \in Nat \ {0}
  PROVE  /\ IsFiniteSet(Newest(rows, n))
         /\ Cardinality(Newest(rows, n)) <= n
<1>1. Newest(rows, n) \in SUBSET rows
  BY DEF Newest
<1>2. IsFiniteSet(Newest(rows, n))
  BY <1>1, FS_Subset
<1>3. CASE Newest(rows, n) = {}
  BY <1>2, <1>3, FS_EmptySet
<1>4. CASE Newest(rows, n) # {}
  <2> DEFINE Numbers == {r.version : r \in Newest(rows, n)}
  <2>1. PICK m \in Newest(rows, n) : \A r \in Newest(rows, n) : m.version <= r.version
    <3>1. Numbers \subseteq Nat /\ Numbers # {}
      BY <1>1, <1>4
    <3>2. \E x \in Numbers : \A y \in Numbers : x <= y
      <4> HIDE DEF Numbers
      <4> QED BY <3>1, LeastNatural
    <3> QED BY <3>2
  <2> DEFINE Above == {p \in rows : p.version > m.version}
  <2>2. Cardinality(Above) < n
    BY <2>1 DEF Newest
  <2>3. Newest(rows, n) \in SUBSET (Above \cup {m})
    BY <1>1, <2>1
  <2>4. IsFiniteSet(Above)
    <3>1. Above \in SUBSET rows
      OBVIOUS
    <3> HIDE DEF Above
    <3> QED BY <3>1, FS_Subset
  <2> HIDE DEF Above
  <2>5. /\ IsFiniteSet(Above \cup {m}) /\ Cardinality(Above) \in Nat
        /\ Cardinality(Above \cup {m}) <= Cardinality(Above) + 1
    <3>1. Cardinality(Above) \in Nat
      BY <2>4, FS_CardinalityType
    <3>2. /\ IsFiniteSet(Above \cup {m})
          /\ Cardinality(Above \cup {m}) = IF m \in Above THEN Cardinality(Above)
                                           ELSE Cardinality(Above) + 1
      BY <2>4, FS_AddElement
    <3> QED BY <3>1, <3>2
  <2>6. Cardinality(Newest(rows, n)) <= Cardinality(Above \cup {m})
    BY <2>3, <2>5, FS_Subset
  <2>7. Cardinality(Newest(rows, n)) \in Nat /\ Cardinality(Above \cup {m}) \in Nat
    BY <1>2, <2>5, FS_CardinalityType
  <2> QED BY <1>2, <2>2, <2>5, <2>6, <2>7
<1> QED BY <1>3, <1>4

\* The newest n leave n rows above each of the others: if one of the rows above were not
\* among them, the highest such row would have n rows above it still.
LEMMA NewestSurvive ==
  ASSUME NEW rows, IsFiniteSet(rows), \A p \in rows : p.version \in Nat, NEW n \in Nat
  PROVE  \A r \in rows \ Newest(rows, n) :
           Cardinality({q \in Newest(rows, n) : q.version > r.version}) >= n
<1> TAKE r \in rows \ Newest(rows, n)
<1> DEFINE rest == Newest(rows, n)
<1>0. rest \subseteq rows
  BY DEF Newest
<1> HIDE DEF rest
<1> DEFINE Above(x) == {p \in rows : p.version > x.version}
           Left == {q \in rest : q.version > r.version}
<1>1. /\ \A x \in rows : Above(x) \in SUBSET rows
      /\ Left \in SUBSET rows /\ Left \in SUBSET Above(r)
  BY <1>0
<1>2. \A x \in rows \ Newest(rows, n) : ~(Cardinality(Above(x)) < n)
  BY DEF Newest
<1>3. \A x, y \in rows : y \in Above(x) => Above(y) \in SUBSET Above(x) /\ y \notin Above(y)
  OBVIOUS
<1>4. \A x \in rows : x \in Above(r) => Above(x) \in SUBSET Above(r) /\ (x \in rest => x \in Left)
  BY <1>3
<1> SUFFICES ASSUME ~(Cardinality(Left) >= n)
             PROVE  FALSE
  BY DEF rest
<1> HIDE DEF Above, Left
<1>5. \A x \in rows : IsFiniteSet(Above(x)) /\ Cardinality(Above(x)) \in Nat
  BY <1>1, FS_Subset, FS_CardinalityType
<1>6. IsFiniteSet(Left) /\ Cardinality(Left) \in Nat
  BY <1>1, FS_Subset, FS_CardinalityType
<1>7. \A x \in rows \ Newest(rows, n) : ~(Above(x) \in SUBSET Left)
  <2> TAKE x \in rows \ Newest(rows, n)
  <2>1. Above(x) \in SUBSET Left => Cardinality(Above(x)) <= Cardinality(Left)
    BY <1>6, FS_Subset
  <2>2. Cardinality(Above(x)) >= n
    BY <1>2, <1>5
  <2> QED BY <1>5, <1>6, <2>1, <2>2
<1> DEFINE Lost == Above(r) \ Left
           Counts == {Cardinality(Above(x)) : x \in Lost}
<1>8. Lost \subseteq rows /\ Lost # {} /\ \A x \in Lost : x \notin Newest(rows, n)
  BY <1>1, <1>4, <1>7 DEF rest
<1>9. PICK x \in Lost : \A y \in Lost : Cardinality(Above(x)) <= Cardinality(Above(y))
  <2>1. Counts \subseteq Nat /\ Counts # {}
    BY <1>5, <1>8
  <2>2. \E i \in Counts : \A j \in Counts : i <= j
    <3> HIDE DEF Counts
    <3> QED BY <2>1, LeastNatural
  <2> QED BY <2>2
<1>10. PICK y \in Above(x) : y \notin Left
  BY <1>7, <1>8
<1>11. x \in rows /\ y \in rows /\ y \in Lost
  BY <1>1, <1>4, <1>8, <1>9, <1>10
<1>12. Cardinality(Above(y)) < Cardinality(Above(x))
  <2>1. Above(y) \in SUBSET Above(x) /\ Above(y) # Above(x)
    BY <1>3, <1>10, <1>11
  <2>2. /\ Cardinality(Above(y)) <= Cardinality(Above(x))
        /\ Cardinality(Above(y)) # Cardinality(Above(x))
    BY <1>5, <1>11, <2>1, FS_Subset
  <2> QED BY <1>5, <1>11, <2>2
<1> QED BY <1>5, <1>9, <1>11, <1>12

-----------------------------------------------------------------------------
(* What a step does to the two tables, as the clients of the store see it. *)

\* The row a put inserts, the rows of the secret with it, and the retention in force.
NewRow(s, v) == [secret |-> s, version |-> secrets[s].current + 1, value |-> v]

RowsWith(s, v) == Rows(s) \cup {NewRow(s, v)}

Retention(s) == EffectiveKeep(secrets[s].keep)

\* A put adds the next version of a live secret, with a value that is not the
\* newest one's, publishes it and prunes.
PutTo(s, v) ==
  /\ secrets[s].status = "live"
  /\ \A r \in Latest(s) : r.value # v
  /\ secrets' = [secrets EXCEPT ![s].current = secrets[s].current + 1]
  /\ versions' = (versions \cup RowsWith(s, v))
                 \ Prunable(RowsWith(s, v), secrets[s].current + 1, Retention(s))

\* A create adds a live secret at a free address with its first version.
CreateOf(s, a, v) ==
  /\ secrets[s].status = "absent"
  /\ LiveAt(a) = {}
  /\ \E k \in Nat, b \in BOOLEAN :
       secrets' = [secrets EXCEPT ![s] =
         [NoRow EXCEPT !.status = "live", !.addr = a, !.current = 1,
                       !.keep = k, !.rotates = b]]
  /\ versions' = versions \cup {[secret |-> s, version |-> 1, value |-> v]}

\* A prune deletes the versions outside the retention of a live secret.
PruneOf(s) ==
  /\ secrets[s].status = "live"
  /\ UNCHANGED secrets
  /\ versions' = versions \ Prunable(Rows(s), secrets[s].current, Retention(s))

\* A destroy takes a deleted secret and all of its versions.
DestroyOf(s) ==
  /\ secrets[s].status = "deleted"
  /\ secrets' = [secrets EXCEPT ![s] = [NoRow EXCEPT !.status = "destroyed"]]
  /\ versions' = versions \ Rows(s)

\* A delete and a restore change the status, and the destruction date with it.
StatusOf(s) ==
  /\ \/ secrets[s].status = "live" /\ secrets'[s].status = "deleted"
     \/ /\ secrets[s].status = "deleted" /\ secrets'[s].status = "live"
        /\ LiveAt(secrets[s].addr) = {}
  /\ secrets'[s].addr = secrets[s].addr
  /\ secrets'[s].current = secrets[s].current
  /\ \A t \in Secrets \ {s} : secrets'[t] = secrets[t]
  /\ UNCHANGED versions

\* Everything else leaves status, address, current version and versions alone.
MetaOnly ==
  /\ \A t \in Secrets : /\ secrets'[t].status = secrets[t].status
                        /\ secrets'[t].addr = secrets[t].addr
                        /\ secrets'[t].current = secrets[t].current
  /\ UNCHANGED versions

TableChange ==
  \/ MetaOnly
  \/ \E s \in Secrets :
       \/ \E v \in Values : PutTo(s, v)
       \/ \E a \in Addresses, v \in Values : CreateOf(s, a, v)
       \/ PruneOf(s) \/ DestroyOf(s) \/ StatusOf(s)

\* A call that is to create a secret, or may have to, knows the address.
CreatesKnowTheAddress ==
  \A c \in Clients :
    op[c].kind = "rewrite" \/ (op[c].kind = "put" /\ op[c].secret = None)
      => op[c].addr \in Addresses

\* Every step keeps that.
LEMMA AddressStep ==
  ASSUME TypeOK, CreatesKnowTheAddress, [Next]_vars
  PROVE  CreatesKnowTheAddress'
<1>0. op \in [Clients -> Op]
  BY DEF TypeOK
<1>1. ASSUME NEW c \in Clients, NEW o, op' = [op EXCEPT ![c] = o],
             o.kind = "rewrite" \/ (o.kind = "put" /\ o.secret = None) => o.addr \in Addresses
      PROVE  CreatesKnowTheAddress'
  BY <1>0, <1>1 DEF CreatesKnowTheAddress
<1>2. ASSUME NEW c \in Clients, NEW a \in Addresses, NEW from \in Op, LockForPut(c, a, from)
      PROVE  CreatesKnowTheAddress'
  <2>1. CASE op' = [op EXCEPT ![c] = [from EXCEPT !.kind = "put", !.addr = a, !.secret = None]]
    <3>1. [from EXCEPT !.kind = "put", !.addr = a, !.secret = None].addr = a
      BY DEF Op
    <3> QED BY <1>1, <2>1, <3>1
  <2>2. ASSUME NEW s \in LiveAt(a),
               op' = [op EXCEPT ![c] = [Found("put", s) EXCEPT
                        !.seen = secrets[s].current, !.origin = from.origin,
                        !.value = from.value]]
        PROVE  CreatesKnowTheAddress'
    <3> DEFINE o == [Found("put", s) EXCEPT !.seen = secrets[s].current,
                       !.origin = from.origin, !.value = from.value]
    <3>1. o.secret = s /\ o.kind = "put"
      BY DEF Found, Idle
    <3>2. s # None
      BY NoneAssumption DEF LiveAt
    <3>3. op' = [op EXCEPT ![c] = o]
      BY <2>2
    <3> HIDE DEF o
    <3> QED BY <1>1, <3>1, <3>2, <3>3
  <2> QED BY <1>2, <2>1, <2>2 DEF LockForPut
<1>3. ASSUME NEW c \in Clients, NEW a \in Addresses, Begin(c, a)
      PROVE  CreatesKnowTheAddress'
  <2>1. CASE PutLock(c, a)
    BY <1>2, <2>1, CallTypes DEF PutLock
  <2>2. CASE RotateFind(c, a)
    <3>1. PICK s \in LiveAt(a) : op' = [op EXCEPT ![c] =
                                   [Idle EXCEPT !.kind = "rewrite", !.addr = a, !.origin = s]]
      BY <2>2 DEF RotateFind
    <3>2. [Idle EXCEPT !.kind = "rewrite", !.addr = a, !.origin = s].addr = a
      BY DEF Idle
    <3> QED BY <1>1, <3>1, <3>2
  <2>3. CASE RollbackFind(c, a)
    <3>1. PICK s, v : op' = [op EXCEPT ![c] =
                        [Idle EXCEPT !.kind = "rewrite", !.addr = a, !.origin = s, !.value = v]]
      BY <2>3 DEF RollbackFind
    <3>2. [Idle EXCEPT !.kind = "rewrite", !.addr = a, !.origin = s, !.value = v].addr = a
      BY DEF Idle
    <3> QED BY <1>1, <3>1, <3>2
  <2>4. CASE GetRow(c, a)
    <3>1. PICK s, x : op' = [op EXCEPT ![c] = [Found("get", s) EXCEPT !.seen = x]]
      BY <2>4 DEF GetRow
    <3>2. [Found("get", s) EXCEPT !.seen = x].kind = "get"
      BY DEF Found, Idle
    <3> QED BY <1>1, <3>1, <3>2
  <2>5. ASSUME NEW k \in {"meta", "edit", "delete"}, FindFor(k, c, a)
        PROVE  CreatesKnowTheAddress'
    <3>1. PICK s : op' = [op EXCEPT ![c] = Found(k, s)]
      BY <2>5 DEF FindFor
    <3>2. Found(k, s).kind = k
      BY DEF Found, Idle
    <3> QED BY <1>1, <3>1, <3>2
  <2>6. CASE FindPolicy(c, a)
    <3>1. PICK s, x : op' = [op EXCEPT ![c] = [Found("policy", s) EXCEPT !.keep = x]]
      BY <2>6 DEF FindPolicy
    <3>2. [Found("policy", s) EXCEPT !.keep = x].kind = "policy"
      BY DEF Found, Idle
    <3> QED BY <1>1, <3>1, <3>2
  <2>7. CASE PruneLock(c, a)
    <3>1. PICK s, x, y : op' = [op EXCEPT ![c] =
                           [Found("prune", s) EXCEPT !.seen = x, !.keep = y]]
      BY <2>7 DEF PruneLock
    <3>2. [Found("prune", s) EXCEPT !.seen = x, !.keep = y].kind = "prune"
      BY DEF Found, Idle
    <3> QED BY <1>1, <3>1, <3>2
  <2> QED BY <1>3, <2>1, <2>2, <2>3, <2>4, <2>5, <2>6, <2>7 DEF Begin
<1>4. ASSUME NEW c \in Clients, RewriteLock(c)
      PROVE  CreatesKnowTheAddress'
  <2>1. op[c] \in Op /\ op[c].addr \in Addresses
    BY <1>0, <1>4 DEF RewriteLock, CreatesKnowTheAddress
  <2> QED BY <1>2, <1>4, <2>1 DEF RewriteLock
<1>5. ASSUME NEW c \in Clients, GetLatest(c)
      PROVE  CreatesKnowTheAddress'
  <2>1. op'[c].kind \in {"got", "missed"} /\ \A d \in Clients \ {c} : op'[d] = op[d]
    BY <1>0, <1>5 DEF GetLatest, Op
  <2> QED BY <2>1 DEF CreatesKnowTheAddress
<1>6. ASSUME NEW c \in Clients, Finish(c)
      PROVE  CreatesKnowTheAddress'
  <2>1. Idle.kind = "idle"
    BY DEF Idle
  <2> QED BY <1>1, <1>6, <2>1 DEF Finish
<1>7. ASSUME NEW c \in Clients, End(c)
      PROVE  CreatesKnowTheAddress'
  <2>1. RewriteLock(c) \/ GetLatest(c) \/ Finish(c)
    BY <1>7 DEF End, PutUnchanged, PutVersion, PutCreate, GetReturn, UpdateMeta,
       SetRotationPolicy, SoftDelete, HardDelete, Prune, Abort
  <2> QED BY <1>4, <1>5, <1>6, <2>1
<1>8. ASSUME NEW c \in Clients, NEW s \in Secrets, DestroyCheck(c, s)
      PROVE  CreatesKnowTheAddress'
  <2>1. Found("destroy", s).kind = "destroy"
    BY DEF Found, Idle
  <2> QED BY <1>1, <1>8, <2>1 DEF DestroyCheck
<1>9. CASE UNCHANGED op
  BY <1>9 DEF CreatesKnowTheAddress
<1>10. Tick \/ UNCHANGED vars \/ (\E s \in Secrets : Restore(s)) => UNCHANGED op
  BY DEF Tick, vars, Restore
<1> QED BY <1>3, <1>7, <1>8, <1>9, <1>10 DEF Next

\* No step does anything else to the tables.
LEMMA TableChanges ==
  ASSUME IInv, CreatesKnowTheAddress, [Next]_vars
  PROVE  TableChange
<1>0. TypeOK /\ secrets \in [Secrets -> SecretRow] /\ op \in [Clients -> Op]
  BY DEF IInv, LockInv, TypeOK
<1>1. CASE UNCHANGED <<secrets, versions>>
  BY <1>1 DEF TableChange, MetaOnly
<1>2. ASSUME NEW c \in Clients, PutVersion(c)
      PROVE  TableChange
  <2>1. CASE UNCHANGED <<secrets, versions>>
    BY <1>1, <2>1
  <2>2. CASE ~UNCHANGED <<secrets, versions>>
    <3> DEFINE s == op[c].secret
               n == NextVersion(c)
    <3>1. s \in Secrets /\ op[c].kind = "put"
      BY <1>0, <1>2 DEF PutVersion, Op
    <3>2. Incoming(c) \subseteq Values
      BY <1>0 DEF Incoming, Op
    <3>3. secrets[s].status = "live" /\ n = secrets[s].current + 1
      BY <3>1, NoneAssumption DEF IInv, LockInv, LockedReadsAreFresh, Holds, NextVersion
    <3>4. PICK v \in Values :
            LET rows == Rows(s) \cup {[secret |-> s, version |-> n, value |-> v]}
            IN  /\ \A r \in Latest(s) : r.value # v
                /\ secrets' = Publish(s, n)
                /\ versions' = (versions \cup rows)
                               \ Prunable(rows, n, EffectiveKeep(secrets[s].keep))
      BY <1>2, <2>2, <3>2 DEF PutVersion
    <3>5. PutTo(s, v)
      <4> HIDE DEF s, n
      <4> QED BY <3>3, <3>4 DEF PutTo, Publish, NewRow, RowsWith, Retention
    <3> QED BY <3>1, <3>5 DEF TableChange
  <2> QED BY <2>1, <2>2
<1>3. ASSUME NEW c \in Clients, PutCreate(c)
      PROVE  TableChange
  <2>1. CASE UNCHANGED <<secrets, versions>>
    BY <1>1, <2>1
  <2>2. CASE ~UNCHANGED <<secrets, versions>>
    <3> DEFINE a == op[c].addr
    <3>1. LiveAt(a) = {} /\ a \in Addresses
      BY <1>3, <2>2 DEF PutCreate, CreatesKnowTheAddress
    <3>2. Incoming(c) \subseteq Values
      BY <1>0 DEF Incoming, Op
    <3>3. \A meta \in NewMeta(c) : meta.keep \in Nat /\ meta.rotates \in BOOLEAN
      <4> TAKE meta \in NewMeta(c)
      <4>1. CASE op[c].origin = None
        <5>1. meta \in [keep : KeepChoices, rotates : Policies]
          BY <4>1 DEF NewMeta
        <5> QED BY <5>1, KeepAssumption, PolicyAssumption
      <4>2. CASE op[c].origin # None
        <5>1. meta = [keep |-> 0, rotates |-> FALSE]
          BY <4>2 DEF NewMeta
        <5> QED BY <5>1
      <4> QED BY <4>1, <4>2
    <3>4. PICK s \in Secrets, v \in Incoming(c), meta \in NewMeta(c) :
            /\ secrets[s].status = "absent"
            /\ secrets' = [secrets EXCEPT ![s] =
                 [NoRow EXCEPT !.status = "live", !.addr = a, !.current = 1,
                               !.keep = meta.keep, !.rotates = meta.rotates]]
            /\ versions' = versions \cup {[secret |-> s, version |-> 1, value |-> v]}
      BY <1>3, <2>2 DEF PutCreate
    <3>5. CreateOf(s, a, v)
      <4>1. \E k \in Nat, b \in BOOLEAN :
              secrets' = [secrets EXCEPT ![s] =
                [NoRow EXCEPT !.status = "live", !.addr = a, !.current = 1,
                              !.keep = k, !.rotates = b]]
        BY <3>3, <3>4
      <4> QED BY <3>1, <3>4, <4>1 DEF CreateOf
    <3> QED BY <3>1, <3>2, <3>5 DEF TableChange
  <2> QED BY <2>1, <2>2
<1>4. ASSUME NEW c \in Clients,
             \/ \E k \in KeepChoices, b \in Policies : UpdateMeta(c, k, b)
             \/ \E b \in Policies : SetRotationPolicy(c, b)
      PROVE  TableChange
  <2>1. CASE UNCHANGED <<secrets, versions>>
    BY <1>1, <2>1
  <2>2. UNCHANGED versions
    BY <1>4 DEF UpdateMeta, SetRotationPolicy
  <2>3. ASSUME NEW k, NEW b, secrets' = [secrets EXCEPT ![op[c].secret].keep = k,
                                                        ![op[c].secret].rotates = b]
        PROVE  TableChange
    BY <1>0, <2>2, <2>3 DEF SecretRow, TableChange, MetaOnly
  <2> QED BY <1>4, <2>1, <2>2, <2>3 DEF UpdateMeta, SetRotationPolicy
<1>5. ASSUME NEW c \in Clients, NEW w \in Windows, SoftDelete(c, w)
      PROVE  TableChange
  <2> DEFINE s == op[c].secret
  <2>1. s \in Secrets \cup {None} /\ UNCHANGED versions
    BY <1>0, <1>5 DEF SoftDelete, Op
  <2>2. CASE s \in Secrets /\ secrets[s].status = "live"
    <3>1. /\ secrets'[s].status = "deleted" /\ secrets'[s].addr = secrets[s].addr
          /\ secrets'[s].current = secrets[s].current
          /\ \A t \in Secrets \ {s} : secrets'[t] = secrets[t]
      BY <1>0, <1>5, <2>2 DEF SoftDelete, SecretRow
    <3> QED BY <2>1, <2>2, <3>1 DEF TableChange, StatusOf
  <2>3. CASE ~(s \in Secrets /\ secrets[s].status = "live")
    <3>1. UNCHANGED secrets
      BY <1>0, <1>5, <2>3 DEF SoftDelete
    <3> QED BY <1>1, <2>1, <3>1
  <2> QED BY <2>2, <2>3
<1>6. ASSUME NEW c \in Clients, HardDelete(c)
      PROVE  TableChange
  <2> DEFINE s == op[c].secret
  <2>1. CASE UNCHANGED <<secrets, versions>>
    BY <1>1, <2>1
  <2>2. CASE s \in Secrets /\ ~UNCHANGED <<secrets, versions>>
    BY <1>6, <2>2 DEF HardDelete, Destroyable, TableChange, DestroyOf
  <2>3. CASE s = None /\ ~UNCHANGED <<secrets, versions>>
    <3>1. Rows(s) = {}
      BY <1>0, <2>3, NoneAssumption DEF Rows, TypeOK, VersionRow
    <3>2. UNCHANGED <<secrets, versions>>
      BY <1>0, <1>6, <2>3, <3>1, NoneAssumption DEF HardDelete
    <3> QED BY <2>3, <3>2
  <2> QED BY <1>0, <2>1, <2>2, <2>3 DEF Op
<1>7. ASSUME NEW c \in Clients, Prune(c)
      PROVE  TableChange
  <2> DEFINE s == op[c].secret
  <2>1. op[c].kind = "prune" /\ s \in Secrets \cup {None}
    BY <1>0, <1>7 DEF Prune, Op
  <2>2. CASE s = None
    <3>1. Rows(s) = {}
      BY <1>0, <2>2, NoneAssumption DEF Rows, TypeOK, VersionRow
    <3> QED BY <1>1, <1>7, <3>1 DEF Prune, Prunable
  <2>3. CASE s \in Secrets
    <3>1. /\ secrets[s].status = "live" /\ secrets[s].current = op[c].seen
          /\ secrets[s].keep = op[c].keep
      BY <2>1, <2>3, NoneAssumption DEF IInv, LockInv, LockedReadsAreFresh, Holds
    <3> QED BY <1>7, <2>3, <3>1 DEF Prune, TableChange, PruneOf, Retention
  <2> QED BY <2>1, <2>2, <2>3
<1>8. ASSUME NEW s \in Secrets, Restore(s)
      PROVE  TableChange
  <2>1. /\ secrets[s].status = "deleted" /\ LiveAt(secrets[s].addr) = {}
        /\ UNCHANGED versions
    BY <1>8 DEF Restore
  <2>2. /\ secrets'[s].status = "live" /\ secrets'[s].addr = secrets[s].addr
        /\ secrets'[s].current = secrets[s].current
        /\ \A t \in Secrets \ {s} : secrets'[t] = secrets[t]
    BY <1>0, <1>8 DEF Restore, SecretRow
  <2> QED BY <2>1, <2>2 DEF TableChange, StatusOf
<1>9. CASE \E c \in Clients :
             \/ PutUnchanged(c) \/ RewriteLock(c) \/ GetLatest(c) \/ GetReturn(c) \/ Abort(c)
             \/ \E a \in Addresses : Begin(c, a)
             \/ \E s \in Secrets : DestroyCheck(c, s)
  <2>1. UNCHANGED <<secrets, versions>>
    BY <1>9 DEF PutUnchanged, RewriteLock, GetLatest, GetReturn, Abort, DestroyCheck, Begin,
       PutLock, RotateFind, RollbackFind, GetRow, FindFor, FindPolicy, PruneLock
  <2> QED BY <1>1, <2>1
<1>10. CASE Tick \/ UNCHANGED vars
  BY <1>1, <1>10 DEF Tick, vars
<1> QED
  <2>1. ASSUME NEW c \in Clients, End(c)
        PROVE  TableChange
    BY <1>2, <1>3, <1>4, <1>5, <1>6, <1>7, <1>9, <2>1 DEF End
  <2> QED BY <1>8, <1>9, <1>10, <2>1 DEF Next

-----------------------------------------------------------------------------
(* The history of a secret, and reads of it.                               *)

\* The version table is finite, its numbers start at 1 and a secret has at most one
\* row for each (the primary key).
History ==
  /\ IsFiniteSet(versions)
  /\ \A r \in versions : r.version >= 1
  /\ \A q, r \in versions : q.secret = r.secret /\ q.version = r.version => q = r

HistInv == IInv /\ AbsentIsEmpty /\ CreatesKnowTheAddress /\ History

\* A step adds at most one version, with a number above all others of its secret.
LEMMA OneAdded ==
  ASSUME HistInv, [Next]_vars
  PROVE  \/ versions' \subseteq versions
         \/ \E s \in Secrets, v \in Values, n \in Nat :
              /\ versions' \subseteq versions \cup {[secret |-> s, version |-> n, value |-> v]}
              /\ n >= 1 /\ \A r \in Rows(s) : r.version < n
<1>0. TypeOK /\ TableChange
  BY TableChanges DEF HistInv, IInv, LockInv
<1>1. CASE MetaOnly \/ \E s \in Secrets : PruneOf(s) \/ DestroyOf(s) \/ StatusOf(s)
  BY <1>1 DEF MetaOnly, PruneOf, DestroyOf, StatusOf
<1>2. ASSUME NEW s \in Secrets, NEW v \in Values, PutTo(s, v)
      PROVE  \E n \in Nat :
               /\ versions' \subseteq versions \cup {[secret |-> s, version |-> n, value |-> v]}
               /\ n >= 1 /\ \A r \in Rows(s) : r.version < n
  <2> DEFINE n == secrets[s].current + 1
             row == [secret |-> s, version |-> n, value |-> v]
  <2>1. n \in Nat /\ n >= 1 /\ secrets[s].current \in Nat
    BY <1>0 DEF TypeOK, SecretRow
  <2>2. \A r \in Rows(s) : r.version \in Nat /\ r.version <= secrets[s].current
    BY <1>0 DEF HistInv, IInv, CurrentIsNewest, Rows, TypeOK, VersionRow
  <2>3. \A r \in Rows(s) : r.version < n
    BY <2>1, <2>2
  <2>4. \E gone : versions' = (versions \cup (Rows(s) \cup {row})) \ gone
    BY <1>2 DEF PutTo, NewRow, RowsWith
  <2>5. versions' \subseteq versions \cup {row}
    <3> HIDE DEF n, row
    <3> QED BY <2>4 DEF Rows
  <2> HIDE DEF n
  <2> QED BY <2>1, <2>3, <2>5
<1>3. ASSUME NEW s \in Secrets, NEW a \in Addresses, NEW v \in Values, CreateOf(s, a, v)
      PROVE  /\ versions' \subseteq versions \cup {[secret |-> s, version |-> 1, value |-> v]}
             /\ Rows(s) = {}
  <2>1. secrets[s].status = "absent"
    BY <1>3 DEF CreateOf
  <2>2. Rows(s) = {}
    BY <2>1 DEF HistInv, IInv, CurrentIsNewest, Existing, Rows
  <2> QED BY <1>3, <2>2 DEF CreateOf
<1>4. ASSUME NEW s \in Secrets, NEW a \in Addresses, NEW v \in Values, CreateOf(s, a, v)
      PROVE  \E n \in Nat :
               /\ versions' \subseteq versions \cup {[secret |-> s, version |-> n, value |-> v]}
               /\ n >= 1 /\ \A r \in Rows(s) : r.version < n
  <2>1. 1 \in Nat /\ 1 >= 1 /\ \A r \in Rows(s) : r.version < 1
    BY <1>3, <1>4
  <2> QED BY <1>3, <1>4, <2>1
<1> QED
  BY <1>0, <1>1, <1>2, <1>4 DEF TableChange

\* Every step keeps the history well-formed.
LEMMA HistoryStep == HistInv /\ [Next]_vars => HistInv'
<1> SUFFICES ASSUME HistInv, [Next]_vars
             PROVE  HistInv'
  OBVIOUS
<1>0. TypeOK /\ IInv /\ versions \subseteq VersionRow
  BY DEF HistInv, IInv, LockInv, TypeOK
<1>1. IInv'
  BY <1>0, TypeStep, LockStep, TableStep DEF IInv, LockInv
<1>2. AbsentIsEmpty'
  BY <1>0, RowStep DEF HistInv, AbsentIsEmpty, RowChange
<1>3. CreatesKnowTheAddress'
  BY <1>0, AddressStep DEF HistInv
<1>4. History'
  <2>1. CASE versions' \subseteq versions
    <3>1. IsFiniteSet(versions')
      BY <2>1, FS_Subset DEF HistInv, History
    <3> QED BY <2>1, <3>1 DEF HistInv, History
  <2>2. ASSUME NEW row, row.version \in Nat, row.version >= 1,
               versions' \subseteq versions \cup {row},
               \A r \in Rows(row.secret) : r.version < row.version
        PROVE  History'
    <3>1. IsFiniteSet(versions')
      <4>1. IsFiniteSet(versions \cup {row}) /\ versions' \in SUBSET (versions \cup {row})
        BY <2>2, FS_AddElement DEF HistInv, History
      <4> QED BY <4>1, FS_Subset
    <3>2. \A r \in versions : r.secret = row.secret => r.version < row.version
      BY <2>2 DEF Rows
    <3>3. \A r \in versions : r.version \in Nat
      BY <1>0 DEF VersionRow
    <3>4. \A r \in versions' : r.version >= 1
      BY <2>2 DEF HistInv, History
    <3>5. \A r \in versions : ~(r.secret = row.secret /\ r.version = row.version)
      BY <2>2, <3>2, <3>3
    <3>6. \A q, r \in versions' : q.secret = r.secret /\ q.version = r.version => q = r
      BY <2>2, <3>5 DEF HistInv, History
    <3> QED BY <3>1, <3>4, <3>6 DEF History
  <2>3. ASSUME NEW s \in Secrets, NEW v \in Values, NEW n \in Nat,
               versions' \subseteq versions \cup {[secret |-> s, version |-> n, value |-> v]},
               n >= 1, \A r \in Rows(s) : r.version < n
        PROVE  History'
    <3> DEFINE row == [secret |-> s, version |-> n, value |-> v]
    <3>1. row.secret = s /\ row.version = n
      OBVIOUS
    <3>2. versions' \subseteq versions \cup {row}
      BY <2>3
    <3> HIDE DEF row
    <3> QED BY <2>2, <2>3, <3>1, <3>2
  <2> QED BY <2>1, <2>3, OneAdded
<1> QED BY <1>1, <1>2, <1>3, <1>4 DEF HistInv

\* Every reachable state has a well-formed history, next to the inductive invariant.
LEMMA HistoryInvariance == Spec => []HistInv
<1>1. Init => CreatesKnowTheAddress /\ History
  BY FS_EmptySet DEF Init, CreatesKnowTheAddress, Idle, History
<1>2. Init /\ IInv /\ AbsentIsEmpty => HistInv
  BY <1>1 DEF HistInv
<1> QED BY <1>2, HistoryStep, AbsentInvariance, PTL DEF Spec

\* What a read in progress may still rely on: the secret it found has not gone back
\* to an older version since, unless it was destroyed.
ReadInProgress(c) ==
  /\ op[c].kind \in {"get", "got", "missed"} => op[c].secret \in Secrets
  /\ op[c].kind = "get" =>
       \/ secrets[op[c].secret].status = "destroyed"
       \/ op[c].secret \in Existing /\ op[c].seen <= secrets[op[c].secret].current
  /\ op[c].kind = "got" => op[c].version >= op[c].seen
  /\ op[c].kind = "missed" => secrets[op[c].secret].status = "destroyed"

ReadInv == HistInv /\ \A c \in Clients : ReadInProgress(c)

\* A secret that a read found only moves on or is destroyed.
LEMMA ReadKept ==
  ASSUME HistInv, [Next]_vars, NEW c \in Clients, ReadInProgress(c), UNCHANGED op[c]
  PROVE  ReadInProgress(c)'
<1>0. TypeOK /\ TypeOK'
  BY TypeStep DEF HistInv, IInv, LockInv
<1>1. op[c] \in Op /\ op'[c] = op[c]
  BY <1>0 DEF TypeOK
<1>2. CASE op[c].kind \notin {"get", "got", "missed"}
  BY <1>1, <1>2 DEF ReadInProgress
<1>3. CASE op[c].kind \in {"get", "got", "missed"}
  <2> DEFINE s == op[c].secret
  <2>1. s \in Secrets /\ op[c].seen \in Nat
    BY <1>1, <1>3 DEF ReadInProgress, Op
  <2>2. RowChange(s)
    BY <1>0, <2>1, RowStep
  <2>3. secrets[s].current \in Nat /\ secrets'[s].current \in Nat
    BY <1>0, <2>1 DEF TypeOK, SecretRow
  <2>4. secrets[s].status = "destroyed" => secrets'[s].status = "destroyed"
    BY <2>2 DEF RowChange
  <2>5. CASE op[c].kind = "get" /\ s \in Existing
    <3>1. op[c].seen <= secrets[s].current \/ secrets[s].status = "destroyed"
      BY <2>5 DEF ReadInProgress
    <3>2. \/ secrets'[s].status = "destroyed"
          \/ /\ secrets'[s].status \in {"live", "deleted"}
             /\ secrets'[s].current >= secrets[s].current
      BY <2>2, <2>3, <2>5 DEF RowChange, Existing
    <3>3. \/ secrets'[s].status = "destroyed"
          \/ s \in Existing' /\ op[c].seen <= secrets'[s].current
      BY <2>1, <2>3, <2>4, <3>1, <3>2 DEF Existing
    <3> QED BY <1>1, <2>1, <2>5, <3>3 DEF ReadInProgress
  <2>6. CASE ~(op[c].kind = "get" /\ s \in Existing)
    BY <1>1, <2>1, <2>4, <2>6 DEF ReadInProgress
  <2> QED BY <2>5, <2>6
<1> QED BY <1>2, <1>3

\* What the second statement of a read returns is no older than what the first saw.
LEMMA ReadReturns ==
  ASSUME ReadInv, NEW c \in Clients, GetLatest(c)
  PROVE  ReadInProgress(c)'
<1>0. TypeOK /\ op[c] \in Op /\ op \in [Clients -> Op] /\ op[c].kind = "get"
  BY DEF GetLatest, ReadInv, HistInv, IInv, LockInv, TypeOK
<1> DEFINE s == op[c].secret
<1>1. /\ s \in Secrets /\ UNCHANGED <<secrets, versions>>
      /\ secrets[s].status = "destroyed" \/ (s \in Existing /\ op[c].seen <= secrets[s].current)
  BY <1>0 DEF GetLatest, ReadInv, ReadInProgress
<1>2. IsFiniteSet(Rows(s)) /\ \A r \in Rows(s) : r.version \in Nat
  <2>1. Rows(s) \in SUBSET versions /\ IsFiniteSet(versions)
    BY DEF Rows, ReadInv, HistInv, History
  <2>2. \A r \in versions : r.version \in Nat
    BY <1>0 DEF TypeOK, VersionRow
  <2> QED BY <2>1, <2>2, FS_Subset
<1>3. s \in Existing => \E r \in Rows(s) : r.version = secrets[s].current
  BY DEF ReadInv, HistInv, IInv, CurrentIsNewest
<1>4. Rows(s) # {} => s \in Existing
  BY DEF ReadInv, HistInv, IInv, CurrentIsNewest, Rows
<1>5. ASSUME NEW r \in Latest(s), op' = [op EXCEPT ![c].kind = "got", ![c].version = r.version]
      PROVE  ReadInProgress(c)'
  <2>1. r \in Rows(s) /\ \A q \in Rows(s) : q.version <= r.version
    <3>1. r \in Rows(s) /\ r \in Newest(Rows(s), 1)
      BY <1>5 DEF Latest, Newest
    <3> QED BY <1>2, <3>1, NewestIsHighest
  <2>2. s \in Existing /\ op[c].seen <= secrets[s].current
    BY <1>1, <1>4, <2>1 DEF Existing
  <2>3. op[c].seen \in Nat /\ secrets[s].current \in Nat /\ r.version \in Nat
    BY <1>0, <1>1, <1>2, <2>1 DEF TypeOK, SecretRow, Op
  <2>4. r.version >= op[c].seen
    BY <1>3, <2>1, <2>2, <2>3
  <2>5. /\ op'[c].kind = "got" /\ op'[c].secret = s
        /\ op'[c].version = r.version /\ op'[c].seen = op[c].seen
    BY <1>0, <1>5 DEF Op
  <2> QED BY <1>1, <2>4, <2>5 DEF ReadInProgress
<1>6. ASSUME Rows(s) = {}, op' = [op EXCEPT ![c].kind = "missed"]
      PROVE  ReadInProgress(c)'
  <2>1. secrets[s].status = "destroyed"
    BY <1>1, <1>3, <1>6
  <2>2. op'[c].kind = "missed" /\ op'[c].secret = s
    BY <1>0, <1>6 DEF Op
  <2> QED BY <1>1, <2>1, <2>2 DEF ReadInProgress
<1> QED BY <1>5, <1>6 DEF GetLatest

\* Every step keeps the reads fresh.
LEMMA ReadStep == ReadInv /\ [Next]_vars => ReadInv'
<1> SUFFICES ASSUME ReadInv, [Next]_vars
             PROVE  \A c \in Clients : ReadInProgress(c)'
  BY HistoryStep DEF ReadInv
<1>0. HistInv /\ TypeOK /\ op \in [Clients -> Op]
  BY DEF ReadInv, HistInv, IInv, LockInv, TypeOK
<1> TAKE c \in Clients
<1>1. CASE UNCHANGED op[c]
  BY <1>0, <1>1, ReadKept DEF ReadInv
<1>2. CASE op'[c].kind \notin {"get", "got", "missed"}
  BY <1>2 DEF ReadInProgress
<1>3. CASE GetLatest(c)
  BY <1>3, ReadReturns
<1>4. ASSUME NEW a \in Addresses, GetRow(c, a)
      PROVE  ReadInProgress(c)'
  <2>1. PICK s \in LiveAt(a) :
          op' = [op EXCEPT ![c] = [Found("get", s) EXCEPT !.seen = secrets[s].current]]
    BY <1>4 DEF GetRow
  <2>2. UNCHANGED secrets /\ s \in Existing /\ s \in Secrets /\ secrets[s].current \in Nat
    BY <1>0, <1>4, LiveAtType DEF GetRow, LiveAt, Existing
  <2>3. op'[c].kind = "get" /\ op'[c].secret = s /\ op'[c].seen = secrets[s].current
    BY <1>0, <2>1 DEF Found, Idle
  <2>4. s \in Existing' /\ op'[c].seen <= secrets'[s].current
    BY <2>2, <2>3 DEF Existing
  <2> QED BY <2>2, <2>3, <2>4 DEF ReadInProgress
<1>5. ASSUME NEW d \in Clients, NEW o, op' = [op EXCEPT ![d] = o],
             o.kind \notin {"get", "got", "missed"}
      PROVE  UNCHANGED op[c] \/ op'[c].kind \notin {"get", "got", "missed"}
  BY <1>0, <1>5
<1> DEFINE Other == UNCHANGED op[c] \/ op'[c].kind \notin {"get", "got", "missed"}
<1>6. ASSUME NEW d \in Clients, Finish(d)
      PROVE  Other
  BY <1>0, <1>6 DEF Finish, Idle
<1>7. ASSUME NEW d \in Clients, NEW a, NEW from, LockForPut(d, a, from), from \in Op
      PROVE  Other
  <2>1. CASE op' = [op EXCEPT ![d] = [from EXCEPT !.kind = "put", !.addr = a, !.secret = None]]
    <3>1. [from EXCEPT !.kind = "put", !.addr = a, !.secret = None].kind = "put"
      BY <1>7 DEF Op
    <3> QED BY <1>0, <2>1, <3>1
  <2>2. ASSUME NEW s, op' = [op EXCEPT ![d] = [Found("put", s) EXCEPT
                 !.seen = secrets[s].current, !.origin = from.origin, !.value = from.value]]
        PROVE  Other
    <3>1. [Found("put", s) EXCEPT !.seen = secrets[s].current, !.origin = from.origin,
                                  !.value = from.value].kind = "put"
      BY DEF Found, Idle
    <3> QED BY <1>0, <2>2, <3>1
  <2> QED BY <1>7, <2>1, <2>2 DEF LockForPut
<1>8. ASSUME NEW d \in Clients, NEW a \in Addresses, Begin(d, a)
      PROVE  Other \/ GetRow(c, a)
  <2>1. CASE PutLock(d, a)
    BY <1>7, <2>1, CallTypes DEF PutLock
  <2>2. CASE GetRow(d, a)
    BY <1>0, <2>2 DEF GetRow
  <2>3. CASE \/ RotateFind(d, a) \/ RollbackFind(d, a) \/ FindPolicy(d, a) \/ PruneLock(d, a)
             \/ \E k \in {"meta", "edit", "delete"} : FindFor(k, d, a)
    <3>1. \A e \in Clients \ {d} : op'[e] = op[e]
      BY <1>0, <2>3 DEF RotateFind, RollbackFind, FindPolicy, PruneLock, FindFor
    <3>2. op'[d].kind \in {"rewrite", "policy", "prune", "meta", "edit", "delete"}
      BY <1>0, <2>3 DEF RotateFind, RollbackFind, FindPolicy, PruneLock, FindFor, Found, Idle
    <3> QED BY <3>1, <3>2
  <2> QED BY <1>8, <2>1, <2>2, <2>3 DEF Begin
<1>9. ASSUME NEW d \in Clients, End(d)
      PROVE  Other \/ GetLatest(c)
  <2>1. RewriteLock(d) \/ GetLatest(d) \/ Finish(d)
    BY <1>9 DEF End, PutUnchanged, PutVersion, PutCreate, GetReturn, UpdateMeta,
       SetRotationPolicy, SoftDelete, HardDelete, Prune, Abort
  <2>2. CASE RewriteLock(d)
    BY <1>0, <1>7, <2>2 DEF RewriteLock
  <2>3. CASE GetLatest(d)
    BY <1>0, <2>3 DEF GetLatest
  <2> QED BY <1>6, <2>1, <2>2, <2>3
<1>10. ASSUME NEW d \in Clients, NEW s \in Secrets, DestroyCheck(d, s)
       PROVE  Other
  BY <1>0, <1>10 DEF DestroyCheck, Found, Idle
<1>11. Tick \/ UNCHANGED vars \/ (\E s \in Secrets : Restore(s)) => UNCHANGED op[c]
  BY DEF Tick, vars, Restore
<1>12. Other \/ GetLatest(c) \/ \E a \in Addresses : GetRow(c, a)
  <2> HIDE DEF Other
  <2>1. UNCHANGED op[c] => Other
    BY DEF Other
  <2> QED BY <1>8, <1>9, <1>10, <1>11, <2>1 DEF Next
<1> QED BY <1>1, <1>2, <1>3, <1>4, <1>12

\* An unpinned read returns nothing older than what was current when it looked the
\* secret up, and finds nothing only when the secret has been destroyed since,
\* whatever writers and prunes do between its two statements.
THEOREM ReadsFresh == Spec => []ReadsAreFresh
<1>1. Init => \A c \in Clients : ReadInProgress(c)
  BY DEF Init, ReadInProgress, Idle
<1>2. Init /\ HistInv => ReadInv
  BY <1>1 DEF ReadInv
<1>3. ReadInv => ReadsAreFresh
  BY DEF ReadInv, ReadInProgress, ReadsAreFresh
<1> QED BY <1>2, <1>3, ReadStep, HistoryInvariance, PTL DEF Spec

-----------------------------------------------------------------------------
(* Retention.                                                              *)

\* The rows of a secret can be counted, and their numbers tell them apart.
LEMMA RowsCountable ==
  ASSUME HistInv, NEW s \in Secrets
  PROVE  /\ IsFiniteSet(Rows(s)) /\ \A r \in Rows(s) : r.version \in Nat
         /\ \A q, r \in Rows(s) : q.version = r.version => q = r
         /\ \A r \in Rows(s) : r.version >= 1 /\ r.version <= secrets[s].current
         /\ secrets[s].current \in Nat /\ Retention(s) \in Nat \ {0}
<1>1. IsFiniteSet(Rows(s))
  BY FS_Subset DEF HistInv, History, Rows
<1>2. \A r \in Rows(s) : r.version \in Nat /\ r.version >= 1
  BY DEF HistInv, IInv, LockInv, TypeOK, VersionRow, History, Rows
<1>3. \A q, r \in Rows(s) : q.version = r.version => q = r
  BY DEF HistInv, History, Rows
<1>4. \A r \in Rows(s) : r.version <= secrets[s].current
  BY DEF HistInv, IInv, CurrentIsNewest, Rows
<1>5. secrets[s].current \in Nat /\ secrets[s].keep \in Nat
  BY DEF HistInv, IInv, LockInv, TypeOK, SecretRow
<1>6. Retention(s) \in Nat \ {0}
  BY <1>5, EffectiveKeepType DEF Retention
<1> QED BY <1>1, <1>2, <1>3, <1>4, <1>5, <1>6

\* The row a put inserts is above all others of the secret.
LEMMA RowsWithCountable ==
  ASSUME HistInv, NEW s \in Secrets, NEW v \in Values
  PROVE  /\ IsFiniteSet(RowsWith(s, v))
         /\ \A r \in RowsWith(s, v) : r.secret = s /\ r.version \in Nat
         /\ \A q, r \in RowsWith(s, v) : q.version = r.version => q = r
         /\ \A r \in RowsWith(s, v) : r.version >= 1 /\ r.version <= secrets[s].current + 1
         /\ NewRow(s, v) \in Newest(RowsWith(s, v), Retention(s))
<1> DEFINE c == secrets[s].current
           row == NewRow(s, v)
<1>0. /\ c \in Nat /\ Retention(s) \in Nat \ {0} /\ row.version = c + 1 /\ row.secret = s
      /\ RowsWith(s, v) = Rows(s) \cup {row}
  BY RowsCountable DEF NewRow, RowsWith
<1>1. IsFiniteSet(RowsWith(s, v))
  BY <1>0, RowsCountable, FS_AddElement
<1>2. \A r \in Rows(s) : r.secret = s /\ r.version \in Nat /\ r.version >= 1 /\ r.version <= c
  BY RowsCountable DEF Rows
<1>3. \A r \in RowsWith(s, v) : /\ r.secret = s /\ r.version \in Nat
                                /\ r.version >= 1 /\ r.version <= c + 1
  BY <1>0, <1>2
<1>4. \A r \in Rows(s) : r.version # row.version
  BY <1>0, <1>2
<1>5. \A q, r \in RowsWith(s, v) : q.version = r.version => q = r
  BY <1>0, <1>4, RowsCountable
<1>6. row \in Newest(RowsWith(s, v), Retention(s))
  <2> HIDE DEF row
  <2> QED BY <1>0, <1>1, <1>3, NewestIsHighest
<1> QED BY <1>1, <1>3, <1>5, <1>6

\* So a put leaves, of the rows of its secret and the new one, the newest it was to keep.
LEMMA PutLeaves ==
  ASSUME HistInv, NEW s \in Secrets, NEW v \in Values, PutTo(s, v)
  PROVE  /\ {q \in versions' : q.secret = s} = Newest(RowsWith(s, v), Retention(s))
         /\ \A r \in versions \ versions' :
              r.secret = s /\ r \in RowsWith(s, v) \ Newest(RowsWith(s, v), Retention(s))
         /\ versions' \ versions \subseteq {NewRow(s, v)}
         /\ versions' = {q \in versions : q.secret # s}
                        \cup Newest(RowsWith(s, v), Retention(s))
<1> DEFINE row == NewRow(s, v)
           rows == RowsWith(s, v)
           new == Newest(rows, Retention(s))
<1>1. /\ \A r \in rows : r.secret = s
      /\ \A q, r \in rows : q.version = r.version => q = r
      /\ row \in new /\ row.version = secrets[s].current + 1
  BY RowsWithCountable DEF NewRow
<1>2. new \subseteq rows /\ rows \subseteq versions \cup {row}
  BY DEF Newest, RowsWith, Rows
<1>3. {q \in versions : q.secret = s} \subseteq rows
  BY DEF RowsWith, Rows
<1>4. Prunable(rows, secrets[s].current + 1, Retention(s)) = rows \ new
  <2>1. \A r \in rows : r.version = secrets[s].current + 1 => r \in new
    BY <1>1, <1>2
  <2> HIDE DEF rows
  <2> QED BY <2>1 DEF Prunable
<1>5. versions' = (versions \cup rows) \ (rows \ new)
  BY <1>4 DEF PutTo
<1> HIDE DEF row, rows, new
<1>6. versions' = {q \in versions : q.secret # s} \cup new
  BY <1>1, <1>2, <1>3, <1>5
<1>7. {q \in versions' : q.secret = s} = new
  BY <1>1, <1>2, <1>6
<1>8. \A r \in versions \ versions' : r.secret = s /\ r \in rows \ new
  BY <1>1, <1>5
<1>9. versions' \ versions \subseteq {row}
  BY <1>2, <1>6
<1> QED BY <1>6, <1>7, <1>8, <1>9 DEF row, rows, new

\* A prune leaves the newest rows it was to keep.
LEMMA PruneLeaves ==
  ASSUME HistInv, NEW s \in Secrets, PruneOf(s)
  PROVE  /\ {q \in versions' : q.secret = s} = Newest(Rows(s), Retention(s))
         /\ \A r \in versions \ versions' :
              r.secret = s /\ r \in Rows(s) \ Newest(Rows(s), Retention(s))
         /\ versions' \subseteq versions
         /\ versions' = {q \in versions : q.secret # s} \cup Newest(Rows(s), Retention(s))
<1> DEFINE new == Newest(Rows(s), Retention(s))
<1>1. /\ IsFiniteSet(Rows(s)) /\ \A r \in Rows(s) : r.version \in Nat
      /\ \A r \in Rows(s) : r.version <= secrets[s].current
      /\ Retention(s) \in Nat \ {0}
  BY RowsCountable
<1>2. \A r \in Rows(s) : r.version = secrets[s].current => r \in new
  BY <1>1, NewestIsHighest
<1>3. Prunable(Rows(s), secrets[s].current, Retention(s)) = Rows(s) \ new
  BY <1>2 DEF Prunable
<1>4. versions' = versions \ (Rows(s) \ new)
  BY <1>3 DEF PruneOf
<1>5. /\ new \subseteq Rows(s) /\ Rows(s) \subseteq versions
      /\ \A r \in Rows(s) : r.secret = s
      /\ {q \in versions : q.secret = s} \subseteq Rows(s)
  BY DEF Newest, Rows
<1> HIDE DEF new
<1>6. versions' = {q \in versions : q.secret # s} \cup new
  BY <1>4, <1>5
<1> QED BY <1>4, <1>5, <1>6 DEF new

\* When only the newest rows a retention asks for are left, each of the lost ones has as
\* many above it as that, and no more than that are left.
LEMMA RetentionOf ==
  ASSUME NEW rows, IsFiniteSet(rows), \A p \in rows : p.version \in Nat, NEW n \in Nat \ {0},
         \A p, q \in rows : p.version = q.version => p = q
  PROVE  /\ \A r \in rows \ Newest(rows, n) :
              Cardinality({q \in Newest(rows, n) : q.version > r.version}) >= n
         /\ Cardinality(Newest(rows, n)) <= n
BY NewestSurvive, NewestCount

\* Retention is exact: nothing is lost that should have been kept, and a write leaves
\* nothing it should have pruned, for every retention that ever was in force.
THEOREM RetentionExact == Spec => RetentionIsExact
<1> DEFINE Kept(r) ==
             \/ secrets'[r.secret].status = "destroyed"
             \/ Cardinality({q \in versions' : q.secret = r.secret /\ q.version > r.version})
                  >= EffectiveKeep(secrets[r.secret].keep)
           Bounded(r) ==
             Cardinality({q \in versions' : q.secret = r.secret})
               <= EffectiveKeep(secrets'[r.secret].keep)
<1>1. ASSUME HistInv, [Next]_vars
      PROVE  (\A r \in versions \ versions' : Kept(r)) /\ (\A r \in versions' \ versions : Bounded(r))
  <2>0. TypeOK /\ TableChange /\ secrets \in [Secrets -> SecretRow]
    BY <1>1, TableChanges DEF HistInv, IInv, LockInv, TypeOK
  <2>1. CASE UNCHANGED versions
    BY <2>1
  <2>2. ASSUME NEW s \in Secrets, NEW v \in Values, PutTo(s, v)
        PROVE  /\ \A r \in versions \ versions' : Kept(r)
               /\ \A r \in versions' \ versions : Bounded(r)
    <3> DEFINE rows == RowsWith(s, v)
               n == Retention(s)
    <3>1. /\ {q \in versions' : q.secret = s} = Newest(rows, n)
          /\ \A r \in versions \ versions' : r.secret = s /\ r \in rows \ Newest(rows, n)
          /\ versions' \ versions \subseteq {NewRow(s, v)} /\ NewRow(s, v).secret = s
      BY <1>1, <2>2, PutLeaves DEF NewRow
    <3>2. n = EffectiveKeep(secrets[s].keep) /\ n = EffectiveKeep(secrets'[s].keep)
      BY <2>0, <2>2 DEF PutTo, SecretRow, Retention
    <3>3. /\ \A r \in rows \ Newest(rows, n) :
               Cardinality({q \in Newest(rows, n) : q.version > r.version}) >= n
          /\ Cardinality(Newest(rows, n)) <= n
      BY <1>1, RowsCountable, RowsWithCountable, RetentionOf
    <3> HIDE DEF rows, n
    <3>4. ASSUME NEW r \in versions \ versions'
          PROVE  Kept(r)
      <4>1. r.secret = s /\ r \in rows \ Newest(rows, n)
        BY <3>1, <3>4
      <4>2. {q \in versions' : q.secret = r.secret /\ q.version > r.version}
              = {q \in Newest(rows, n) : q.version > r.version}
        BY <3>1, <4>1
      <4>3. Cardinality({q \in versions' : q.secret = r.secret /\ q.version > r.version}) >= n
        BY <3>3, <4>1, <4>2
      <4> QED BY <3>2, <4>1, <4>3
    <3>5. ASSUME NEW r \in versions' \ versions
          PROVE  Bounded(r)
      <4>1. r.secret = s
        BY <3>1, <3>5
      <4>2. {q \in versions' : q.secret = r.secret} = Newest(rows, n)
        BY <3>1, <4>1
      <4> QED BY <3>2, <3>3, <4>1, <4>2
    <3> QED BY <3>4, <3>5
  <2>3. ASSUME NEW s \in Secrets, NEW a \in Addresses, NEW v \in Values, CreateOf(s, a, v)
        PROVE  /\ versions \subseteq versions'
               /\ \A r \in versions' \ versions : Bounded(r)
    <3> DEFINE row == [secret |-> s, version |-> 1, value |-> v]
    <3>1. versions' = versions \cup {row} /\ row.secret = s
      BY <2>3 DEF CreateOf
    <3>2. \A r \in versions : r.secret # s
      BY <1>1, <2>3 DEF CreateOf, HistInv, IInv, CurrentIsNewest, Existing
    <3> HIDE DEF row
    <3>3. {q \in versions' : q.secret = s} = {row}
      BY <3>1, <3>2
    <3>4. EffectiveKeep(secrets'[s].keep) \in Nat \ {0}
      <4>1. secrets'[s].keep \in Nat
        BY <1>1, <2>0, TypeStep DEF TypeOK, SecretRow
      <4> QED BY <4>1, EffectiveKeepType
    <3>5. Cardinality({q \in versions' : q.secret = s}) = 1
      BY <3>3, FS_Singleton
    <3>6. \A r \in versions' \ versions : r.secret = s
      BY <3>1
    <3> QED BY <3>1, <3>4, <3>5, <3>6
  <2>4. ASSUME NEW s \in Secrets, PruneOf(s)
        PROVE  /\ \A r \in versions \ versions' : Kept(r)
               /\ versions' \subseteq versions
    <3> DEFINE rows == Rows(s)
               n == Retention(s)
    <3>1. /\ {q \in versions' : q.secret = s} = Newest(rows, n)
          /\ \A r \in versions \ versions' : r.secret = s /\ r \in rows \ Newest(rows, n)
          /\ versions' \subseteq versions
      BY <1>1, <2>4, PruneLeaves
    <3>2. n = EffectiveKeep(secrets[s].keep)
      BY DEF Retention
    <3>3. \A r \in rows \ Newest(rows, n) :
            Cardinality({q \in Newest(rows, n) : q.version > r.version}) >= n
      BY <1>1, RowsCountable, RetentionOf
    <3> HIDE DEF rows, n
    <3>4. ASSUME NEW r \in versions \ versions'
          PROVE  Kept(r)
      <4>1. r.secret = s /\ r \in rows \ Newest(rows, n)
        BY <3>1, <3>4
      <4>2. {q \in versions' : q.secret = r.secret /\ q.version > r.version}
              = {q \in Newest(rows, n) : q.version > r.version}
        BY <3>1, <4>1
      <4>3. Cardinality({q \in versions' : q.secret = r.secret /\ q.version > r.version}) >= n
        BY <3>3, <4>1, <4>2
      <4> QED BY <3>2, <4>1, <4>3
    <3> QED BY <3>1, <3>4
  <2>5. ASSUME NEW s \in Secrets, DestroyOf(s)
        PROVE  /\ \A r \in versions \ versions' : Kept(r)
               /\ versions' \subseteq versions
    <3>1. \A r \in versions \ versions' : r.secret = s
      BY <2>5 DEF DestroyOf, Rows
    <3>2. secrets'[s].status = "destroyed"
      BY <2>0, <2>5 DEF DestroyOf, NoRow
    <3> QED BY <2>5, <3>1, <3>2 DEF DestroyOf
  <2> HIDE DEF Kept, Bounded
  <2>6. MetaOnly \/ (\E s \in Secrets : StatusOf(s)) => UNCHANGED versions
    BY DEF MetaOnly, StatusOf
  <2> QED BY <2>0, <2>1, <2>2, <2>3, <2>4, <2>5, <2>6 DEF TableChange
<1>2. HistInv /\ [Next]_vars
        => [/\ \A r \in versions \ versions' :
                 \/ secrets'[r.secret].status = "destroyed"
                 \/ Cardinality({q \in versions' : q.secret = r.secret
                                                    /\ q.version > r.version})
                      >= EffectiveKeep(secrets[r.secret].keep)
            /\ \A r \in versions' \ versions :
                 Cardinality({q \in versions' : q.secret = r.secret})
                   <= EffectiveKeep(secrets'[r.secret].keep)]_vars
  BY <1>1
<1> QED BY <1>2, HistoryInvariance, PTL DEF RetentionIsExact, Spec

-----------------------------------------------------------------------------
(* The store of one register per secret.                                   *)

\* What the refinement makes of the tables.
Status == [s \in Secrets |-> secrets[s].status]
Place == [s \in Secrets |-> secrets[s].addr]
Head == [s \in Secrets |-> secrets[s].current]
Pairs(rows) == {<<r.version, r.value>> : r \in rows}
Kept == [s \in Secrets |-> Pairs(Rows(s))]

\* The newest rows are those from some number on, which one of them has.
LEMMA FloorOfNewest ==
  ASSUME NEW rows, IsFiniteSet(rows), \A p \in rows : p.version \in Nat, NEW n \in Nat,
         Newest(rows, n) # {}
  PROVE  \E m \in Newest(rows, n) :
           \A r \in rows : r \in Newest(rows, n) <=> r.version >= m.version
<1> DEFINE Numbers == {r.version : r \in Newest(rows, n)}
<1>1. Newest(rows, n) \subseteq rows
  BY DEF Newest
<1>2. Numbers \subseteq Nat /\ Numbers # {}
  BY <1>1
<1>3. \E x \in Numbers : \A y \in Numbers : x <= y
  <2> HIDE DEF Numbers
  <2> QED BY <1>2, LeastNatural
<1>4. PICK m \in Newest(rows, n) : \A r \in Newest(rows, n) : m.version <= r.version
  BY <1>3
<1>5. ASSUME NEW r \in rows, m.version <= r.version
      PROVE  r \in Newest(rows, n)
  BY <1>5, NewestUpward
<1>6. \A r \in rows : r.version >= m.version <=> m.version <= r.version
  BY <1>1
<1> QED BY <1>1, <1>4, <1>5, <1>6

\* Keeping the newest rows forgets the oldest values.
LEMMA FloorOfPairs ==
  ASSUME NEW rows, NEW new, new \subseteq rows, NEW floor \in Nat,
         \A r \in rows : r \in new <=> r.version >= floor
  PROVE  Pairs(new) = Store!From(Pairs(rows), floor)
BY DEF Pairs, Store!From

\* Rows of other secrets are not touched by a change to the rows of one.
LEMMA OtherRows ==
  ASSUME NEW s \in Secrets, NEW new,
         versions' = {q \in versions : q.secret # s} \cup new, \A r \in new : r.secret = s
  PROVE  Kept' = [Kept EXCEPT ![s] = Pairs(new)]
<1>1. Rows(s)' = new
  BY DEF Rows
<1>2. \A t \in Secrets \ {s} : Rows(t)' = Rows(t)
  BY DEF Rows
<1>3. Kept' = [t \in Secrets |-> Pairs(Rows(t)')]
  BY DEF Kept, Pairs
<1> QED BY <1>1, <1>2, <1>3 DEF Kept

\* A put is a write.
LEMMA PutIsWrite ==
  ASSUME HistInv, NEW s \in Secrets, NEW v \in Values, PutTo(s, v)
  PROVE  \E floor \in 1 .. Head[s] + 1 : Store!Write(s, v, floor)
<1> DEFINE rows == RowsWith(s, v)
           new == Newest(rows, Retention(s))
           c == secrets[s].current
<1>0. TypeOK /\ secrets \in [Secrets -> SecretRow] /\ c \in Nat
  BY DEF HistInv, IInv, LockInv, TypeOK, SecretRow
<1>1. /\ IsFiniteSet(rows) /\ Retention(s) \in Nat \ {0} /\ NewRow(s, v) \in new
      /\ \A r \in rows : r.secret = s /\ r.version \in Nat /\ r.version >= 1 /\ r.version <= c + 1
  BY RowsCountable, RowsWithCountable
<1>2. new \subseteq rows
  BY DEF Newest
<1>3. PICK m \in new : \A r \in rows : r \in new <=> r.version >= m.version
  <2> HIDE DEF rows
  <2> QED BY <1>1, FloorOfNewest
<1>4. m.version \in 1 .. c + 1 /\ m.version \in Nat
  BY <1>0, <1>1, <1>2
<1>5. Head[s] = c /\ Status[s] = "live"
  BY DEF Head, Status, PutTo
<1>6. <<c, v>> \notin Kept[s]
  <2>1. ASSUME NEW r \in Rows(s), r.version = c
        PROVE  r.value # v
    <3>1. r \in Newest(Rows(s), 1)
      BY <2>1, RowsCountable, NewestIsHighest
    <3> QED BY <3>1 DEF PutTo, Latest
  <2> QED BY <2>1 DEF Kept, Pairs
<1>7. Head' = [Head EXCEPT ![s] = @ + 1]
  BY <1>0 DEF Head, PutTo, SecretRow
<1>8. UNCHANGED <<Status, Place>>
  BY <1>0 DEF Status, Place, PutTo, SecretRow
<1>9. Kept' = [Kept EXCEPT ![s] = Store!From(@ \cup {<<Head[s] + 1, v>>}, m.version)]
  <2>1. Pairs(new) = Store!From(Pairs(rows), m.version)
    <3> HIDE DEF rows, new
    <3> QED BY <1>2, <1>3, <1>4, FloorOfPairs
  <2>2. Pairs(rows) = Kept[s] \cup {<<Head[s] + 1, v>>}
    <3> DEFINE row == NewRow(s, v)
    <3>1. <<row.version, row.value>> = <<Head[s] + 1, v>> /\ Kept[s] = Pairs(Rows(s))
      BY <1>5 DEF NewRow, Kept
    <3>2. rows = Rows(s) \cup {row}
      BY DEF RowsWith
    <3> HIDE DEF row, rows
    <3>3. Pairs(rows) = Pairs(Rows(s)) \cup {<<row.version, row.value>>}
      BY <3>2 DEF Pairs
    <3> QED BY <3>1, <3>3
  <2>3. Kept' = [Kept EXCEPT ![s] = Pairs(new)]
    BY <1>1, <1>2, PutLeaves, OtherRows
  <2> QED BY <2>1, <2>2, <2>3 DEF Kept
<1> HIDE DEF rows, new, c
<1>10. Store!Write(s, v, m.version)
  BY <1>4, <1>5, <1>6, <1>7, <1>8, <1>9 DEF Store!Write, Status, Place, Head, Kept, Pairs
<1> QED BY <1>4, <1>5, <1>10

\* A prune is a trim.
LEMMA PruneIsTrim ==
  ASSUME HistInv, NEW s \in Secrets, PruneOf(s)
  PROVE  \E floor \in 1 .. Head[s] : Store!Trim(s, floor)
<1> DEFINE rows == Rows(s)
           new == Newest(rows, Retention(s))
           c == secrets[s].current
<1>1. /\ IsFiniteSet(rows) /\ Retention(s) \in Nat \ {0} /\ c \in Nat
      /\ \A r \in rows : r.version \in Nat /\ r.version >= 1 /\ r.version <= c
      /\ \A r \in rows : r.secret = s
  BY RowsCountable DEF Rows
<1>2. new \subseteq rows
  BY DEF Newest
<1>3. new # {}
  <2>1. PICK r \in rows : r.version = c
    BY DEF HistInv, IInv, CurrentIsNewest, Existing, PruneOf
  <2>2. r \in new
    <3> HIDE DEF rows
    <3> QED BY <1>1, <2>1, NewestIsHighest
  <2> QED BY <2>2
<1>4. PICK m \in new : \A r \in rows : r \in new <=> r.version >= m.version
  <2> HIDE DEF rows
  <2> QED BY <1>1, <1>3, FloorOfNewest
<1>5. m.version \in 1 .. c /\ m.version \in Nat
  BY <1>1, <1>2
<1>6. Head[s] = c /\ Status[s] = "live" /\ UNCHANGED <<Status, Place, Head>>
  BY DEF Head, Status, Place, PruneOf
<1>7. Kept' = [Kept EXCEPT ![s] = Store!From(@, m.version)]
  <2>1. Pairs(new) = Store!From(Pairs(rows), m.version)
    <3> HIDE DEF rows, new
    <3> QED BY <1>2, <1>4, <1>5, FloorOfPairs
  <2>2. Kept' = [Kept EXCEPT ![s] = Pairs(new)]
    BY <1>1, <1>2, PruneLeaves, OtherRows
  <2> QED BY <2>1, <2>2 DEF Kept
<1> HIDE DEF rows, new, c
<1>8. Store!Trim(s, m.version)
  BY <1>5, <1>6, <1>7 DEF Store!Trim, Status, Place, Head, Kept, Pairs
<1> QED BY <1>5, <1>6, <1>8

\* A create is a create.
LEMMA CreateIsCreate ==
  ASSUME HistInv, NEW s \in Secrets, NEW a \in Addresses, NEW v \in Values, CreateOf(s, a, v)
  PROVE  Store!Create(s, a, v)
<1>0. secrets \in [Secrets -> SecretRow]
  BY DEF HistInv, IInv, LockInv, TypeOK
<1>1. Status[s] = "absent"
  BY DEF CreateOf, Status
<1>2. Store!Vacant(a)
  BY DEF CreateOf, LiveAt, Store!Vacant
<1>3. /\ Status' = [Status EXCEPT ![s] = "live"]
      /\ Place' = [Place EXCEPT ![s] = a]
      /\ Head' = [Head EXCEPT ![s] = 1]
  BY <1>0 DEF CreateOf, Status, Place, Head, NoRow
<1>4. Kept' = [Kept EXCEPT ![s] = {<<1, v>>}]
  <2> DEFINE row == [secret |-> s, version |-> 1, value |-> v]
  <2>1. \A r \in versions : r.secret # s
    BY DEF CreateOf, HistInv, IInv, CurrentIsNewest, Existing
  <2>2. row.secret = s /\ versions' = versions \cup {row} /\ Pairs({row}) = {<<1, v>>}
    BY DEF CreateOf, Pairs
  <2> HIDE DEF row
  <2>3. versions' = {q \in versions : q.secret # s} \cup {row}
    BY <2>1, <2>2
  <2>4. Kept' = [Kept EXCEPT ![s] = Pairs({row})]
    BY <2>2, <2>3, OtherRows
  <2> QED BY <2>2, <2>4
<1> QED BY <1>1, <1>2, <1>3, <1>4 DEF Store!Create, Status, Place, Head, Kept, Pairs

\* A destroy is a destroy.
LEMMA DestroyIsDestroy ==
  ASSUME HistInv, NEW s \in Secrets, DestroyOf(s)
  PROVE  Store!Destroy(s)
<1>0. secrets \in [Secrets -> SecretRow]
  BY DEF HistInv, IInv, LockInv, TypeOK
<1>1. /\ Status[s] = "deleted"
      /\ Status' = [Status EXCEPT ![s] = "destroyed"]
      /\ Place' = [Place EXCEPT ![s] = None]
      /\ Head' = [Head EXCEPT ![s] = 0]
  BY <1>0 DEF DestroyOf, Status, Place, Head, NoRow
<1>2. versions' = {q \in versions : q.secret # s} \cup {}
  BY DEF DestroyOf, Rows
<1>3. Kept' = [Kept EXCEPT ![s] = {}]
  <2>1. Pairs({}) = {}
    BY DEF Pairs
  <2>2. Kept' = [Kept EXCEPT ![s] = Pairs({})]
    BY <1>2, OtherRows
  <2> QED BY <2>1, <2>2
<1> QED BY <1>1, <1>3 DEF Store!Destroy, Status, Place, Head, Kept, Pairs

\* A delete is a delete and a restore a restore.
LEMMA StatusIsDeleteOrRestore ==
  ASSUME HistInv, NEW s \in Secrets, StatusOf(s)
  PROVE  Store!Delete(s) \/ Store!Restore(s)
<1>0. secrets \in [Secrets -> SecretRow]
  BY DEF HistInv, IInv, LockInv, TypeOK
<1>1. UNCHANGED <<Place, Head, Kept>>
  BY DEF StatusOf, Place, Head, Kept, Rows
<1>2. Status' = [Status EXCEPT ![s] = secrets'[s].status]
  BY DEF StatusOf, Status
<1>3. CASE secrets[s].status = "live" /\ secrets'[s].status = "deleted"
  BY <1>1, <1>2, <1>3 DEF Store!Delete, Status, Place, Head, Kept, Pairs
<1>4. CASE /\ secrets[s].status = "deleted" /\ secrets'[s].status = "live"
           /\ LiveAt(secrets[s].addr) = {}
  <2>1. Store!Vacant(Place[s])
    BY <1>4 DEF LiveAt, Place, Store!Vacant
  <2> QED BY <1>1, <1>2, <1>4, <2>1 DEF Store!Restore, Status, Place, Head, Kept, Pairs
<1> QED BY <1>3, <1>4 DEF StatusOf

\* The statement-by-statement model implements the store of atomic registers: the
\* initial tables are an empty store, and every step is one call of the store or none.
THEOREM ImplementsTheStore == Spec => ImplementsStore
<1>1. Init => Store!Init
  <2> SUFFICES ASSUME Init
               PROVE  Store!Init
    OBVIOUS
  <2>1. \A s \in Secrets : Pairs(Rows(s)) = {}
    BY DEF Init, Rows, Pairs
  <2> QED BY <2>1 DEF Init, Store!Init, NoRow, Pairs
<1>2. HistInv /\ [Next]_vars => [Store!Next]_(Store!vars)
  <2> SUFFICES ASSUME HistInv, [Next]_vars
               PROVE  [Store!Next]_(Store!vars)
    OBVIOUS
  <2>1. TableChange
    BY TableChanges DEF HistInv
  <2>2. CASE MetaOnly
    <3>1. UNCHANGED <<Status, Place, Head, Kept>>
      BY <2>2 DEF MetaOnly, Status, Place, Head, Kept, Rows
    <3> QED BY <3>1 DEF Store!vars, Status, Place, Head, Kept, Pairs
  <2>3. ASSUME NEW s \in Secrets, NEW v \in Values, PutTo(s, v)
        PROVE  Store!Next
    <3>1. \E floor \in 1 .. Head[s] + 1 : Store!Write(s, v, floor)
      BY <2>3, PutIsWrite
    <3> QED BY <3>1 DEF Store!Next, Head
  <2>4. ASSUME NEW s \in Secrets, NEW a \in Addresses, NEW v \in Values, CreateOf(s, a, v)
        PROVE  Store!Next
    BY <2>4, CreateIsCreate DEF Store!Next
  <2>5. ASSUME NEW s \in Secrets, PruneOf(s)
        PROVE  Store!Next
    <3>1. \E floor \in 1 .. Head[s] : Store!Trim(s, floor)
      BY <2>5, PruneIsTrim
    <3> QED BY <3>1 DEF Store!Next, Head
  <2>6. ASSUME NEW s \in Secrets, DestroyOf(s) \/ StatusOf(s)
        PROVE  Store!Next
    BY <2>6, DestroyIsDestroy, StatusIsDeleteOrRestore DEF Store!Next
  <2> QED BY <2>1, <2>2, <2>3, <2>4, <2>5, <2>6 DEF TableChange
<1> QED BY <1>1, <1>2, HistoryInvariance, PTL DEF Spec, ImplementsStore, Store!Spec

=============================================================================
