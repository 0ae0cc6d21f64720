----------------------------- MODULE RevealProofs -----------------------------
(***************************************************************************)
(* Proofs about a reveal: the imports that lead it to a secret (Imports),  *)
(* what it may read and must log and which secret it lands on (Reveals),   *)
(* and the allowance it counts the read against (ReadLeases). Reveals      *)
(* extends Imports; ReadLeases shares no state with them, and nothing here *)
(* says how they meet.                                                     *)
(*                                                                         *)
(* ReadLeases, for any number of reveals, requesters, policies and leases: *)
(* its types, that a lease never serves more than its cap, that a reveal   *)
(* spends only its own requester's allowance, and, when the clocks of the  *)
(* replicas agree, that allowances do not overlap and decisions hold. The  *)
(* table is what is inductive. TableHolds says it of any table of leases,  *)
(* because one transaction builds the next one in up to three steps: it    *)
(* closes the expired lease, adds a new one, and counts the read.          *)
(*                                                                         *)
(* Imports, for any folders and creators: its types, and that a circle     *)
(* takes two creations that overlap or an import switched on. No path is   *)
(* ever named: a set that no import leads out of says that one folder is   *)
(* not reached from another, and what a walk has seen becomes such a set   *)
(* when it ends.                                                           *)
(*                                                                         *)
(* Reveals, for any imports, references, grants and readers, changing      *)
(* between any two steps: nothing ungranted or unlogged is returned, and   *)
(* what is found while nothing changes is a nearest folder that holds the  *)
(* secret, the first in order if it is one import away.                    *)
(***************************************************************************)
EXTENDS ReadLeases, Reveals, FiniteSetTheorems, SequenceTheorems, NaturalsInduction,
        WellFoundedInduction, TLAPS

-----------------------------------------------------------------------------
(* Read leases.                                                            *)

\* Rows are numbered without gaps.
Numbered(t) == DOMAIN t = 1..Cardinality(DOMAIN t)

\* What was decrypted, and what is about to be, is counted, within the cap.
Counted(t) ==
  /\ \A l \in DOMAIN t : /\ served[l] + Cardinality(Granted(l)) <= t[l].used
                         /\ t[l].reads # 0 => t[l].used <= t[l].reads
  /\ \A l \in Ids : l \notin DOMAIN t => served[l] = 0 /\ Granted(l) = {}

\* A requester has one live lease.
IsOpen(x) == x.revoked = ""

\* uq_secret_leases_live.
OneOpen(t) ==
  \A j, l \in DOMAIN t :
    IsOpen(t[j]) /\ IsOpen(t[l]) /\ t[j].requester = t[l].requester => j = l

TableHolds(t) ==
  Numbered(t) /\ DOMAIN t \subseteq Ids /\ t \in [DOMAIN t -> Lease] /\ Counted(t) /\ OneOpen(t)

\* What a reveal has in hand.
Holds(o) ==
  /\ o \in Op
  /\ o.found \in {0} \cup Rows /\ o.started <= now
  /\ o.pc = "granted" => o.found \in Rows
  /\ o.pc \in {"policy", "select"} => o.who \in Requesters /\ o.policy \in Policies
  /\ o.pc = "select" /\ o.found # 0 => leases[o.found].requester = o.who

InHand == \A c \in Clients : Holds(op[c])

PlainTypes ==
  /\ policy \in Policies \cup {NoPolicy} /\ expiry \in Expiries /\ deleted \in BOOLEAN
  /\ op \in [Clients -> Op] /\ served \in [Ids -> Nat] /\ now \in 0..MaxNow

IInv == PlainTypes /\ TableHolds(leases) /\ InHand

-----------------------------------------------------------------------------
(* The parts.                                                              *)

\* A client between two reveals holds nothing.
LEMMA IdleHolds ==
  ASSUME now \in 0..MaxNow
  PROVE  Holds(Idle) /\ Idle.pc = "idle" /\ Idle.why = ""
BY BoundAssumption DEF Holds, Idle, Op, NoPolicy

\* The reveals that a lease was granted to are finitely many.
LEMMA GrantedCounted ==
  ASSUME NEW l \in Ids
  PROVE  IsFiniteSet(Granted(l)) /\ Cardinality(Granted(l)) \in Nat
<1>1. Granted(l) \subseteq Clients
  BY DEF Granted
<1>2. QED
  BY <1>1, ClientAssumption, FS_Subset, FS_CardinalityType

\* A reveal that is not granted anything by its step leaves no set of grants larger.
LEMMA GrantsShrink ==
  ASSUME op \in [Clients -> Op], NEW c \in Clients, NEW o \in Op, o.pc # "granted",
         op' = [op EXCEPT ![c] = o], NEW l \in Ids
  PROVE  /\ Granted(l)' = Granted(l) \ {c}
         /\ Cardinality(Granted(l)') <= Cardinality(Granted(l))
<1>1. Granted(l)' = Granted(l) \ {c}
  BY DEF Granted
<1>2. IsFiniteSet(Granted(l))
  BY GrantedCounted
<1>3. Granted(l)' \subseteq Granted(l)
  BY <1>1
<1>4. Cardinality(Granted(l)') <= Cardinality(Granted(l))
  BY <1>2, <1>3, FS_Subset
<1>5. QED
  BY <1>1, <1>4

\* A step that only changes what one reveal has in hand, and grants it nothing.
LEMMA HandChanges ==
  ASSUME IInv, NEW c \in Clients, NEW o, Holds(o), o.pc # "granted",
         op' = [op EXCEPT ![c] = o],
         UNCHANGED <<policy, expiry, deleted, leases, served, now>>
  PROVE  IInv'
<1>1. o \in Op /\ op \in [Clients -> Op] /\ served \in [Ids -> Nat]
  BY DEF Holds, IInv, PlainTypes
<1>2. PlainTypes'
  BY <1>1 DEF IInv, PlainTypes
<1>3. InHand'
  <2>1. SUFFICES ASSUME NEW d \in Clients PROVE Holds(op[d])'
    BY DEF InHand
  <2>2. PICK q : q = op'[d]
    OBVIOUS
  <2>3. Holds(q)
    BY <1>1, <2>2 DEF IInv, InHand
  <2>4. QED
    BY <2>2, <2>3 DEF Holds, Rows
<1>4. TableHolds(leases)'
  <2>1. DOMAIN leases \subseteq Ids
    BY DEF IInv, TableHolds
  <2>2. ASSUME NEW l \in Ids
        PROVE  /\ Cardinality(Granted(l))' \in Nat /\ Cardinality(Granted(l)) \in Nat
               /\ Cardinality(Granted(l))' <= Cardinality(Granted(l))
               /\ Granted(l)' \subseteq Granted(l)
    <3>1. /\ Granted(l)' = Granted(l) \ {c}
          /\ Cardinality(Granted(l)') <= Cardinality(Granted(l))
      BY <1>1, GrantsShrink
    <3>2. IsFiniteSet(Granted(l)) /\ Cardinality(Granted(l)) \in Nat
      BY GrantedCounted
    <3>3. IsFiniteSet(Granted(l)') /\ Cardinality(Granted(l)') \in Nat
      BY <3>1, <3>2, FS_Subset, FS_CardinalityType
    <3>4. QED
      BY <3>1, <3>2, <3>3
  <2>3. ASSUME NEW l \in DOMAIN leases
        PROVE  served[l] + Cardinality(Granted(l))' <= leases[l].used
    <3>1. served[l] + Cardinality(Granted(l)) <= leases[l].used
      BY DEF IInv, TableHolds, Counted
    <3>2. leases[l].used \in Nat /\ served[l] \in Nat
      BY <1>1, <2>1 DEF IInv, TableHolds, Lease
    <3>3. QED
      BY <2>1, <2>2, <3>1, <3>2
  <2>4. \A l \in Ids : l \notin DOMAIN leases => served[l] = 0 /\ Granted(l)' = {}
    BY <2>2 DEF IInv, TableHolds, Counted
  <2>5. Counted(leases)'
    <3>1. \A l \in DOMAIN leases : leases[l].reads # 0 => leases[l].used <= leases[l].reads
      BY DEF IInv, TableHolds, Counted
    <3>2. QED
      BY <2>3, <2>4, <3>1 DEF Counted
  <2>6. QED
    BY <2>5 DEF IInv, TableHolds, Numbered, OneOpen
<1>5. QED
  BY <1>2, <1>3, <1>4 DEF IInv

-----------------------------------------------------------------------------
(* The table, one change at a time.                                        *)

\* One row of it.
LEMMA RowClosed ==
  ASSUME NEW x \in Lease, NEW reason \in {"expired", "explicit", "policy"}, NEW y,
         y = [x EXCEPT !.revoked = reason]
  PROVE  /\ y \in Lease /\ y.revoked = reason
         /\ y.used = x.used /\ y.reads = x.reads /\ y.requester = x.requester
         /\ y.expires = x.expires /\ y.issued = x.issued
BY DEF Lease, Reasons

\* A row with one more read counted.
LEMMA RowCounted ==
  ASSUME NEW x \in Lease, NEW y, y = [x EXCEPT !.used = @ + 1]
  PROVE  /\ y \in Lease /\ y.used = x.used + 1 /\ x.used \in Nat /\ x.reads \in Nat
         /\ y.reads = x.reads /\ y.revoked = x.revoked /\ y.requester = x.requester
         /\ y.expires = x.expires /\ y.issued = x.issued
BY DEF Lease

\* CreateSecretLease numbers the new row after the last.
LEMMA NextRow ==
  ASSUME NEW t, Numbered(t), DOMAIN t \subseteq Ids, NEW m, m = Cardinality(DOMAIN t)
  PROVE  /\ m \in Nat /\ IsFiniteSet(DOMAIN t) /\ DOMAIN t = 1..m /\ m + 1 \notin DOMAIN t
         /\ 1..(m + 1) = DOMAIN t \cup {m + 1}
<1>1. IsFiniteSet(Ids)
  BY BoundAssumption, FS_Interval DEF Ids
<1>2. IsFiniteSet(DOMAIN t) /\ m \in Nat
  BY <1>1, FS_Subset, FS_CardinalityType
<1>3. PICK D : D = DOMAIN t
  OBVIOUS
<1>4. D = 1..m
  BY <1>3 DEF Numbered
<1>5. m + 1 \notin D /\ 1..(m + 1) = D \cup {m + 1}
  BY <1>2, <1>4
<1>6. QED
  BY <1>2, <1>3, <1>4, <1>5

\* Revoked changes why the rows of its set are closed and nothing else.
LEMMA RevokedRow ==
  ASSUME leases \in [Rows -> Lease], NEW S, NEW reason \in {"expired", "explicit", "policy"},
         NEW t, t = Revoked(S, reason)
  PROVE  /\ DOMAIN t = Rows
         /\ \A l \in Rows :
              /\ t[l] \in Lease
              /\ t[l].used = leases[l].used /\ t[l].reads = leases[l].reads
              /\ t[l].requester = leases[l].requester /\ t[l].expires = leases[l].expires
              /\ t[l].issued = leases[l].issued
              /\ t[l].revoked = IF l \in S THEN reason ELSE leases[l].revoked
<1>1. DOMAIN t = Rows /\ \A l \in Rows :
        t[l] = IF l \in S THEN [leases[l] EXCEPT !.revoked = reason] ELSE leases[l]
  BY DEF Revoked
<1>2. SUFFICES ASSUME NEW l \in Rows
               PROVE  /\ t[l] \in Lease
                      /\ t[l].used = leases[l].used /\ t[l].reads = leases[l].reads
                      /\ t[l].requester = leases[l].requester
                      /\ t[l].expires = leases[l].expires /\ t[l].issued = leases[l].issued
                      /\ t[l].revoked = IF l \in S THEN reason ELSE leases[l].revoked
  BY <1>1
<1>3. PICK x : x = leases[l]
  OBVIOUS
<1>4. x \in Lease
  BY <1>2, <1>3
<1>5. CASE l \in S
  <2>1. t[l] = [x EXCEPT !.revoked = reason]
    BY <1>1, <1>2, <1>3, <1>5
  <2>2. QED
    BY <1>3, <1>4, <1>5, <2>1, RowClosed
<1>6. CASE l \notin S
  BY <1>1, <1>2, <1>3, <1>4, <1>6
<1>7. QED
  BY <1>5, <1>6

\* Closing leases keeps the table.  It only closes live ones.
LEMMA TableRevoked ==
  ASSUME TableHolds(leases), NEW S \in SUBSET LiveLeases,
         NEW reason \in {"expired", "explicit", "policy"}, NEW t, t = Revoked(S, reason)
  PROVE  TableHolds(t)
<1>1. leases \in [Rows -> Lease] /\ DOMAIN leases = Rows
  BY DEF TableHolds, Rows
<1>2. /\ DOMAIN t = Rows
      /\ \A l \in Rows :
           /\ t[l] \in Lease
           /\ t[l].used = leases[l].used /\ t[l].reads = leases[l].reads
           /\ t[l].requester = leases[l].requester /\ t[l].expires = leases[l].expires
           /\ t[l].issued = leases[l].issued
           /\ t[l].revoked = IF l \in S THEN reason ELSE leases[l].revoked
  BY <1>1, RevokedRow
<1>3. t \in [Rows -> Lease]
  <2>1. t = [l \in Rows |-> t[l]]
    BY DEF Revoked
  <2>2. QED
    BY <1>2, <2>1
<1>4. Numbered(t)
  <2>1. Numbered(leases)
    BY DEF TableHolds
  <2>2. QED
    BY <1>1, <1>2, <2>1 DEF Numbered
<1>5. OneOpen(t)
  <2>1. \A l \in Rows : IsOpen(t[l]) => IsOpen(leases[l])
    BY <1>2 DEF IsOpen
  <2>2. QED
    BY <1>1, <1>2, <2>1 DEF TableHolds, OneOpen
<1>6. Counted(t)
  <2>1. \A l \in Rows : t[l].used = leases[l].used /\ t[l].reads = leases[l].reads
    BY <1>2
  <2>2. QED
    BY <1>1, <1>2, <2>1 DEF TableHolds, Counted
<1>7. QED
  BY <1>1, <1>2, <1>3, <1>4, <1>5, <1>6 DEF TableHolds

\* Adding a lease for a requester that has no live one keeps the table.
LEMMA TableAdded ==
  ASSUME NEW t, TableHolds(t), NEW x \in Lease, x.used = 0, IsOpen(x),
         NEW n, n = Cardinality(DOMAIN t) + 1, n \in Ids,
         \A l \in DOMAIN t : ~(t[l].requester = x.requester /\ IsOpen(t[l])),
         NEW u, u = [l \in DOMAIN t \cup {n} |-> IF l = n THEN x ELSE t[l]]
  PROVE  TableHolds(u)
<1>1. Numbered(t) /\ DOMAIN t \subseteq Ids /\ t \in [DOMAIN t -> Lease]
  BY DEF TableHolds
<1>2. n \notin DOMAIN t /\ IsFiniteSet(DOMAIN t) /\ 1..n = DOMAIN t \cup {n}
  BY <1>1, NextRow
<1>3. /\ DOMAIN u = DOMAIN t \cup {n} /\ u[n] = x
      /\ \A l \in DOMAIN t : u[l] = t[l]
  BY <1>2
<1>4. Cardinality(DOMAIN u) = n
  BY <1>1, <1>2, <1>3, FS_AddElement
<1>5. Numbered(u)
  BY <1>2, <1>3, <1>4 DEF Numbered
<1>6. u \in [DOMAIN u -> Lease]
  BY <1>1, <1>3
<1>7. served[n] = 0 /\ Granted(n) = {} /\ Cardinality({}) = 0
  BY <1>2, FS_EmptySet DEF TableHolds, Counted
<1>8. ASSUME NEW l \in DOMAIN u
      PROVE  /\ served[l] + Cardinality(Granted(l)) <= u[l].used
             /\ u[l].reads # 0 => u[l].used <= u[l].reads
  <2>1. CASE l = n
    <3>1. x.reads # 0 => 0 <= x.reads
      BY DEF Lease
    <3>2. u[l] = x /\ served[l] = 0 /\ Cardinality(Granted(l)) = 0
      BY <1>3, <1>7, <2>1
    <3>3. QED
      BY <3>1, <3>2
  <2>2. CASE l \in DOMAIN t
    BY <1>3, <2>2 DEF TableHolds, Counted
  <2>3. QED
    BY <1>3, <1>8, <2>1, <2>2
<1>9. OneOpen(u)
  <2>1. SUFFICES ASSUME NEW j \in DOMAIN u, NEW l \in DOMAIN u, IsOpen(u[j]), IsOpen(u[l]),
                        u[j].requester = u[l].requester
                 PROVE  j = l
    BY DEF OneOpen
  <2>2. CASE j \in DOMAIN t /\ l \in DOMAIN t
    BY <1>3, <2>1, <2>2 DEF TableHolds, OneOpen
  <2>3. CASE j = n \/ l = n
    BY <1>3, <2>1, <2>3
  <2>4. QED
    BY <1>3, <2>1, <2>2, <2>3
<1>10. Counted(u)
  <2>1. \A l \in Ids : l \notin DOMAIN u => served[l] = 0 /\ Granted(l) = {}
    BY <1>3 DEF TableHolds, Counted
  <2>2. QED
    BY <1>8, <2>1 DEF Counted
<1>11. DOMAIN u \subseteq Ids
  BY <1>1, <1>3
<1>12. QED
  BY <1>5, <1>6, <1>9, <1>10, <1>11 DEF TableHolds

\* What of its allowance is left.
Left(x) == x.reads = 0 \/ x.used < x.reads

\* The table with one more read counted.
ReadOnce(t, l) == [t EXCEPT ![l].used = @ + 1]

\* Counting a read against a lease with an allowance left, and granting it.
LEMMA ReadCounted ==
  ASSUME NEW t, TableHolds(t), NEW l \in DOMAIN t, Left(t[l]),
         PlainTypes, NEW c \in Clients, op[c].pc # "granted",
         NEW o, o.pc = "granted" /\ o.found = l, op' = [op EXCEPT ![c] = o],
         served' = served, leases' = ReadOnce(t, l)
  PROVE  /\ TableHolds(leases)'
         /\ DOMAIN leases' = DOMAIN t
         /\ \A k \in DOMAIN t :
              /\ leases'[k].requester = t[k].requester /\ leases'[k].revoked = t[k].revoked
              /\ leases'[k].expires = t[k].expires /\ leases'[k].issued = t[k].issued
              /\ k # l => leases'[k].used = t[k].used
<1>1. /\ DOMAIN t \subseteq Ids /\ t \in [DOMAIN t -> Lease]
      /\ op \in [Clients -> Op] /\ served \in [Ids -> Nat]
  BY DEF TableHolds, PlainTypes
<1>2. PICK x, y : x = t[l] /\ y = [x EXCEPT !.used = @ + 1]
  OBVIOUS
<1>3. x \in Lease
  BY <1>1, <1>2
<1>4. /\ y \in Lease /\ y.used = x.used + 1 /\ y.reads = x.reads /\ y.revoked = x.revoked
      /\ y.requester = x.requester /\ y.expires = x.expires /\ y.issued = x.issued
      /\ x.used \in Nat /\ x.reads \in Nat
  BY <1>2, <1>3, RowCounted
<1>5. leases' = [t EXCEPT ![l] = y]
  BY <1>1, <1>2 DEF ReadOnce
<1>6. /\ DOMAIN leases' = DOMAIN t /\ leases' \in [DOMAIN t -> Lease] /\ leases'[l] = y
      /\ \A k \in DOMAIN t : k # l => leases'[k] = t[k]
  BY <1>1, <1>4, <1>5
<1>7. \A k \in Ids : k # l => Granted(k)' = Granted(k)
  BY <1>1 DEF Granted
<1>8. Granted(l)' = Granted(l) \cup {c} /\ c \notin Granted(l)
  BY <1>1 DEF Granted
<1>9. Cardinality(Granted(l)') = Cardinality(Granted(l)) + 1 /\ Cardinality(Granted(l)) \in Nat
  <2>1. IsFiniteSet(Granted(l)) /\ Cardinality(Granted(l)) \in Nat
    BY <1>1, GrantedCounted
  <2>2. QED
    BY <1>8, <2>1, FS_AddElement
<1>10. ASSUME NEW k \in DOMAIN t
       PROVE  /\ served[k] + Cardinality(Granted(k)') <= leases'[k].used
              /\ leases'[k].reads # 0 => leases'[k].used <= leases'[k].reads
  <2>1. served[k] + Cardinality(Granted(k)) <= t[k].used
        /\ (t[k].reads # 0 => t[k].used <= t[k].reads)
    BY DEF TableHolds, Counted
  <2>2. CASE k = l
    <3>1. served[l] \in Nat
      BY <1>1
    <3>2. served[l] + Cardinality(Granted(l)) <= x.used
      BY <1>2, <2>1, <2>2
    <3>3. x.reads = 0 \/ x.used < x.reads
      BY <1>2 DEF Left
    <3>4. leases'[k] = y
      BY <1>6, <2>2
    <3>5. served[l] + Cardinality(Granted(l)') <= y.used
      BY <1>4, <1>9, <3>1, <3>2
    <3>6. y.reads # 0 => y.used <= y.reads
      BY <1>4, <3>3
    <3>7. QED
      BY <2>2, <3>4, <3>5, <3>6
  <2>3. CASE k # l
    <3>1. Granted(k)' = Granted(k) /\ leases'[k] = t[k]
      BY <1>1, <1>6, <1>7, <2>3
    <3>2. QED
      BY <2>1, <3>1
  <2>4. QED
    BY <2>2, <2>3
<1>11. \A k \in Ids : k \notin DOMAIN t => served[k] = 0 /\ Granted(k)' = {}
  BY <1>7 DEF TableHolds, Counted
<1>12. \A k \in DOMAIN t :
         /\ leases'[k].requester = t[k].requester /\ leases'[k].revoked = t[k].revoked
         /\ leases'[k].expires = t[k].expires /\ leases'[k].issued = t[k].issued
         /\ k # l => leases'[k].used = t[k].used
  BY <1>2, <1>4, <1>6
<1>13. Numbered(t) /\ Numbered(leases')
  BY <1>6 DEF TableHolds, Numbered
<1>14. OneOpen(leases')
  <2>1. \A k \in DOMAIN t : /\ IsOpen(leases'[k]) <=> IsOpen(t[k])
                            /\ leases'[k].requester = t[k].requester
    BY <1>12 DEF IsOpen
  <2>2. QED
    BY <1>6, <2>1 DEF TableHolds, OneOpen
<1>15. Counted(leases)'
  BY <1>6, <1>10, <1>11 DEF Counted
<1>16. QED
  BY <1>1, <1>6, <1>12, <1>13, <1>14, <1>15 DEF TableHolds, Numbered, OneOpen, IsOpen

-----------------------------------------------------------------------------
(* The steps.                                                              *)

\* What the other reveals have in hand stays valid while rows are only added and keep
\* their requester.
LEMMA HandKept ==
  ASSUME NEW o, Holds(o), Rows \subseteq Rows',
         \A k \in Rows : leases'[k].requester = leases[k].requester,
         now \in Nat, now' \in Nat, now <= now'
  PROVE  Holds(o)'
<1>1. o \in Op /\ o.started \in Nat /\ o.started <= now
  BY DEF Holds, Op
<1>2. o.started <= now'
  BY <1>1
<1>3. o.found \in {0} \cup Rows'
  BY DEF Holds
<1>4. o.pc = "granted" => o.found \in Rows'
  BY DEF Holds
<1>5. o.pc = "select" /\ o.found # 0 => leases'[o.found].requester = o.who
  BY DEF Holds
<1>6. QED
  BY <1>1, <1>2, <1>3, <1>4, <1>5 DEF Holds

\* A refusal leaves the table as it was: the transaction rolls back.
LEMMA RefuseStep ==
  ASSUME IInv, NEW c \in Clients, NEW why \in {"cap", "raced", "dead", "conflict"},
         Refuse(c, why), UNCHANGED <<policy, expiry, deleted, served, now>>
  PROVE  IInv'
<1>1. PICK o : o = [Idle EXCEPT !.pc = "refused", !.why = why]
  OBVIOUS
<1>2. o.pc = "refused" /\ o.found = 0 /\ o.started = 0
  BY <1>1 DEF Idle
<1>3. o \in Op
  BY <1>1 DEF Idle, Op, NoPolicy
<1>4. now \in 0..MaxNow
  BY DEF IInv, PlainTypes
<1>5. Holds(o)
  BY <1>2, <1>3, <1>4, BoundAssumption DEF Holds
<1>6. op' = [op EXCEPT ![c] = o] /\ leases' = leases
  BY <1>1 DEF Refuse
<1>7. QED
  BY <1>2, <1>5, <1>6, HandChanges

\* The first step of a reveal takes the policy and the requester in hand.
LEMMA ReadPolicyStep ==
  ASSUME IInv, NEW c \in Clients, NEW q \in Requesters, ReadPolicy(c, q)
  PROVE  IInv'
<1>1. PICK o : o = [Idle EXCEPT !.pc = "policy", !.who = q, !.policy = policy]
  OBVIOUS
<1>2. policy \in Policies /\ now \in 0..MaxNow
  BY DEF IInv, PlainTypes, ReadPolicy
<1>3. o.pc = "policy" /\ o.found = 0 /\ o.started = 0 /\ o.who = q /\ o.policy = policy
  BY <1>1 DEF Idle
<1>4. o \in Op
  BY <1>1, <1>2 DEF Idle, Op
<1>5. Holds(o)
  BY <1>2, <1>3, <1>4, BoundAssumption DEF Holds
<1>6. /\ op' = [op EXCEPT ![c] = o]
      /\ UNCHANGED <<policy, expiry, deleted, leases, served, now>>
  BY <1>1 DEF ReadPolicy
<1>7. QED
  BY <1>3, <1>5, <1>6, HandChanges

\* The locking read takes a live lease of the requester in hand, or none.
LEMMA SelectStep ==
  ASSUME IInv, NEW c \in Clients, Select(c)
  PROVE  IInv'
<1>1. PICK w, l : /\ w = op[c]
                  /\ l \in IF LiveOf(c) = {} THEN {0} ELSE LiveOf(c)
                  /\ op' = [op EXCEPT ![c] = [w EXCEPT !.pc = "select", !.found = l, !.started = now]]
  BY DEF Select
<1>2. PICK o : o = [w EXCEPT !.pc = "select", !.found = l, !.started = now]
  OBVIOUS
<1>3. w \in Op /\ Holds(w) /\ w.pc = "policy" /\ now \in 0..MaxNow
  BY <1>1 DEF IInv, PlainTypes, InHand, Select
<1>4. w.who \in Requesters /\ w.policy \in Policies
  BY <1>3 DEF Holds
<1>5. l = 0 \/ (l \in Rows /\ leases[l].requester = w.who)
  BY <1>1 DEF LiveOf, Live
<1>6. Rows \subseteq Ids
  BY DEF IInv, TableHolds, Rows
<1>7. /\ o.pc = "select" /\ o.found = l /\ o.started = now /\ o.who = w.who
      /\ o.policy = w.policy
  BY <1>2, <1>3 DEF Op
<1>8. now \in Nat
  BY <1>3, BoundAssumption
<1>9. o \in Op
  BY <1>2, <1>3, <1>5, <1>6, <1>8 DEF Op
<1>10. Holds(o)
  BY <1>4, <1>5, <1>7, <1>8, <1>9 DEF Holds
<1>11. /\ op' = [op EXCEPT ![c] = o]
       /\ UNCHANGED <<policy, expiry, deleted, leases, served, now>>
  BY <1>1, <1>2 DEF Select
<1>12. QED
  BY <1>7, <1>10, <1>11, HandChanges

\* A reveal that ends without a value: what was counted stays counted.
LEMMA GiveUpStep ==
  ASSUME IInv, NEW c \in Clients, GiveUp(c)
  PROVE  IInv'
<1>1. now \in 0..MaxNow
  BY DEF IInv, PlainTypes
<1>2. Holds(Idle) /\ Idle.pc = "idle"
  BY <1>1, IdleHolds
<1>3. Idle.pc # "granted"
  BY <1>2
<1>4. /\ op' = [op EXCEPT ![c] = Idle]
      /\ UNCHANGED <<policy, expiry, deleted, leases, served, now>>
  BY DEF GiveUp
<1>5. QED
  BY <1>2, <1>3, <1>4, HandChanges

\* A value is decrypted under the grant that was counted for it.
LEMMA ServeStep ==
  ASSUME IInv, NEW c \in Clients, Serve(c)
  PROVE  IInv'
<1>1. PICK l : l = op[c].found
  OBVIOUS
<1>2. /\ op' = [op EXCEPT ![c] = Idle] /\ served' = [served EXCEPT ![l] = @ + 1]
      /\ op[c].pc = "granted" /\ UNCHANGED <<policy, expiry, deleted, leases, now>>
  BY <1>1 DEF Serve
<1>3. /\ op \in [Clients -> Op] /\ served \in [Ids -> Nat] /\ now \in 0..MaxNow
      /\ Rows \subseteq Ids /\ l \in Rows
  BY <1>1, <1>2 DEF IInv, PlainTypes, TableHolds, Rows, InHand, Holds
<1>4. Idle \in Op /\ Holds(Idle) /\ Idle.pc # "granted"
  BY <1>3, IdleHolds DEF Holds
<1>5. op' \in [Clients -> Op] /\ served' \in [Ids -> Nat]
  BY <1>2, <1>3, <1>4
<1>6. PlainTypes'
  BY <1>2, <1>5 DEF IInv, PlainTypes
<1>7. InHand'
  <2>1. SUFFICES ASSUME NEW d \in Clients PROVE Holds(op[d])'
    BY DEF InHand
  <2>2. PICK q : q = op'[d]
    OBVIOUS
  <2>3. Holds(q)
    BY <1>2, <1>3, <1>4, <2>2 DEF IInv, InHand
  <2>4. QED
    BY <1>2, <2>2, <2>3 DEF Holds, Rows
<1>8. \A k \in Ids : Granted(k)' = Granted(k) \ {c}
  BY <1>2, <1>3, <1>4, GrantsShrink
<1>9. c \in Granted(l) /\ \A k \in Ids : k # l => c \notin Granted(k)
  BY <1>1, <1>2 DEF Granted
<1>10. Counted(leases)'
  <2>1. IsFiniteSet(Granted(l)) /\ Cardinality(Granted(l)) \in Nat
    BY <1>3, GrantedCounted
  <2>2. Cardinality(Granted(l)') = Cardinality(Granted(l)) - 1
    BY <1>3, <1>8, <1>9, <2>1, FS_RemoveElement
  <2>3. served'[l] = served[l] + 1 /\ served[l] \in Nat
    BY <1>2, <1>3
  <2>4. served'[l] + Cardinality(Granted(l)') = served[l] + Cardinality(Granted(l))
    BY <2>1, <2>2, <2>3
  <2>5. \A k \in Ids : k # l => served'[k] = served[k] /\ Granted(k)' = Granted(k)
    BY <1>2, <1>3, <1>8, <1>9
  <2>6. \A k \in DOMAIN leases :
          served'[k] + Cardinality(Granted(k)') = served[k] + Cardinality(Granted(k))
    BY <1>3, <2>4, <2>5 DEF Rows
  <2>7. \A k \in Ids : k \notin DOMAIN leases => k # l
    BY <1>3 DEF Rows
  <2>8. QED
    BY <1>2, <2>5, <2>6, <2>7 DEF IInv, TableHolds, Counted
<1>11. TableHolds(leases)'
  BY <1>2, <1>10 DEF IInv, TableHolds, Numbered, OneOpen
<1>12. QED
  BY <1>6, <1>7, <1>11 DEF IInv

-----------------------------------------------------------------------------
(* The decision.                                                           *)

\* What a deciding reveal may have done to the rows it found: closed some that ran out.
OnlyExpired(c, t) ==
  \A k \in Rows :
    /\ t[k].requester = leases[k].requester /\ t[k].used = leases[k].used
    /\ t[k].expires = leases[k].expires /\ t[k].issued = leases[k].issued
    /\ \/ t[k].revoked = leases[k].revoked
       \/ IsOpen(leases[k]) /\ t[k].revoked = "expired" /\ t[k].expires <= Clock(c)

\* A lease with an allowance left that the process of the reveal does not find run out.
Usable(c, x) == x.expires > Clock(c) /\ Left(x)

\* A lease of its requester, issued now, that has no live predecessor.
Fresh(c, l, t) ==
  /\ DOMAIN t = Rows \cup {l} /\ l = Cardinality(Rows) + 1 /\ l \notin Rows
  /\ t[l].issued = Clock(c) /\ IsOpen(t[l])
  /\ \A k \in Rows : ~(t[k].requester = op[c].who /\ IsOpen(t[k]))

\* The table and the lease a decision has come to when it counts its read.
Reached(c, l, t) ==
  /\ TableHolds(t) /\ OnlyExpired(c, t)
  /\ l \in DOMAIN t /\ t[l].requester = op[c].who /\ Usable(c, t[l])
  /\ (t = leases /\ DOMAIN t = Rows) \/ Fresh(c, l, t)

\* The clock of a process, and what a policy adds to it.
LEMMA ClockAdds ==
  ASSUME NEW c \in Clients, now \in 0..MaxNow, NEW p \in Policies
  PROVE  /\ Clock(c) \in Int /\ Clock(c) + p.ttl \in Int /\ Clock(c) + p.ttl > Clock(c)
         /\ p.reads \in Nat /\ (p.reads = 0 \/ 0 < p.reads)
<1>1. Skew[c] \in Int /\ now \in Int
  BY ClientAssumption, BoundAssumption
<1>2. p.ttl \in Nat \ {0} /\ p.reads \in Nat
  BY PolicyAssumption
<1>3. QED
  BY <1>1, <1>2 DEF Clock

\* A row of the table from its columns.
LEMMA RowMade ==
  ASSUME NEW q \in Requesters, NEW i \in Int, NEW e \in Int, NEW m \in Nat, NEW u \in Nat,
         NEW r \in Reasons,
         NEW x, x = [requester |-> q, issued |-> i, expires |-> e, reads |-> m, used |-> u,
                     revoked |-> r]
  PROVE  /\ x \in Lease /\ x.requester = q /\ x.issued = i /\ x.expires = e
         /\ x.reads = m /\ x.used = u /\ x.revoked = r
BY DEF Lease

\* CreateSecretLease's row is live, unused and usable.
LEMMA NewLease ==
  ASSUME NEW c \in Clients, now \in 0..MaxNow, NEW q \in Requesters, NEW p \in Policies,
         NEW r \in Reasons,
         NEW x, x = [requester |-> q, issued |-> Clock(c), expires |-> Clock(c) + p.ttl,
                     reads |-> p.reads, used |-> 0, revoked |-> r]
  PROVE  /\ x \in Lease /\ x.revoked = r /\ x.used = 0 /\ x.requester = q
         /\ x.issued = Clock(c) /\ Usable(c, x)
<1>1. /\ Clock(c) \in Int /\ Clock(c) + p.ttl \in Int /\ Clock(c) + p.ttl > Clock(c)
      /\ p.reads \in Nat /\ (p.reads = 0 \/ 0 < p.reads)
  BY ClockAdds
<1>2. /\ x \in Lease /\ x.requester = q /\ x.issued = Clock(c)
      /\ x.expires = Clock(c) + p.ttl /\ x.reads = p.reads /\ x.used = 0 /\ x.revoked = r
  <2>1. PICK i, e, m, u : i = Clock(c) /\ e = Clock(c) + p.ttl /\ m = p.reads /\ u = 0
    OBVIOUS
  <2>2. i \in Int /\ e \in Int /\ m \in Nat /\ u \in Nat
    BY <1>1, <2>1
  <2>3. x = [requester |-> q, issued |-> i, expires |-> e, reads |-> m, used |-> u,
             revoked |-> r]
    BY <2>1
  <2>4. /\ x \in Lease /\ x.requester = q /\ x.issued = i /\ x.expires = e
        /\ x.reads = m /\ x.used = u /\ x.revoked = r
    BY <2>2, <2>3, RowMade
  <2>5. QED
    BY <2>1, <2>4
<1>3. Usable(c, x)
  BY <1>1, <1>2 DEF Usable, Left
<1>4. QED
  BY <1>2, <1>3

\* The reveal waits for the row's lock.
Deciding(c) == op[c].pc = "select"

\* Issue either meets the unique index or reaches a new lease.
LEMMA Issued ==
  ASSUME IInv, NEW c \in Clients, Deciding(c), NEW t, TableHolds(t), DOMAIN t = Rows,
         OnlyExpired(c, t), Issue(c, t)
  PROVE  Refuse(c, "conflict") \/ \E l, u : Reached(c, l, u) /\ Consume(c, l, u)
<1>1. PICK q, p, n, x :
        /\ q = op[c].who /\ p = op[c].policy /\ n = Cardinality(Rows) + 1
        /\ x = [requester |-> q, issued |-> Clock(c), expires |-> Clock(c) + p.ttl,
                reads |-> p.reads, used |-> 0, revoked |-> ""]
  OBVIOUS
<1>2. CASE \E k \in Rows : t[k].requester = op[c].who /\ t[k].revoked = ""
  BY <1>2 DEF Issue
<1>3. CASE ~\E k \in Rows : t[k].requester = op[c].who /\ t[k].revoked = ""
  <2>1. PICK u : u = [k \in Rows \cup {n} |-> IF k = n THEN x ELSE t[k]]
    OBVIOUS
  <2>2. n \in Ids /\ Consume(c, n, u)
    BY <1>1, <1>3, <2>1 DEF Issue
  <2>3. q \in Requesters /\ p \in Policies /\ now \in 0..MaxNow
    BY <1>1 DEF IInv, PlainTypes, InHand, Holds, Deciding
  <2>4. /\ x \in Lease /\ IsOpen(x) /\ x.used = 0 /\ x.requester = q
        /\ x.issued = Clock(c) /\ Usable(c, x)
    <3>1. PICK r : r = ""
      OBVIOUS
    <3>2. r \in Reasons
      BY <3>1 DEF Reasons
    <3>3. x = [requester |-> q, issued |-> Clock(c), expires |-> Clock(c) + p.ttl,
               reads |-> p.reads, used |-> 0, revoked |-> r]
      BY <1>1, <3>1
    <3>4. /\ x \in Lease /\ x.revoked = r /\ x.used = 0 /\ x.requester = q
          /\ x.issued = Clock(c) /\ Usable(c, x)
      BY <2>3, <3>2, <3>3, NewLease
    <3>5. QED
      BY <3>1, <3>4 DEF IsOpen
  <2>5. \A k \in Rows : ~(t[k].requester = q /\ IsOpen(t[k]))
    BY <1>1, <1>3 DEF IsOpen
  <2>6. TableHolds(u)
    <3>1. n = Cardinality(DOMAIN t) + 1
      BY <1>1
    <3>2. QED
      BY <2>1, <2>2, <2>4, <2>5, <3>1, TableAdded
  <2>7. n \notin Rows
    <3>1. Numbered(t) /\ DOMAIN t \subseteq Ids
      BY DEF TableHolds
    <3>2. QED
      BY <1>1, <3>1, NextRow
  <2>8. DOMAIN u = Rows \cup {n} /\ u[n] = x /\ \A k \in Rows : u[k] = t[k]
    BY <2>1, <2>7
  <2>9. OnlyExpired(c, u)
    BY <2>8 DEF OnlyExpired
  <2>10. Fresh(c, n, u)
    BY <1>1, <2>4, <2>5, <2>7, <2>8 DEF Fresh
  <2>11. Reached(c, n, u)
    BY <1>1, <2>4, <2>6, <2>8, <2>9, <2>10 DEF Reached
  <2>12. QED
    BY <2>2, <2>11
<1>4. QED
  BY <1>2, <1>3

\* A decision refuses, or reaches a usable lease of its requester and counts a read there.
LEMMA Decided ==
  ASSUME IInv, NEW c \in Clients, Decide(c)
  PROVE  \/ \E why \in {"cap", "dead", "conflict"} : Refuse(c, why)
         \/ \E l, t : Reached(c, l, t) /\ Consume(c, l, t)
<1>1. PICK l : l = Locked(c)
  OBVIOUS
<1>2. /\ op[c].pc = "select"
      /\ \/ Evaluate(c, l) \in {"dead", "cap"} /\ Refuse(c, Evaluate(c, l))
         \/ Evaluate(c, l) = "consume" /\ Consume(c, l, leases)
         \/ Evaluate(c, l) = "supersede" /\ Issue(c, Revoked({l}, "expired"))
         \/ Evaluate(c, l) = "issue" /\ Issue(c, leases)
  BY <1>1 DEF Decide
<1>3. TableHolds(leases) /\ DOMAIN leases = Rows /\ leases \in [Rows -> Lease]
  BY DEF IInv, TableHolds, Rows
<1>4. l # 0 => l \in Rows /\ IsOpen(leases[l]) /\ leases[l].requester = op[c].who
  BY <1>1, <1>2 DEF Locked, IInv, InHand, Holds, IsOpen
<1>5. OnlyExpired(c, leases)
  BY DEF OnlyExpired
<1>6. Clock(c) \in Int
  BY ClientAssumption, BoundAssumption DEF Clock, IInv, PlainTypes
<1>7. CASE Evaluate(c, l) \in {"dead", "cap"} /\ Refuse(c, Evaluate(c, l))
  BY <1>7
<1>8. CASE Evaluate(c, l) = "consume" /\ Consume(c, l, leases)
  <2>1. /\ l # 0 /\ ~(leases[l].expires <= Clock(c))
        /\ ~(leases[l].reads # 0 /\ leases[l].used >= leases[l].reads)
    BY <1>8 DEF Evaluate
  <2>2. PICK x : x = leases[l]
    OBVIOUS
  <2>3. x.expires \in Int /\ x.reads \in Nat /\ x.used \in Nat
    BY <1>3, <1>4, <2>1, <2>2 DEF Lease
  <2>4. Usable(c, x)
    BY <1>6, <2>1, <2>2, <2>3 DEF Usable, Left
  <2>5. Reached(c, l, leases)
    BY <1>3, <1>4, <1>5, <2>1, <2>2, <2>4 DEF Reached
  <2>6. QED
    BY <1>8, <2>5
<1>9. CASE Evaluate(c, l) = "supersede" /\ Issue(c, Revoked({l}, "expired"))
  <2>1. l # 0 /\ leases[l].expires <= Clock(c)
    BY <1>9 DEF Evaluate
  <2>2. PICK t : t = Revoked({l}, "expired")
    OBVIOUS
  <2>3. {l} \in SUBSET LiveLeases
    BY <1>4, <2>1 DEF LiveLeases, IsOpen
  <2>4. TableHolds(t)
    BY <1>3, <2>2, <2>3, TableRevoked
  <2>5. /\ DOMAIN t = Rows
        /\ \A k \in Rows :
             /\ t[k].used = leases[k].used
             /\ t[k].requester = leases[k].requester /\ t[k].expires = leases[k].expires
             /\ t[k].issued = leases[k].issued
             /\ t[k].revoked = IF k \in {l} THEN "expired" ELSE leases[k].revoked
    BY <1>3, <2>2, RevokedRow
  <2>6. OnlyExpired(c, t)
    BY <1>4, <2>1, <2>5 DEF OnlyExpired
  <2>7. Refuse(c, "conflict") \/ \E k, u : Reached(c, k, u) /\ Consume(c, k, u)
    BY <1>2, <1>9, <2>2, <2>4, <2>5, <2>6, Issued DEF Deciding
  <2>8. QED
    BY <2>7
<1>10. CASE Evaluate(c, l) = "issue" /\ Issue(c, leases)
  <2>1. Refuse(c, "conflict") \/ \E k, u : Reached(c, k, u) /\ Consume(c, k, u)
    BY <1>2, <1>3, <1>5, <1>10, Issued DEF Deciding
  <2>2. QED
    BY <2>1
<1>11. QED
  BY <1>2, <1>7, <1>8, <1>9, <1>10

\* Counting the read at the table a decision reached.
LEMMA ConsumeStep ==
  ASSUME IInv, NEW c \in Clients, Deciding(c), NEW l, NEW t, Reached(c, l, t),
         Consume(c, l, t), UNCHANGED <<policy, expiry, deleted, served, now>>
  PROVE  IInv'
<1>1. TableHolds(t) /\ l \in DOMAIN t /\ Rows \subseteq DOMAIN t
  BY DEF Reached, Fresh
<1>2. PICK o : o = [Idle EXCEPT !.pc = "granted", !.found = l]
  OBVIOUS
<1>3. CASE Refuse(c, "raced")
  BY <1>3, RefuseStep
<1>4. CASE /\ leases' = ReadOnce(t, l) /\ op' = [op EXCEPT ![c] = o]
           /\ Left(t[l])
  <2>1. o.pc = "granted" /\ o.found = l /\ o.started = 0
    BY <1>2 DEF Idle
  <2>2. l \in Ids
    BY <1>1 DEF TableHolds
  <2>3. o \in Op
    BY <1>2, <2>2 DEF Idle, Op, NoPolicy
  <2>4. PlainTypes /\ op[c].pc # "granted" /\ served' = served
    BY DEF IInv, Deciding
  <2>5. /\ TableHolds(leases)'
        /\ DOMAIN leases' = DOMAIN t
        /\ \A k \in DOMAIN t : leases'[k].requester = t[k].requester
    <3>1. o.pc = "granted" /\ o.found = l
      BY <2>1
    <3>2. Left(t[l]) /\ leases' = ReadOnce(t, l) /\ op' = [op EXCEPT ![c] = o]
      BY <1>4
    <3>3. QED
      BY <1>1, <2>4, <3>1, <3>2, ReadCounted
  <2>6. now \in 0..MaxNow /\ now' = now /\ now \in Nat /\ now <= now
    BY <2>4, BoundAssumption DEF PlainTypes
  <2>7. \A k \in Rows : leases'[k].requester = leases[k].requester
    BY <1>1, <2>5 DEF Reached, OnlyExpired
  <2>8. Rows \subseteq Rows' /\ Rows' = DOMAIN t
    BY <1>1, <2>5 DEF Rows
  <2>9. Holds(o)'
    BY <1>1, <2>1, <2>3, <2>6, <2>8 DEF Holds
  <2>10. op \in [Clients -> Op]
    BY <2>4 DEF PlainTypes
  <2>11. InHand'
    <3>1. SUFFICES ASSUME NEW d \in Clients PROVE Holds(op[d])'
      BY DEF InHand
    <3>2. CASE d = c
      <4>1. op'[d] = o
        BY <1>4, <2>10, <3>2
      <4>2. QED
        BY <2>9, <4>1 DEF Holds
    <3>3. CASE d # c
      <4>1. PICK w : w = op[d]
        OBVIOUS
      <4>2. Holds(w) /\ op'[d] = w
        BY <1>4, <2>10, <3>3, <4>1 DEF IInv, InHand
      <4>3. Holds(w)'
        BY <2>6, <2>7, <2>8, <4>2, HandKept
      <4>4. QED
        BY <4>2, <4>3 DEF Holds
    <3>4. QED
      BY <3>2, <3>3
  <2>12. PlainTypes'
    BY <1>4, <2>3, <2>4, <2>10 DEF PlainTypes
  <2>13. QED
    BY <2>5, <2>11, <2>12 DEF IInv
<1>5. QED
  BY <1>2, <1>3, <1>4 DEF Consume, Left, ReadOnce

\* The transaction of a reveal, from the row lock to the commit.
LEMMA DecideStep ==
  ASSUME IInv, NEW c \in Clients, Decide(c)
  PROVE  IInv'
<1>1. Deciding(c) /\ UNCHANGED <<policy, expiry, deleted, served, now>>
  BY DEF Decide, Deciding
<1>2. CASE \E why \in {"cap", "dead", "conflict"} : Refuse(c, why)
  BY <1>1, <1>2, RefuseStep
<1>3. CASE \E l, t : Reached(c, l, t) /\ Consume(c, l, t)
  BY <1>1, <1>3, ConsumeStep
<1>4. QED
  BY <1>2, <1>3, Decided

\* An operator, or housekeeping, closes live leases.
LEMMA RevokeStep ==
  ASSUME IInv, NEW S \in SUBSET LiveLeases, NEW reason \in {"expired", "explicit", "policy"},
         leases' = Revoked(S, reason), policy' \in Policies \cup {NoPolicy},
         UNCHANGED <<expiry, deleted, op, served, now>>
  PROVE  IInv'
<1>1. PICK t : t = Revoked(S, reason)
  OBVIOUS
<1>2. TableHolds(leases) /\ leases \in [Rows -> Lease]
  BY DEF IInv, TableHolds, Rows
<1>3. TableHolds(t)
  BY <1>1, <1>2, TableRevoked
<1>4. DOMAIN t = Rows /\ \A k \in Rows : t[k].requester = leases[k].requester
  BY <1>1, <1>2, RevokedRow
<1>5. leases' = t /\ Rows' = Rows
  BY <1>1, <1>4 DEF Rows
<1>6. TableHolds(leases)'
  BY <1>3, <1>5 DEF TableHolds, Numbered, Counted, OneOpen, Granted
<1>7. PlainTypes'
  BY DEF IInv, PlainTypes
<1>8. now \in 0..MaxNow /\ now \in Nat /\ now' = now /\ now <= now
  BY BoundAssumption DEF IInv, PlainTypes
<1>9. InHand'
  <2>1. SUFFICES ASSUME NEW d \in Clients PROVE Holds(op[d])'
    BY DEF InHand
  <2>2. PICK w : w = op[d]
    OBVIOUS
  <2>3. Holds(w)
    BY <2>2 DEF IInv, InHand
  <2>4. Rows \subseteq Rows' /\ \A k \in Rows : leases'[k].requester = leases[k].requester
    BY <1>4, <1>5
  <2>5. Holds(w)'
    BY <1>8, <2>3, <2>4, HandKept
  <2>6. QED
    BY <2>2, <2>5 DEF Holds
<1>10. QED
  BY <1>6, <1>7, <1>9 DEF IInv

\* Nothing but the policy, the deletion mark or the clock moves.
LEMMA QuietStep ==
  ASSUME IInv, policy' \in Policies \cup {NoPolicy}, deleted' \in BOOLEAN,
         now' \in 0..MaxNow, now <= now', UNCHANGED <<expiry, leases, op, served>>
  PROVE  IInv'
<1>1. TableHolds(leases)'
  BY DEF IInv, TableHolds, Numbered, Counted, OneOpen, Granted
<1>2. PlainTypes'
  BY DEF IInv, PlainTypes
<1>3. now \in Nat /\ now' \in Nat
  BY BoundAssumption DEF IInv, PlainTypes
<1>4. InHand'
  <2>1. SUFFICES ASSUME NEW d \in Clients PROVE Holds(op[d])'
    BY DEF InHand
  <2>2. PICK w : w = op[d]
    OBVIOUS
  <2>3. Holds(w) /\ Rows' = Rows
    BY <2>2 DEF IInv, InHand, Rows
  <2>4. Holds(w)'
    BY <1>3, <2>3, HandKept
  <2>5. QED
    BY <2>2, <2>4 DEF Holds
<1>5. QED
  BY <1>1, <1>2, <1>4 DEF IInv

-----------------------------------------------------------------------------
\* No lease, and nobody in the middle of a reveal.
LEMMA InitHolds == Init => IInv
<1>1. SUFFICES ASSUME Init PROVE IInv
  OBVIOUS
<1>2. PICK t : t = leases
  OBVIOUS
<1>3. DOMAIN t = {}
  BY <1>1, <1>2 DEF Init
<1>4. op = [c \in Clients |-> Idle] /\ now = 0 /\ served = [l \in Ids |-> 0]
  BY <1>1 DEF Init
<1>5. now \in 0..MaxNow
  BY <1>4, BoundAssumption
<1>6. Holds(Idle) /\ Idle.pc = "idle" /\ Idle \in Op
  BY <1>5, IdleHolds DEF Holds
<1>7. PlainTypes
  <2>1. policy = NoPolicy /\ expiry \in Expiries /\ deleted \in BOOLEAN
    BY <1>1 DEF Init
  <2>2. op \in [Clients -> Op]
    BY <1>4, <1>6
  <2>3. served \in [Ids -> Nat]
    BY <1>4
  <2>4. QED
    BY <1>5, <2>1, <2>2, <2>3 DEF PlainTypes
<1>8. InHand
  BY <1>4, <1>6 DEF InHand
<1>9. \A l \in Ids : served[l] = 0 /\ Granted(l) = {}
  BY <1>4, <1>6 DEF Granted
<1>10. Cardinality({}) = 0 /\ 1..0 = {}
  BY FS_EmptySet
<1>11. TableHolds(t)
  BY <1>3, <1>9, <1>10 DEF TableHolds, Numbered, Counted, OneOpen
<1>12. QED
  BY <1>2, <1>7, <1>8, <1>11 DEF IInv

\* Every step keeps the table and what the reveals have in hand.
LEMMA NextHolds == IInv /\ [Next]_vars => IInv'
<1>1. SUFFICES ASSUME IInv, [Next]_vars PROVE IInv'
  OBVIOUS
<1>2. policy \in Policies \cup {NoPolicy} /\ deleted \in BOOLEAN /\ now \in 0..MaxNow /\ now <= now
  BY <1>1, BoundAssumption DEF IInv, PlainTypes
<1>3. ASSUME NEW c \in Clients, Read(c) PROVE IInv'
  BY <1>1, <1>3, ReadPolicyStep, SelectStep, DecideStep, ServeStep, GiveUpStep DEF Read
<1>4. ASSUME NEW p \in Policies \cup {NoPolicy}, SetSecretLeasePolicy(p) PROVE IInv'
  <2>1. policy' \in Policies \cup {NoPolicy} /\ UNCHANGED <<expiry, deleted, op, served, now>>
    BY <1>4 DEF SetSecretLeasePolicy
  <2>2. CASE p = NoPolicy
    <3>1. leases' = Revoked(LiveLeases, "policy")
      BY <1>4, <2>2 DEF SetSecretLeasePolicy
    <3>2. QED
      BY <1>1, <2>1, <3>1, RevokeStep
  <2>3. CASE p # NoPolicy
    <3>1. leases' = leases
      BY <1>4, <2>3 DEF SetSecretLeasePolicy
    <3>2. QED
      BY <1>1, <1>2, <2>1, <3>1, QuietStep
  <2>4. QED
    BY <2>2, <2>3
<1>5. CASE RevokeSecretLeases
  <2>1. leases' = Revoked(LiveLeases, "explicit") /\ UNCHANGED <<policy, expiry, deleted, op, served, now>>
    BY <1>5 DEF RevokeSecretLeases
  <2>2. QED
    BY <1>1, <1>2, <2>1, RevokeStep
<1>6. CASE ExpireDueSecretLeases
  <2>1. PICK S : S = {l \in LiveLeases : leases[l].expires <= now}
    OBVIOUS
  <2>2. leases' = Revoked(S, "expired") /\ UNCHANGED <<policy, expiry, deleted, op, served, now>>
    BY <1>6, <2>1 DEF ExpireDueSecretLeases
  <2>3. S \in SUBSET LiveLeases
    BY <2>1
  <2>4. QED
    BY <1>1, <1>2, <2>2, <2>3, RevokeStep
<1>7. ASSUME NEW b \in BOOLEAN, SetDeleted(b) PROVE IInv'
  BY <1>1, <1>2, <1>7, QuietStep DEF SetDeleted
<1>8. CASE Tick
  <2>1. now' \in 0..MaxNow /\ now <= now'
    BY <1>2, <1>8, BoundAssumption DEF Tick
  <2>2. QED
    BY <1>1, <1>2, <1>8, <2>1, QuietStep DEF Tick
<1>9. CASE UNCHANGED vars
  BY <1>1, <1>2, <1>9, QuietStep DEF vars
<1>10. QED
  BY <1>1, <1>3, <1>4, <1>5, <1>6, <1>7, <1>8, <1>9 DEF Next

\* The table and what the reveals have in hand hold together in every reachable state.
THEOREM Invariance == Spec => []IInv
<1>1. QED
  BY InitHolds, NextHolds, PTL DEF Spec

\* Rows are numbered without gaps, and no reveal has a lease in hand that is not there.
THEOREM TypeCorrect == Spec => []TypeOK
<1>1. ASSUME IInv PROVE TypeOK
  <2>1. PICK R : R = Rows
    OBVIOUS
  <2>2. R = 1..Cardinality(R) /\ R \subseteq Ids /\ leases \in [R -> Lease]
    BY <1>1, <2>1 DEF IInv, TableHolds, Numbered, Rows
  <2>3. \A c \in Clients : op[c].found \in {0} \cup Rows /\ op[c].started <= now
    BY <1>1 DEF IInv, InHand, Holds
  <2>4. QED
    BY <1>1, <2>1, <2>2, <2>3 DEF TypeOK, IInv, PlainTypes
<1>2. QED
  BY <1>1, Invariance, PTL

\* No lease serves more values than its cap, however many reveals race for it.
THEOREM CapHolds == Spec => []ServedWithinCap
<1>1. ASSUME IInv PROVE ServedWithinCap
  BY <1>1 DEF IInv, TableHolds, Counted, ServedWithinCap, Rows
<1>2. QED
  BY <1>1, Invariance, PTL

-----------------------------------------------------------------------------
(* What one step does to the table.                                        *)

\* A deciding reveal counts a read and is granted it.
Counts(c, l, t) ==
  /\ Deciding(c) /\ Reached(c, l, t)
  /\ leases' = ReadOnce(t, l)
  /\ op' = [op EXCEPT ![c] = [Idle EXCEPT !.pc = "granted", !.found = l]]
  /\ UNCHANGED <<served, now>>

\* Live leases are closed, as expired only those that have run out.
Closes(S, reason) ==
  /\ S \in SUBSET LiveLeases /\ reason \in {"expired", "explicit", "policy"}
  /\ reason = "expired" => \A l \in S : leases[l].expires <= now
  /\ leases' = Revoked(S, reason) /\ op' = op /\ now' = now

\* A decision leaves the table alone or counts one read in it.
LEMMA DecideShape ==
  ASSUME IInv, NEW c \in Clients, Decide(c)
  PROVE  leases' = leases \/ \E l, t : Counts(c, l, t)
<1>1. Deciding(c) /\ UNCHANGED <<served, now>>
  BY DEF Decide, Deciding
<1>2. CASE \E why \in {"cap", "dead", "conflict"} : Refuse(c, why)
  BY <1>2 DEF Refuse
<1>3. CASE \E l, t : Reached(c, l, t) /\ Consume(c, l, t)
  <2>1. PICK l, t : Reached(c, l, t) /\ Consume(c, l, t)
    BY <1>3
  <2>2. CASE Refuse(c, "raced")
    BY <2>2 DEF Refuse
  <2>3. CASE ~Refuse(c, "raced")
    <3>1. Counts(c, l, t)
      BY <1>1, <2>1, <2>3 DEF Consume, Counts, ReadOnce
    <3>2. QED
      BY <3>1
  <2>4. QED
    BY <2>2, <2>3
<1>4. QED
  BY <1>2, <1>3, Decided

\* A step leaves the table alone, closes live leases, or counts one read.
LEMMA StepShape ==
  ASSUME IInv, [Next]_vars
  PROVE  \/ leases' = leases
         \/ \E S, reason : Closes(S, reason)
         \/ \E c \in Clients : \E l, t : Counts(c, l, t)
<1>1. ASSUME NEW c \in Clients, Read(c)
      PROVE  leases' = leases \/ \E l, t : Counts(c, l, t)
  BY <1>1, DecideShape DEF Read, ReadPolicy, Select, Serve, GiveUp
<1>2. ASSUME NEW p \in Policies \cup {NoPolicy}, SetSecretLeasePolicy(p)
      PROVE  leases' = leases \/ \E S, reason : Closes(S, reason)
  <2>1. CASE p # NoPolicy
    BY <1>2, <2>1 DEF SetSecretLeasePolicy
  <2>2. CASE p = NoPolicy
    <3>1. Closes(LiveLeases, "policy")
      BY <1>2, <2>2 DEF SetSecretLeasePolicy, Closes
    <3>2. QED
      BY <3>1
  <2>3. QED
    BY <2>1, <2>2
<1>3. ASSUME RevokeSecretLeases PROVE \E S, reason : Closes(S, reason)
  <2>1. Closes(LiveLeases, "explicit")
    BY <1>3 DEF RevokeSecretLeases, Closes
  <2>2. QED
    BY <2>1
<1>4. ASSUME ExpireDueSecretLeases PROVE \E S, reason : Closes(S, reason)
  <2>1. Closes({l \in LiveLeases : leases[l].expires <= now}, "expired")
    BY <1>4 DEF ExpireDueSecretLeases, Closes
  <2>2. QED
    BY <2>1
<1>5. ASSUME (\E b \in BOOLEAN : SetDeleted(b)) \/ Tick \/ UNCHANGED vars PROVE leases' = leases
  BY <1>5 DEF SetDeleted, Tick, vars
<1>6. QED
  BY <1>1, <1>2, <1>3, <1>4, <1>5 DEF Next

\* The rows after a counted read.
LEMMA CountsRows ==
  ASSUME IInv, NEW c \in Clients, NEW l, NEW t, Counts(c, l, t)
  PROVE  /\ Rows' = DOMAIN t
         /\ \A k \in DOMAIN t :
              /\ leases'[k].requester = t[k].requester /\ leases'[k].revoked = t[k].revoked
              /\ leases'[k].expires = t[k].expires /\ leases'[k].issued = t[k].issued
              /\ k # l => leases'[k].used = t[k].used
<1>1. PICK o : o = [Idle EXCEPT !.pc = "granted", !.found = l]
  OBVIOUS
<1>2. o.pc = "granted" /\ o.found = l
  BY <1>1 DEF Idle
<1>3. /\ TableHolds(t) /\ l \in DOMAIN t /\ Left(t[l])
      /\ op' = [op EXCEPT ![c] = o] /\ served' = served /\ op[c].pc # "granted"
      /\ leases' = ReadOnce(t, l)
  BY <1>1 DEF Counts, Deciding, Reached, Usable
<1>4. PlainTypes
  BY DEF IInv
<1>5. QED
  BY <1>2, <1>3, <1>4, ReadCounted DEF Rows

\* An allowance is spent only by a reveal of the requester it was issued to.
THEOREM OwnAllowance == Spec => OwnAllowanceOnly
<1> DEFINE Own ==
      \A l \in Rows :
        leases'[l].used # leases[l].used =>
          \E c \in Clients : /\ op[c].pc = "select" /\ op'[c].pc = "granted"
                             /\ op[c].who = leases[l].requester
<1>1. ASSUME IInv, [Next]_vars PROVE Own
  <2>1. CASE leases' = leases
    BY <2>1
  <2>2. ASSUME NEW S, NEW reason, Closes(S, reason) PROVE Own
    <3>1. leases \in [Rows -> Lease]
      BY <1>1 DEF IInv, TableHolds, Rows
    <3>2. reason \in {"expired", "explicit", "policy"} /\ leases' = Revoked(S, reason)
      BY <2>2 DEF Closes
    <3>3. \A k \in Rows : leases'[k].used = leases[k].used
      BY <3>1, <3>2, RevokedRow
    <3>4. QED
      BY <3>3
  <2>3. ASSUME NEW c \in Clients, NEW l, NEW t, Counts(c, l, t) PROVE Own
    <3>1. SUFFICES ASSUME NEW k \in Rows, leases'[k].used # leases[k].used
                   PROVE  /\ op[c].pc = "select" /\ op'[c].pc = "granted"
                          /\ op[c].who = leases[k].requester
      OBVIOUS
    <3>2. /\ t[k].requester = leases[k].requester /\ t[k].used = leases[k].used
          /\ k \in DOMAIN t /\ t[l].requester = op[c].who
      BY <2>3, <3>1 DEF Counts, Reached, OnlyExpired, Fresh
    <3>3. k = l
      BY <1>1, <2>3, <3>1, <3>2, CountsRows
    <3>4. op \in [Clients -> Op]
      BY <1>1 DEF IInv, PlainTypes
    <3>5. op[c].pc = "select" /\ op'[c].pc = "granted"
      BY <2>3, <3>4 DEF Counts, Deciding, Idle
    <3>6. QED
      BY <3>2, <3>3, <3>5
  <2>4. QED
    BY <1>1, <2>1, <2>2, <2>3, StepShape
<1>2. IInv /\ [Next]_vars => [Own]_vars
  BY <1>1
<1>3. QED
  BY <1>2, Invariance, PTL DEF Spec, OwnAllowanceOnly

-----------------------------------------------------------------------------
(* When the clocks agree.                                                  *)

\* The clock of a reveal that decides is not behind its transaction's start, so the UPDATE
\* finds the lease the decision found.
LEMMA NeverRaces ==
  ASSUME IInv, NEW c \in Clients, Skew[c] \in Nat, NEW l, NEW t, Reached(c, l, t),
         Consume(c, l, t)
  PROVE  op' = [op EXCEPT ![c] = [Idle EXCEPT !.pc = "granted", !.found = l]]
<1>1. op[c].started \in Nat /\ op[c].started <= now /\ now \in 0..MaxNow
  BY DEF IInv, PlainTypes, InHand, Holds, Op
<1>2. now + Skew[c] \in Int /\ op[c].started <= now + Skew[c]
  BY <1>1, BoundAssumption
<1>3. t[l].expires \in Int
  BY DEF Reached, TableHolds, Lease
<1>4. t[l].expires > now + Skew[c] /\ (t[l].reads = 0 \/ t[l].used < t[l].reads)
  BY DEF Reached, Usable, Left, Clock
<1>5. t[l].expires > op[c].started
  BY <1>1, <1>2, <1>3, <1>4
<1>6. QED
  BY <1>4, <1>5 DEF Consume

\* While no process runs behind the database, a decision to count a read never finds its
\* lease run out, taken away or exhausted.
THEOREM DecisionsStand ==
  ASSUME \A c \in Clients : Skew[c] \in Nat
  PROVE  Spec => []DecisionsHold
<1>1. Init => DecisionsHold
  <2>1. SUFFICES ASSUME op = [c \in Clients |-> Idle] PROVE DecisionsHold
    BY DEF Init
  <2>2. QED
    BY <2>1 DEF DecisionsHold, Idle
<1>2. ASSUME IInv, DecisionsHold, [Next]_vars PROVE DecisionsHold'
  <2>1. op \in [Clients -> Op] /\ Idle.why = ""
    BY <1>2 DEF IInv, PlainTypes, Idle
  <2>2. CASE op' = op
    BY <1>2, <2>2 DEF DecisionsHold
  <2>3. ASSUME NEW c \in Clients, NEW o, op' = [op EXCEPT ![c] = o], o.why # "raced"
        PROVE  DecisionsHold'
    BY <1>2, <2>1, <2>3 DEF DecisionsHold
  <2>4. ASSUME NEW c \in Clients, Read(c) PROVE DecisionsHold'
    <3>1. ASSUME NEW q \in Requesters, ReadPolicy(c, q) PROVE DecisionsHold'
      <4>1. PICK o : o = [Idle EXCEPT !.pc = "policy", !.who = q, !.policy = policy]
        OBVIOUS
      <4>2. o.why = ""
        BY <4>1 DEF Idle
      <4>3. QED
        BY <2>3, <3>1, <4>1, <4>2 DEF ReadPolicy
    <3>2. CASE Select(c)
      <4>1. PICK w, l : /\ w = op[c]
                        /\ op' = [op EXCEPT ![c] = [w EXCEPT !.pc = "select", !.found = l, !.started = now]]
        BY <3>2 DEF Select
      <4>2. PICK o : o = [w EXCEPT !.pc = "select", !.found = l, !.started = now]
        OBVIOUS
      <4>3. w \in Op /\ w.why # "raced"
        BY <1>2, <2>1, <4>1 DEF DecisionsHold
      <4>4. o.why = w.why
        BY <4>2, <4>3 DEF Op
      <4>5. QED
        BY <2>3, <4>1, <4>2, <4>3, <4>4
    <3>3. CASE Decide(c)
      <4>1. CASE \E why \in {"cap", "dead", "conflict"} : Refuse(c, why)
        <5>1. PICK why \in {"cap", "dead", "conflict"} : Refuse(c, why)
          BY <4>1
        <5>2. PICK o : o = [Idle EXCEPT !.pc = "refused", !.why = why]
          OBVIOUS
        <5>3. o.why = why
          BY <5>2 DEF Idle
        <5>4. QED
          BY <2>3, <5>1, <5>2, <5>3 DEF Refuse
      <4>2. CASE \E l, t : Reached(c, l, t) /\ Consume(c, l, t)
        <5>1. PICK l, t : Reached(c, l, t) /\ Consume(c, l, t)
          BY <4>2
        <5>2. PICK o : o = [Idle EXCEPT !.pc = "granted", !.found = l]
          OBVIOUS
        <5>3. op' = [op EXCEPT ![c] = o]
          BY <1>2, <5>1, <5>2, NeverRaces
        <5>4. o.why = ""
          BY <5>2 DEF Idle
        <5>5. QED
          BY <2>3, <5>3, <5>4
      <4>3. QED
        BY <1>2, <3>3, <4>1, <4>2, Decided
    <3>4. CASE Serve(c)
      BY <2>1, <2>3, <3>4 DEF Serve
    <3>5. CASE GiveUp(c)
      BY <2>1, <2>3, <3>5 DEF GiveUp
    <3>6. QED
      BY <2>4, <3>1, <3>2, <3>3, <3>4, <3>5 DEF Read
  <2>5. ASSUME NEW p \in Policies \cup {NoPolicy}, SetSecretLeasePolicy(p) PROVE op' = op
    BY <2>5 DEF SetSecretLeasePolicy
  <2>6. ASSUME NEW b \in BOOLEAN, SetDeleted(b) PROVE op' = op
    BY <2>6 DEF SetDeleted
  <2>7. ASSUME RevokeSecretLeases \/ ExpireDueSecretLeases \/ Tick \/ UNCHANGED vars
        PROVE  op' = op
    BY <2>7 DEF RevokeSecretLeases, ExpireDueSecretLeases, Tick, vars
  <2>8. QED
    BY <1>2, <2>2, <2>4, <2>5, <2>6, <2>7 DEF Next
<1>3. IInv /\ DecisionsHold /\ [Next]_vars => DecisionsHold'
  BY <1>2
<1>4. QED
  BY <1>1, <1>3, Invariance, PTL DEF Spec

\* A lease closed as expired had run out by a clock K ahead of the database's.
RunOut(K) == \A l \in Rows : leases[l].revoked = "expired" => leases[l].expires <= now + K

\* What is past stays past.
LEMMA Later ==
  ASSUME NEW K \in Nat, NEW a \in Nat, NEW b \in Nat, a <= b, NEW e \in Int
  PROVE  (e <= a => e <= a + K) /\ (e <= a + K => e <= b + K)
OBVIOUS

\* Housekeeping and a superseding reveal close as expired only what has run out.
LEMMA RunOutKept ==
  ASSUME NEW K \in Nat, \A c \in Clients : Skew[c] = K, IInv, RunOut(K), [Next]_vars
  PROVE  RunOut(K)'
<1>1. now \in Nat /\ now' \in Nat /\ now <= now' /\ leases \in [Rows -> Lease]
  <2>1. IInv'
    BY NextHolds
  <2>2. now \in Nat /\ now' \in Nat
    BY <2>1, BoundAssumption DEF IInv, PlainTypes
  <2>3. now' = now \/ now' = now + 1
    BY DEF Next, Read, ReadPolicy, Select, Decide, Serve, GiveUp, SetSecretLeasePolicy,
           RevokeSecretLeases, ExpireDueSecretLeases, SetDeleted, Tick, vars
  <2>4. now <= now'
    BY <2>2, <2>3
  <2>5. QED
    BY <2>2, <2>4 DEF IInv, TableHolds, Rows
<1>2. \A e \in Int : (e <= now => e <= now + K) /\ (e <= now + K => e <= now' + K)
  BY <1>1, Later
<1>3. \A l \in Rows : leases[l].expires \in Int
  BY <1>1 DEF Lease
<1>4. CASE leases' = leases
  BY <1>2, <1>3, <1>4 DEF RunOut, Rows
<1>5. ASSUME NEW S, NEW reason, Closes(S, reason) PROVE RunOut(K)'
  <2>1. reason \in {"expired", "explicit", "policy"} /\ leases' = Revoked(S, reason)
    BY <1>5 DEF Closes
  <2>2. /\ Rows' = Rows
        /\ \A k \in Rows : /\ leases'[k].expires = leases[k].expires
                           /\ leases'[k].revoked = IF k \in S THEN reason ELSE leases[k].revoked
    BY <1>1, <2>1, RevokedRow DEF Rows
  <2>3. SUFFICES ASSUME NEW k \in Rows, leases'[k].revoked = "expired"
                 PROVE  leases[k].expires <= now' + K
    BY <2>2 DEF RunOut
  <2>4. leases[k].expires <= now \/ leases[k].expires <= now + K
    BY <1>5, <2>2, <2>3 DEF Closes, RunOut
  <2>5. QED
    BY <1>2, <1>3, <2>4
<1>6. ASSUME NEW c \in Clients, NEW l, NEW t, Counts(c, l, t) PROVE RunOut(K)'
  <2>1. /\ Rows' = DOMAIN t /\ Rows \subseteq DOMAIN t
        /\ \A k \in DOMAIN t : leases'[k].revoked = t[k].revoked /\ leases'[k].expires = t[k].expires
    <3>1. Rows \subseteq DOMAIN t
      BY <1>6 DEF Counts, Reached, Fresh
    <3>2. QED
      BY <1>6, <3>1, CountsRows
  <2>2. SUFFICES ASSUME NEW k \in DOMAIN t, t[k].revoked = "expired"
                 PROVE  t[k].expires <= now' + K
    BY <2>1 DEF RunOut
  <2>3. k \in Rows
    BY <1>6, <2>2 DEF Counts, Reached, Fresh, IsOpen
  <2>4. t[k].expires <= now + K /\ t[k].expires = leases[k].expires
    BY <1>6, <2>2, <2>3 DEF Counts, Reached, OnlyExpired, RunOut, Clock
  <2>5. QED
    BY <1>2, <1>3, <2>3, <2>4
<1>7. QED
  BY <1>4, <1>5, <1>6, StepShape

\* Two leases of one requester, the earlier not taken away by an operator.
Apart(x, y) ==
  x.requester = y.requester => x.revoked \in {"explicit", "policy"} \/ x.expires <= y.issued

\* A new lease is issued at a time its closed predecessors have run out by.
LEMMA ApartKept ==
  ASSUME NEW K \in Nat, \A c \in Clients : Skew[c] = K, IInv, RunOut(K),
         AllowancesDoNotOverlap, [Next]_vars
  PROVE  AllowancesDoNotOverlap'
<1>1. leases \in [Rows -> Lease] /\ \A j, l \in Rows : j < l => Apart(leases[j], leases[l])
  BY DEF IInv, TableHolds, Rows, AllowancesDoNotOverlap, Apart
<1>2. CASE leases' = leases
  BY <1>2 DEF AllowancesDoNotOverlap, Rows
<1>3. ASSUME NEW S, NEW reason, Closes(S, reason) PROVE AllowancesDoNotOverlap'
  <2>1. /\ reason \in {"expired", "explicit", "policy"} /\ leases' = Revoked(S, reason)
        /\ S \subseteq LiveLeases
    BY <1>3 DEF Closes
  <2>2. /\ Rows' = Rows
        /\ \A k \in Rows : /\ leases'[k].expires = leases[k].expires
                           /\ leases'[k].issued = leases[k].issued
                           /\ leases'[k].requester = leases[k].requester
                           /\ leases'[k].revoked = IF k \in S THEN reason ELSE leases[k].revoked
    BY <1>1, <2>1, RevokedRow DEF Rows
  <2>3. ASSUME NEW j \in Rows, NEW l \in Rows, Apart(leases[j], leases[l])
        PROVE  Apart(leases'[j], leases'[l])
    <3>1. leases[j].revoked \in {"explicit", "policy"} => j \notin S
      BY <2>1 DEF LiveLeases
    <3>2. QED
      BY <2>2, <2>3, <3>1 DEF Apart
  <2>4. QED
    BY <1>1, <2>2, <2>3 DEF AllowancesDoNotOverlap, Apart
<1>4. ASSUME NEW c \in Clients, NEW l, NEW t, Counts(c, l, t) PROVE AllowancesDoNotOverlap'
  <2>1. /\ Rows' = DOMAIN t
        /\ \A k \in DOMAIN t :
             /\ leases'[k].requester = t[k].requester /\ leases'[k].revoked = t[k].revoked
             /\ leases'[k].expires = t[k].expires /\ leases'[k].issued = t[k].issued
    BY <1>4, CountsRows
  <2>2. SUFFICES ASSUME NEW j \in DOMAIN t, NEW i \in DOMAIN t, j < i
                 PROVE  Apart(t[j], t[i])
    BY <2>1 DEF AllowancesDoNotOverlap, Apart
  <2>3. /\ OnlyExpired(c, t) /\ t[l].requester = op[c].who
        /\ (t = leases /\ DOMAIN t = Rows) \/ Fresh(c, l, t)
    BY <1>4 DEF Counts, Reached
  <2>4. CASE j \in Rows /\ i \in Rows
    <3>1. Apart(leases[j], leases[i])
      BY <1>1, <2>2, <2>4
    <3>2. leases[j].revoked \in {"explicit", "policy"} => t[j].revoked = leases[j].revoked
      BY <2>3, <2>4 DEF OnlyExpired, IsOpen
    <3>3. /\ t[j].requester = leases[j].requester /\ t[i].requester = leases[i].requester
          /\ t[j].expires = leases[j].expires /\ t[i].issued = leases[i].issued
      BY <2>3, <2>4 DEF OnlyExpired
    <3>4. QED
      BY <3>1, <3>2, <3>3 DEF Apart
  <2>5. CASE ~(j \in Rows /\ i \in Rows)
    <3>1. Fresh(c, l, t) /\ (j = l \/ i = l)
      BY <2>2, <2>3, <2>5 DEF Fresh
    <3>2. PICK n : n = Cardinality(Rows) + 1
      OBVIOUS
    <3>3. Numbered(leases) /\ DOMAIN leases \subseteq Ids /\ l = n
      BY <3>1, <3>2 DEF IInv, TableHolds, Fresh
    <3>4. PICK m : m = Cardinality(DOMAIN leases)
      OBVIOUS
    <3>5. m \in Nat /\ DOMAIN leases = 1..m
      BY <3>3, <3>4, NextRow
    <3>6. l = m + 1 /\ Rows = 1..m
      BY <3>2, <3>3, <3>4, <3>5 DEF Rows
    <3>7. DOMAIN t = 1..m \cup {m + 1}
      BY <3>1, <3>6 DEF Fresh
    <3>8. i = l /\ j \in Rows
      BY <2>2, <3>1, <3>5, <3>6, <3>7
    <3>9. SUFFICES ASSUME t[j].requester = t[i].requester, t[j].revoked \notin {"explicit", "policy"}
                   PROVE  t[j].expires <= t[i].issued
      BY DEF Apart
    <3>10. ~IsOpen(t[j]) /\ t[i].issued = now + K
      BY <2>3, <3>1, <3>8, <3>9 DEF Fresh, Clock
    <3>11. t[j].revoked = "expired"
      <4>1. t[j] \in Lease
        BY <1>4, <2>2 DEF Counts, Reached, TableHolds
      <4>2. QED
        BY <3>9, <3>10, <4>1 DEF Lease, Reasons, IsOpen
    <3>12. t[j].expires <= now + K
      BY <2>3, <3>8, <3>11 DEF OnlyExpired, RunOut, Clock
    <3>13. QED
      BY <3>10, <3>12
  <2>6. QED
    BY <2>4, <2>5
<1>5. QED
  BY <1>2, <1>3, <1>4, StepShape

\* When the clocks of the processes agree and are not behind the database's, a requester
\* gets a successor only once its lease has run out or was taken away by an operator.
THEOREM AllowancesApart ==
  ASSUME NEW K \in Nat, \A c \in Clients : Skew[c] = K
  PROVE  Spec => []AllowancesDoNotOverlap
<1>1. Init => RunOut(K) /\ AllowancesDoNotOverlap
  <2>1. SUFFICES ASSUME Init PROVE RunOut(K) /\ AllowancesDoNotOverlap
    OBVIOUS
  <2>2. PICK R : R = Rows
    OBVIOUS
  <2>3. R = {}
    BY <2>1, <2>2 DEF Init, Rows
  <2>4. QED
    BY <2>2, <2>3 DEF RunOut, AllowancesDoNotOverlap
<1>2. IInv /\ RunOut(K) /\ AllowancesDoNotOverlap /\ [Next]_vars
        => RunOut(K)' /\ AllowancesDoNotOverlap'
  BY RunOutKept, ApartKept
<1>3. QED
  BY <1>1, <1>2, Invariance, PTL DEF Spec

-----------------------------------------------------------------------------
(* Imports.                                                                *)

\* What the proofs need of the rows: they are rows, and no two have the same folder and source.
Rowed ==
  /\ edges \in Seq(Edge)
  /\ \A i, j \in DOMAIN edges :
       i # j => edges[i].folder # edges[j].folder \/ edges[i].source # edges[j].source

\* The rows are numbered, and each has its columns.
LEMMA RowIs ==
  ASSUME edges \in Seq(Edge), NEW i \in DOMAIN edges
  PROVE  /\ DOMAIN edges = 1..Len(edges) /\ Len(edges) \in Nat /\ i \in Nat
         /\ edges[i] \in Edge /\ edges[i].position \in Nat
         /\ edges[i].folder \in Folders /\ edges[i].source \in Folders
            /\ edges[i].enabled \in BOOLEAN
<1>1. DOMAIN edges = 1..Len(edges) /\ Len(edges) \in Nat
  OBVIOUS
<1>2. edges[i] \in Edge
  OBVIOUS
<1>3. /\ edges[i].position \in Positions /\ edges[i].folder \in Folders
      /\ edges[i].source \in Folders /\ edges[i].enabled \in BOOLEAN
  BY <1>2 DEF Edge
<1>4. edges[i].position \in Nat
  BY <1>3, DepthAssumption
<1> QED
  BY <1>1, <1>2, <1>3, <1>4

\* Precedence is a strict total order of the rows.
LEMMA BeforeIsOrder ==
  ASSUME edges \in Seq(Edge)
  PROVE  /\ \A i, j \in DOMAIN edges : Before(i, j) \/ Before(j, i) \/ i = j
         /\ \A i \in DOMAIN edges : ~Before(i, i)
         /\ \A i, j, k \in DOMAIN edges : Before(i, j) /\ Before(j, k) => Before(i, k)
<1>1. \A i \in DOMAIN edges : i \in Nat /\ edges[i].position \in Nat
  BY RowIs
<1> QED
  BY <1>1 DEF Before

\* The rows of a set that come before one of them: there is a row more before a later one.
Earlier(S, i) == {j \in S : Before(j, i)}

\* The rows of a set are finite in number, and a later one has more rows before it.
LEMMA EarlierCounts ==
  ASSUME edges \in Seq(Edge), NEW S \in SUBSET DOMAIN edges
  PROVE  /\ IsFiniteSet(S) /\ Cardinality(S) \in Nat
         /\ \A i \in S : Cardinality(Earlier(S, i)) \in 0..(Cardinality(S) - 1)
         /\ \A i, j \in S : Before(i, j) => Cardinality(Earlier(S, i)) < Cardinality(Earlier(S, j))
<1>1. IsFiniteSet(S) /\ Cardinality(S) \in Nat
  <2>1. DOMAIN edges = 1..Len(edges) /\ Len(edges) \in Nat
    OBVIOUS
  <2>2. IsFiniteSet(1..Len(edges))
    BY <2>1, FS_Interval
  <2> QED
    BY <2>1, <2>2, FS_Subset, FS_CardinalityType
<1>2. ASSUME NEW T \in SUBSET S, NEW i \in S, i \notin T
      PROVE  /\ IsFiniteSet(T) /\ Cardinality(T) \in Nat /\ Cardinality(T) < Cardinality(S)
  <2>1. IsFiniteSet(T) /\ Cardinality(T) \in Nat /\ Cardinality(T) <= Cardinality(S)
    BY <1>1, FS_Subset, FS_CardinalityType
  <2>2. Cardinality(S) = Cardinality(T) => S = T
    BY <1>1, FS_Subset
  <2> QED
    BY <1>1, <1>2, <2>1, <2>2
<1>3. ASSUME NEW i \in S
      PROVE  Cardinality(Earlier(S, i)) \in 0..(Cardinality(S) - 1)
  <2>1. Earlier(S, i) \in SUBSET S /\ i \notin Earlier(S, i)
    BY BeforeIsOrder DEF Earlier
  <2>2. Cardinality(Earlier(S, i)) \in Nat /\ Cardinality(Earlier(S, i)) < Cardinality(S)
    BY <1>2, <2>1
  <2> QED
    BY <1>1, <2>2
<1>4. ASSUME NEW i \in S, NEW j \in S, Before(i, j)
      PROVE  Cardinality(Earlier(S, i)) < Cardinality(Earlier(S, j))
  <2>1. Earlier(S, i) \in SUBSET Earlier(S, j) /\ i \in Earlier(S, j) /\ i \notin Earlier(S, i)
    BY <1>4, BeforeIsOrder DEF Earlier
  <2>2. Earlier(S, j) \in SUBSET S /\ j \notin Earlier(S, j)
    BY BeforeIsOrder DEF Earlier
  <2>3. IsFiniteSet(Earlier(S, j)) /\ Cardinality(Earlier(S, j)) \in Nat
    BY <1>2, <2>2
  <2>4. /\ IsFiniteSet(Earlier(S, i)) /\ Cardinality(Earlier(S, i)) \in Nat
        /\ Cardinality(Earlier(S, i)) <= Cardinality(Earlier(S, j))
        /\ Cardinality(Earlier(S, j)) = Cardinality(Earlier(S, i)) => Earlier(S, j) = Earlier(S, i)
    BY <2>1, <2>3, FS_Subset, FS_CardinalityType
  <2> QED
    BY <2>1, <2>3, <2>4
<1> QED
  BY <1>1, <1>3, <1>4

\* Any set of rows can be listed in precedence order: each at the place that the number of
\* rows before it says.
LEMMA Sortable ==
  ASSUME edges \in Seq(Edge), NEW S \in SUBSET DOMAIN edges
  PROVE  \E s \in SetToSeqs(S) : \A k, l \in DOMAIN s : k < l => Before(s[k], s[l])
<1>1. PICK n \in Nat : n = Cardinality(S)
  BY EarlierCounts
<1>2. PICK place \in [S -> 1..n] : \A i \in S : place[i] = Cardinality(Earlier(S, i)) + 1
  <2> DEFINE p == [i \in S |-> Cardinality(Earlier(S, i)) + 1]
  <2>1. \A i \in S : Cardinality(Earlier(S, i)) \in 0..(n - 1)
    BY <1>1, EarlierCounts
  <2>2. \A i \in S : Cardinality(Earlier(S, i)) + 1 \in 1..n
    BY <2>1
  <2>3. p \in [S -> 1..n] /\ \A i \in S : p[i] = Cardinality(Earlier(S, i)) + 1
    BY <2>2
  <2> QED
    BY <2>3
<1>3. \A i, j \in S : Before(i, j) => place[i] < place[j]
  <2>1. ASSUME NEW i \in S, NEW j \in S, Before(i, j)
        PROVE  Cardinality(Earlier(S, i)) < Cardinality(Earlier(S, j))
    BY <2>1, EarlierCounts
  <2>2. \A i \in S : Cardinality(Earlier(S, i)) \in 0..(Cardinality(S) - 1)
    BY EarlierCounts
  <2>3. \A i \in S : Cardinality(Earlier(S, i)) \in Nat
    BY <2>2
  <2> QED
    BY <1>2, <2>1, <2>3
<1>4. place \in Injection(S, 1..n)
  <2>1. \A i, j \in S : place[i] = place[j] => i = j
    BY <1>2, <1>3, BeforeIsOrder
  <2> QED
    BY <1>2, <2>1 DEF Injection, IsInjective
<1>5. place \in Surjection(S, 1..n)
  <2>1. IsFiniteSet(1..n) /\ Cardinality(1..n) = n
    BY FS_Interval
  <2> QED
    BY <1>1, <1>4, <2>1, FS_Injection
<1>6. \A k \in 1..n : \E i \in S : place[i] = k
  BY <1>5 DEF Surjection
<1>7. PICK s \in [1..n -> S] : \A k \in 1..n : place[s[k]] = k
  <2> DEFINE r == [k \in 1..n |-> CHOOSE i \in S : place[i] = k]
  <2>1. \A k \in 1..n : r[k] \in S /\ place[r[k]] = k
    BY <1>6
  <2>2. r \in [1..n -> S]
    BY <2>1
  <2> QED
    BY <2>1, <2>2
<1>8. s \in SetToSeqs(S)
  BY <1>1, <1>7 DEF SetToSeqs
<1>9. ASSUME NEW k \in 1..n, NEW l \in 1..n, k < l
      PROVE  Before(s[k], s[l])
  <2>1. PICK i \in S, j \in S : i = s[k] /\ j = s[l] /\ place[i] = k /\ place[j] = l
    BY <1>7
  <2>2. Before(j, i) => l < k
    BY <1>3, <2>1
  <2>3. ~(l < k) /\ k # l
    BY <1>9
  <2>4. ~Before(j, i) /\ i # j
    BY <2>1, <2>2, <2>3
  <2> QED
    BY <2>1, <2>4, BeforeIsOrder
<1> QED
  BY <1>7, <1>8, <1>9

\* What Listed gives: the sources not seen, each once, an earlier one by a row of no higher
\* position.
LEMMA ListedIs ==
  ASSUME Rowed, NEW f, NEW seen, NEW out, out = Listed(f, seen)
  PROVE  /\ out \in Seq(Folders)
         /\ Range(out) = Sources(f) \ seen
         /\ \A k, l \in DOMAIN out : out[k] = out[l] => k = l
         /\ \A k, l \in DOMAIN out : \A i, j \in ImportsOf(f) :
              k < l /\ edges[i].source = out[k] /\ edges[j].source = out[l]
                => edges[i].position <= edges[j].position
<1> DEFINE S == {i \in ImportsOf(f) : edges[i].source \notin seen}
<1>1. S \in SUBSET DOMAIN edges /\ edges \in Seq(Edge)
  BY DEF ImportsOf, Rowed
<1> DEFINE Sorted(s) == \A k, l \in DOMAIN s : k < l => Before(s[k], s[l])
           ids == CHOOSE s \in SetToSeqs(S) : Sorted(s)
<1>2. out = [k \in DOMAIN ids |-> edges[ids[k]].source]
  BY DEF Listed
<1> HIDE DEF S
<1>3. ids \in SetToSeqs(S) /\ Sorted(ids)
  <2>1. \E s \in SetToSeqs(S) : Sorted(s)
    BY <1>1, Sortable
  <2> HIDE DEF Sorted
  <2> QED
    BY <2>1
<1> HIDE DEF ids
<1>4. PICK n \in Nat : n = Cardinality(S) /\ IsFiniteSet(S)
  BY <1>1, EarlierCounts
<1>5. /\ ids \in [1..n -> S] /\ DOMAIN ids = 1..n
      /\ \A i, j \in 1..n : i # j => ids[i] # ids[j]
  BY <1>3, <1>4 DEF SetToSeqs
<1>6. \A i \in S : \E k \in 1..n : ids[k] = i
  <2>1. ids \in Injection(1..n, S)
    BY <1>5 DEF Injection, IsInjective
  <2>2. IsFiniteSet(1..n) /\ Cardinality(1..n) = n
    BY FS_Interval
  <2>3. ids \in Surjection(1..n, S)
    BY <1>4, <2>1, <2>2, FS_Injection
  <2> QED
    BY <2>3 DEF Surjection
<1>7. \A i \in S : i \in DOMAIN edges /\ edges[i].folder = f /\ edges[i].source \in Folders
  BY <1>1, RowIs DEF S, ImportsOf
<1>8. out \in [1..n -> Folders] /\ DOMAIN out = 1..n
      /\ \A k \in 1..n : out[k] = edges[ids[k]].source
  BY <1>2, <1>5, <1>7
<1>9. out \in Seq(Folders)
  BY <1>8
<1>10. Range(out) = Sources(f) \ seen
  <2>1. Sources(f) \ seen = {edges[i].source : i \in S}
    BY DEF Sources, S
  <2>2. Range(out) = {edges[ids[k]].source : k \in 1..n}
    BY <1>8 DEF Range
  <2> QED
    BY <1>5, <1>6, <2>1, <2>2
<1>11. \A i, j \in S : edges[i].source = edges[j].source => i = j
  BY <1>7 DEF Rowed
<1>12. \A k, l \in DOMAIN out : out[k] = out[l] => k = l
  BY <1>5, <1>8, <1>11
<1>13. ASSUME NEW k \in DOMAIN out, NEW l \in DOMAIN out, NEW i \in ImportsOf(f),
              NEW j \in ImportsOf(f),
              k < l, edges[i].source = out[k], edges[j].source = out[l]
       PROVE  edges[i].position <= edges[j].position
  <2>1. ids[k] \in S /\ ids[l] \in S
    BY <1>5, <1>8, <1>13
  <2>2. i \in DOMAIN edges /\ j \in DOMAIN edges /\ edges[i].folder = f /\ edges[j].folder = f
    BY DEF ImportsOf
  <2>3. i = ids[k] /\ j = ids[l]
    BY <1>7, <1>8, <1>13, <2>1, <2>2 DEF Rowed
  <2>4. Before(i, j)
    BY <1>3, <1>5, <1>8, <1>13, <2>3
  <2>5. edges[i].position \in Nat /\ edges[j].position \in Nat
    BY <1>1, <2>2, RowIs
  <2> QED
    BY <2>4, <2>5 DEF Before
<1> QED
  BY <1>9, <1>10, <1>12, <1>13

\* A set of natural numbers has a least element.
LEMMA LeastNatural ==
  ASSUME NEW S, S \subseteq Nat, S # {}
  PROVE  \E m \in S : \A x \in S : m <= x
<1> DEFINE Below == {p \in Nat \X Nat : p[1] < p[2]}
<1>1. IsWellFoundedOn(Below, Nat)
  <2>1. Below = OpToRel(<, Nat)
    BY DEF OpToRel
  <2> QED BY <2>1, NatLessThanWellFounded
<1>2. \E m \in S : \A x \in S : <<x, m>> \notin Below
  <2> HIDE DEF Below
  <2> QED BY <1>1, WFMin, Zenon
<1>3. \A x, m \in S : <<x, m>> \notin Below => m <= x
  OBVIOUS
<1> HIDE DEF Below
<1> QED BY <1>2, <1>3

\* A set with what its folders import, and the function that Within iterates it by.
Grown(X) == X \cup UNION {Sources(g) : g \in X}
IsNear(h, f, n) == h = [k \in 0..n |-> IF k = 0 THEN {f} ELSE Grown(h[k - 1])]

\* There is one, for each number of steps.
LEMMA NearExists ==
  ASSUME NEW f, NEW n \in Nat
  PROVE  \E h : IsNear(h, f, n)
<1> DEFINE S == {m \in Nat : ~\E h : IsNear(h, f, m)}
<1>1. SUFFICES ASSUME S # {} PROVE FALSE
  OBVIOUS
<1>2. PICK m \in S : \A x \in S : m <= x
  BY <1>1, LeastNatural
<1>3. IsNear([k \in 0..0 |-> {f}], f, 0)
  <2> DEFINE h == [k \in 0..0 |-> {f}]
  <2>1. \A k \in 0..0 : k = 0
    OBVIOUS
  <2>2. h = [k \in 0..0 |-> IF k = 0 THEN {f} ELSE Grown(h[k - 1])]
    BY <2>1
  <2> QED
    BY <2>2 DEF IsNear
<1>4. m # 0
  BY <1>2, <1>3
<1>5. PICK h : IsNear(h, f, m - 1)
  <2>1. m - 1 \in Nat /\ m - 1 \notin S
    BY <1>2, <1>4
  <2> QED
    BY <2>1
<1> DEFINE g == [k \in 0..m |-> IF k = m THEN Grown(h[m - 1]) ELSE h[k]]
<1>6. \A k \in 0..(m - 1) : h[k] = IF k = 0 THEN {f} ELSE Grown(h[k - 1])
  BY <1>5 DEF IsNear
<1>7. \A k \in 0..m : g[k] = IF k = 0 THEN {f} ELSE Grown(g[k - 1])
  <2>1. m \in Nat /\ m > 0
    BY <1>2, <1>4
  <2>2. \A k \in 0..m : k # m => k \in 0..(m - 1)
    BY <2>1
  <2>3. ASSUME NEW k \in 0..m, k # 0
        PROVE  k - 1 \in 0..m /\ k - 1 # m
    BY <2>1, <2>3
  <2>4. ASSUME NEW k \in 0..m, k # 0
        PROVE  g[k - 1] = h[k - 1]
    BY <2>3, <2>4
  <2>5. ASSUME NEW k \in 0..m, k = m
        PROVE  g[k] = Grown(h[m - 1]) /\ k # 0
    BY <2>1, <2>5
  <2>6. ASSUME NEW k \in 0..m, k # m
        PROVE  g[k] = h[k] /\ k \in 0..(m - 1)
    BY <2>2, <2>6
  <2> HIDE DEF g
  <2> QED
    BY <1>6, <2>4, <2>5, <2>6
<1>8. IsNear(g, f, m)
  <2>1. g = [k \in 0..m |-> g[k]]
    OBVIOUS
  <2> HIDE DEF g
  <2> QED
    BY <1>7, <2>1 DEF IsNear
<1> QED
  BY <1>2, <1>8

\* Two of them agree where both are defined.
LEMMA NearAgrees ==
  ASSUME NEW f, NEW n \in Nat, NEW m \in Nat, NEW h, NEW g, IsNear(h, f, n), IsNear(g, f, m)
  PROVE  \A k \in (0..n) \cap (0..m) : h[k] = g[k]
<1> DEFINE S == {k \in (0..n) \cap (0..m) : h[k] # g[k]}
<1>1. SUFFICES ASSUME S # {} PROVE FALSE
  OBVIOUS
<1>2. PICK k \in S : \A x \in S : k <= x
  <2>1. S \subseteq Nat
    OBVIOUS
  <2> HIDE DEF S
  <2> QED
    BY <1>1, <2>1, LeastNatural
<1>3. \A i \in 0..n : h[i] = IF i = 0 THEN {f} ELSE Grown(h[i - 1])
  BY DEF IsNear
<1>4. \A i \in 0..m : g[i] = IF i = 0 THEN {f} ELSE Grown(g[i - 1])
  BY DEF IsNear
<1>5. k # 0
  BY <1>2, <1>3, <1>4
<1>6. k - 1 \in (0..n) \cap (0..m) /\ k - 1 \notin S
  BY <1>2, <1>5
<1>7. h[k - 1] = g[k - 1]
  BY <1>6
<1> QED
  BY <1>2, <1>3, <1>4, <1>5, <1>7

\* What is within a number of imports: the folder itself, and one import more each time.
LEMMA WithinIs ==
  ASSUME NEW f
  PROVE  /\ Within(f, 0) = {f}
         /\ \A n \in Nat : Within(f, n + 1) = Grown(Within(f, n))
<1> DEFINE Near(n) == CHOOSE h : IsNear(h, f, n)
<1>1. \A n : Within(f, n) = Near(n)[n]
  BY DEF Within, IsNear, Grown
<1>2. \A n \in Nat : IsNear(Near(n), f, n)
  BY NearExists
<1> HIDE DEF Near
<1>3. \A n \in Nat : \A k \in 0..n : Near(n)[k] = IF k = 0 THEN {f} ELSE Grown(Near(n)[k - 1])
  BY <1>2 DEF IsNear
<1>4. Within(f, 0) = {f}
  BY <1>1, <1>3
<1>5. ASSUME NEW n \in Nat
      PROVE  Within(f, n + 1) = Grown(Within(f, n))
  <2>1. n + 1 \in Nat /\ n + 1 \in 0..(n + 1) /\ n + 1 # 0 /\ (n + 1) - 1 = n
    OBVIOUS
  <2>2. Near(n + 1)[n + 1] = Grown(Near(n + 1)[n])
    BY <1>3, <2>1
  <2>3. n \in (0..n) \cap (0..(n + 1))
    OBVIOUS
  <2>4. Near(n + 1)[n] = Near(n)[n]
    BY <1>2, <2>1, <2>3, NearAgrees
  <2> QED
    BY <1>1, <2>2, <2>4
<1> QED
  BY <1>4, <1>5

\* More steps reach no less.
LEMMA WithinGrows ==
  ASSUME NEW f, NEW m \in Nat, NEW n \in Nat, m <= n
  PROVE  Within(f, m) \subseteq Within(f, n)
<1> DEFINE S == {k \in Nat : m <= k /\ ~(Within(f, m) \subseteq Within(f, k))}
<1>1. SUFFICES ASSUME S # {} PROVE FALSE
  OBVIOUS
<1>2. PICK k \in S : \A x \in S : k <= x
  <2>1. S \subseteq Nat
    OBVIOUS
  <2> HIDE DEF S
  <2> QED
    BY <1>1, <2>1, LeastNatural
<1>3. k # m
  BY <1>2
<1>4. k - 1 \in Nat /\ m <= k - 1 /\ k - 1 \notin S
  BY <1>2, <1>3
<1>5. Within(f, m) \subseteq Within(f, k - 1)
  BY <1>4
<1>6. Within(f, k) = Grown(Within(f, k - 1))
  <2>1. k = (k - 1) + 1
    BY <1>2
  <2> QED
    BY <1>4, <2>1, WithinIs
<1> QED
  BY <1>2, <1>5, <1>6 DEF Grown

\* A set that no import leads out of keeps everything within any number of them.
LEMMA ClosedKeeps ==
  ASSUME NEW C, \A g \in C : Sources(g) \subseteq C, NEW f \in C, NEW n \in Nat
  PROVE  Within(f, n) \subseteq C
<1> DEFINE S == {k \in Nat : ~(Within(f, k) \subseteq C)}
<1>1. SUFFICES ASSUME S # {} PROVE FALSE
  OBVIOUS
<1>2. PICK k \in S : \A x \in S : k <= x
  <2>1. S \subseteq Nat
    OBVIOUS
  <2> HIDE DEF S
  <2> QED
    BY <1>1, <2>1, LeastNatural
<1>3. k # 0
  BY <1>2, WithinIs
<1>4. k - 1 \in Nat /\ k = (k - 1) + 1 /\ k - 1 \notin S
  BY <1>2, <1>3
<1>5. Within(f, k - 1) \subseteq C /\ Within(f, k) = Grown(Within(f, k - 1))
  BY <1>4, WithinIs
<1> QED
  BY <1>2, <1>5 DEF Grown

\* The last of a frontier, and what is left when its first is read.
LEMMA Frontier ==
  ASSUME NEW s \in Seq(Folders), s # <<>>
  PROVE  /\ Head(s) \in Folders /\ Head(s) \in Range(s) /\ Tail(s) \in Seq(Folders)
         /\ Range(s) = {Head(s)} \cup Range(Tail(s))
         /\ Len(s) = 1 => Tail(s) = <<>> /\ Range(s) = {Head(s)}
         /\ Len(s) # 1 => Tail(s) # <<>>
         /\ Len(s) \in Nat /\ Range(s) \subseteq Folders
<1>1. Len(s) \in Nat /\ DOMAIN s = 1..Len(s) /\ Len(s) > 0 /\ \A i \in 1..Len(s) : s[i] \in Folders
  OBVIOUS
<1>2. /\ Head(s) = s[1] /\ Tail(s) \in Seq(Folders) /\ Len(Tail(s)) = Len(s) - 1
      /\ \A i \in 1..Len(Tail(s)) : Tail(s)[i] = s[i + 1]
  BY HeadTailProperties
<1>3. Range(s) = {s[i] : i \in 1..Len(s)} /\ Range(Tail(s)) = {Tail(s)[i] : i \in 1..Len(Tail(s))}
  BY <1>2, RangeEquality
<1>4. 1 \in 1..Len(s)
  BY <1>1
<1>5. Range(Tail(s)) \subseteq Range(s)
  <2>1. \A i \in 1..Len(Tail(s)) : i + 1 \in 1..Len(s)
    BY <1>1, <1>2
  <2> QED
    BY <1>2, <1>3, <2>1
<1>6. Range(s) \subseteq {s[1]} \cup Range(Tail(s))
  <2>1. ASSUME NEW i \in 1..Len(s), i # 1
        PROVE  i - 1 \in 1..Len(Tail(s)) /\ Tail(s)[i - 1] = s[i]
    BY <1>1, <1>2, <2>1
  <2> QED
    BY <1>3, <2>1
<1>7. s[1] \in Range(s)
  BY <1>3, <1>4
<1>8. Tail(s) = <<>> <=> Len(s) = 1
  BY <1>1, <1>2, EmptySeq
<1>9. Range(<<>>) = {}
  BY DEF Range
<1> QED
  BY <1>1, <1>2, <1>3, <1>5, <1>6, <1>7, <1>8, <1>9

\* A walk with what it has seen and has to read replaced.
PutWalked(w, seen, f, n, d) == [w EXCEPT !.seen = seen, !.frontier = f, !.next = n, !.depth = d]

\* Replacing those fields gives a walk, and leaves the others alone.
LEMMA WalkPut ==
  ASSUME NEW w \in Walk, NEW seen, seen \subseteq Folders, NEW f \in Seq(Folders),
         NEW n \in Seq(Folders),
         NEW d \in Nat, NEW v, v = PutWalked(w, seen, f, n, d)
  PROVE  /\ v \in Walk
         /\ v.pc = w.pc /\ v.target = w.target /\ v.source = w.source /\ v.raced = w.raced
         /\ v.seen = seen /\ v.frontier = f /\ v.next = n /\ v.depth = d
<1>1. v = [pc |-> w.pc, target |-> w.target, source |-> w.source, frontier |-> f, next |-> n,
           seen |-> seen, depth |-> d, raced |-> w.raced]
  BY DEF Walk, PutWalked
<1>2. /\ w.pc \in {"idle", "walk", "insert"} /\ w.raced \in BOOLEAN
      /\ w.target \in Folders \cup {NoFolder} /\ w.source \in Folders \cup {NoFolder}
  BY DEF Walk
<1> QED
  BY <1>1, <1>2 DEF Walk

\* What one statement of a walk leaves: the first folder of the frontier, h, is read, what it
\* imports is seen, and what had not been seen is a folder to read.
IsVisited(w, v, h, new) ==
  /\ v \in Walk /\ h \in Folders /\ new \in Seq(Folders)
  /\ v.pc = w.pc /\ v.target = w.target /\ v.source = w.source /\ v.raced = w.raced
  /\ v.seen = w.seen \cup Sources(h) /\ Range(new) = Sources(h) \ w.seen
  /\ Range(v.frontier) \cup Range(v.next) \cup {h}
       = Range(w.frontier) \cup Range(w.next) \cup Range(new) \cup {h}
  /\ v.depth = IF Len(w.frontier) = 1 THEN w.depth + 1 ELSE w.depth
  /\ Len(w.frontier) = 1 => /\ v.next = <<>> /\ Range(w.frontier) = {h}
                            /\ Range(v.frontier) = Range(w.next) \cup Range(new)
                            /\ v.frontier = <<>> <=> w.next = <<>> /\ Range(new) = {}
  /\ Len(w.frontier) # 1 => /\ v.frontier # <<>> /\ Range(w.frontier) = {h} \cup Range(v.frontier)
                            /\ Range(v.next) = Range(w.next) \cup Range(new)
                            /\ v.next = <<>> <=> w.next = <<>> /\ Range(new) = {}

\* Visiting a folder does that.
LEMMA VisitedIs ==
  ASSUME Rowed, NEW w \in Walk, w.frontier # <<>>
  PROVE  IsVisited(w, Visited(w), Head(w.frontier), Listed(Head(w.frontier), w.seen))
<1> SUFFICES ASSUME NEW v, v = Visited(w),
                    NEW h, h = Head(w.frontier), NEW new, new = Listed(h, w.seen)
             PROVE  IsVisited(w, v, h, new)
  OBVIOUS
<1>1. /\ w.frontier \in Seq(Folders) /\ w.next \in Seq(Folders) /\ w.seen \subseteq Folders
      /\ w.depth \in Nat /\ w.pc \in {"idle", "walk", "insert"} /\ w.raced \in BOOLEAN
      /\ w.target \in Folders \cup {NoFolder} /\ w.source \in Folders \cup {NoFolder}
  BY DEF Walk
<1>2. new \in Seq(Folders) /\ Range(new) = Sources(h) \ w.seen
  BY ListedIs
<1>3. h \in Folders /\ Sources(h) \subseteq Folders
  <2>1. Sources(h) \subseteq Folders
    BY RowIs DEF Sources, ImportsOf, Rowed
  <2> QED
    BY <1>1, <2>1, Frontier
<1> DEFINE level == w.next \o new
<1>4. level \in Seq(Folders) /\ Range(level) = Range(w.next) \cup Range(new)
  BY <1>1, <1>2, RangeConcatenation
<1>5. level = <<>> <=> w.next = <<>> /\ Range(new) = {}
  <2>1. level = <<>> <=> w.next = <<>> /\ new = <<>>
    BY <1>1, <1>2
  <2>2. new = <<>> <=> Range(new) = {}
    BY <1>2 DEF Range
  <2> QED
    BY <2>1, <2>2
<1> HIDE DEF level
<1>6. ASSUME NEW f \in Seq(Folders), NEW n \in Seq(Folders), NEW d \in Nat,
             v = PutWalked(w, w.seen \cup Range(new), f, n, d)
      PROVE  /\ v \in Walk
             /\ v.pc = w.pc /\ v.target = w.target /\ v.source = w.source /\ v.raced = w.raced
             /\ v.seen = w.seen \cup Sources(h) /\ v.frontier = f /\ v.next = n /\ v.depth = d
  <2>1. PICK seen : seen = w.seen \cup Range(new)
    OBVIOUS
  <2>2. seen \subseteq Folders /\ seen = w.seen \cup Sources(h)
    BY <1>1, <1>2, <1>3, <2>1
  <2>3. v = PutWalked(w, seen, f, n, d) /\ w \in Walk
    BY <1>6, <2>1
  <2>4. /\ v \in Walk
        /\ v.pc = w.pc /\ v.target = w.target /\ v.source = w.source /\ v.raced = w.raced
        /\ v.seen = seen /\ v.frontier = f /\ v.next = n /\ v.depth = d
    BY <2>2, <2>3, WalkPut
  <2> QED
    BY <2>2, <2>4
<1>7. CASE Len(w.frontier) = 1
  <2>1. v = PutWalked(w, w.seen \cup Range(new), level, <<>>, w.depth + 1)
    BY <1>7 DEF Visited, level, PutWalked
  <2>2. /\ v \in Walk
        /\ v.pc = w.pc /\ v.target = w.target /\ v.source = w.source /\ v.raced = w.raced
        /\ v.seen = w.seen \cup Sources(h) /\ v.frontier = level /\ v.next = <<>>
        /\ v.depth = w.depth + 1
    <3>1. <<>> \in Seq(Folders) /\ w.depth + 1 \in Nat
      BY <1>1
    <3> QED
      BY <1>4, <1>6, <2>1, <3>1
  <2>3. Range(w.frontier) = {h} /\ Range(<<>>) = {}
    BY <1>1, <1>7, Frontier DEF Range
  <2> QED
    BY <1>2, <1>3, <1>4, <1>5, <1>7, <2>2, <2>3 DEF IsVisited
<1>8. CASE Len(w.frontier) # 1
  <2>1. v = PutWalked(w, w.seen \cup Range(new), Tail(w.frontier), level, w.depth)
    BY <1>8 DEF Visited, level, PutWalked
  <2>2. /\ Tail(w.frontier) \in Seq(Folders) /\ Tail(w.frontier) # <<>>
        /\ Range(w.frontier) = {h} \cup Range(Tail(w.frontier))
    BY <1>1, <1>8, Frontier
  <2>3. /\ v \in Walk
        /\ v.pc = w.pc /\ v.target = w.target /\ v.source = w.source /\ v.raced = w.raced
        /\ v.seen = w.seen \cup Sources(h) /\ v.frontier = Tail(w.frontier) /\ v.next = level
        /\ v.depth = w.depth
    <3>1. PICK f, n, d : f = Tail(w.frontier) /\ n = level /\ d = w.depth
      OBVIOUS
    <3>2. f \in Seq(Folders) /\ n \in Seq(Folders) /\ d \in Nat
      BY <1>1, <1>4, <2>2, <3>1
    <3>3. v = PutWalked(w, w.seen \cup Range(new), f, n, d)
      BY <2>1, <3>1
    <3>4. /\ v \in Walk
          /\ v.pc = w.pc /\ v.target = w.target /\ v.source = w.source /\ v.raced = w.raced
          /\ v.seen = w.seen \cup Sources(h) /\ v.frontier = f /\ v.next = n /\ v.depth = d
      BY <1>6, <3>2, <3>3
    <3> QED
      BY <3>1, <3>4
  <2>4. /\ v.frontier # <<>> /\ Range(v.next) = Range(w.next) \cup Range(new)
        /\ v.next = <<>> <=> w.next = <<>> /\ Range(new) = {}
    <3>1. v.frontier = Tail(w.frontier) /\ v.next = level
      BY <2>3
    <3> QED
      BY <1>4, <1>5, <2>2, <3>1
  <2>6. Range(w.frontier) = {h} \cup Range(v.frontier)
    BY <2>2, <2>3
  <2>5. Range(v.frontier) \cup Range(v.next) \cup {h}
          = Range(w.frontier) \cup Range(w.next) \cup Range(new) \cup {h}
    <3>1. v.frontier = Tail(w.frontier)
      BY <2>3
    <3> QED
      BY <2>2, <2>4, <3>1
  <2> QED
    BY <1>2, <1>3, <1>8, <2>3, <2>4, <2>5, <2>6 DEF IsVisited
<1> QED
  BY <1>7, <1>8

\* What each folder imports, and the sets no import leads out of.
Imported == [f \in Folders |-> Sources(f)]
Closed(G, C) == \A f \in C : G[f] \subseteq C

\* A chain of imports that leaves f does not come back to it: it stays in a set without f.
NoWayBack(G, f) == \E C \in SUBSET Folders : Closed(G, C) /\ G[f] \subseteq C /\ f \notin C
NoCircle(G) == \A f \in Folders : NoWayBack(G, f)

\* What an import in the making has established, while no other was inserted and none was
\* enabled: what its walk has read led to what it has seen, and not to the target; at its
\* end the source is in a set without the target. A walk is cut off when it is deep, but
\* then it has seen much.
ToRead(w) == Range(w.frontier) \cup Range(w.next)

WalkHolds(G, rs, w) ==
  /\ w.pc # "idle" => w.target \in Folders /\ w.source \in Folders /\ w.target # w.source
  /\ w.pc = "walk" =>
       /\ w.frontier # <<>> /\ ToRead(w) \subseteq w.seen \cup {w.source}
       /\ Cardinality(w.seen) >= w.depth /\ (w.next # <<>> => Cardinality(w.seen) > w.depth)
       /\ rs = {} /\ ~w.raced =>
            /\ w.target \notin w.seen
            /\ \A f \in (w.seen \cup {w.source}) \ ToRead(w) : G[f] \subseteq w.seen
  /\ w.pc = "insert" /\ rs = {} /\ ~w.raced =>
       \E C \in SUBSET Folders : Closed(G, C) /\ w.source \in C /\ w.target \notin C

ImportsInv ==
  /\ ImportsTypeOK
  /\ \A c \in Creators : WalkHolds(Imported, routes, walk[c])
  /\ routes = {} => NoCircle(Imported)

\* Fewer imports, or more routes to a circle, take nothing away from this.
LEMMA FewerKeep ==
  ASSUME NEW G, NEW H, \A f \in Folders : H[f] \subseteq G[f]
  PROVE  /\ NoCircle(G) => NoCircle(H)
         /\ \A rs, rt : rs \subseteq rt =>
              \A w \in Walk : WalkHolds(G, rs, w) => WalkHolds(H, rt, w)
<1>1. ASSUME NEW C \in SUBSET Folders, Closed(G, C)
      PROVE  Closed(H, C)
  BY <1>1 DEF Closed
<1>2. NoCircle(G) => NoCircle(H)
  BY <1>1 DEF NoCircle, NoWayBack
<1>3. ASSUME NEW rs, NEW rt, rs \subseteq rt, NEW w \in Walk, WalkHolds(G, rs, w)
      PROVE  WalkHolds(H, rt, w)
  <2>1. rt = {} => rs = {}
    BY <1>3
  <2>2. w.pc = "walk" => (w.seen \cup {w.source}) \ ToRead(w) \subseteq Folders
    BY <1>3 DEF WalkHolds, Walk
  <2>3. w.pc = "insert" /\ rt = {} /\ ~w.raced =>
          \E C \in SUBSET Folders : Closed(H, C) /\ w.source \in C /\ w.target \notin C
    BY <1>1, <1>3, <2>1 DEF WalkHolds
  <2>4. w.pc = "walk" =>
          /\ w.frontier # <<>> /\ ToRead(w) \subseteq w.seen \cup {w.source}
          /\ Cardinality(w.seen) >= w.depth /\ (w.next # <<>> => Cardinality(w.seen) > w.depth)
    BY <1>3 DEF WalkHolds
  <2>5. w.pc = "walk" /\ rt = {} /\ ~w.raced =>
            /\ w.target \notin w.seen
            /\ \A f \in (w.seen \cup {w.source}) \ ToRead(w) : H[f] \subseteq w.seen
    BY <1>3, <2>1, <2>2 DEF WalkHolds
  <2> QED
    BY <1>3, <2>3, <2>4, <2>5 DEF WalkHolds
<1> QED
  BY <1>2, <1>3

\* A seen set is finite, and grows when a source is new.
LEMMA SeenGrows ==
  ASSUME NEW seen \in SUBSET Folders, NEW new \in SUBSET Folders
  PROVE  /\ IsFiniteSet(seen) /\ Cardinality(seen) \in Nat
         /\ IsFiniteSet(seen \cup new) /\ Cardinality(seen \cup new) \in Nat
         /\ Cardinality(seen) <= Cardinality(seen \cup new)
         /\ ~(new \subseteq seen) => Cardinality(seen) < Cardinality(seen \cup new)
<1>1. seen \cup new \in SUBSET Folders /\ IsFiniteSet(Folders)
  BY FolderAssumption
<1>2. IsFiniteSet(seen) /\ IsFiniteSet(seen \cup new)
  BY <1>1, FS_Subset
<1>3. /\ Cardinality(seen) \in Nat /\ Cardinality(seen \cup new) \in Nat
      /\ Cardinality(seen) <= Cardinality(seen \cup new)
      /\ Cardinality(seen \cup new) = Cardinality(seen) => seen \cup new = seen
  <2>1. seen \in SUBSET (seen \cup new)
    OBVIOUS
  <2> QED
    BY <1>2, <2>1, FS_Subset, FS_CardinalityType
<1> QED
  BY <1>2, <1>3

\* A statement of the walk that does not meet the target keeps it so.
LEMMA WalkOn ==
  ASSUME Rowed, NEW rs, NEW w \in Walk, WalkHolds(Imported, rs, w), w.pc = "walk",
         w.target \notin Sources(Head(w.frontier)), NEW v, v = Visited(w)
  PROVE  /\ v \in Walk /\ v.pc = "walk"
         /\ v.frontier # <<>> => WalkHolds(Imported, rs, v)
         /\ v.frontier = <<>> /\ rs = {} /\ ~v.raced =>
              \E C \in SUBSET Folders : Closed(Imported, C) /\ v.source \in C /\ v.target \notin C
         /\ v.frontier # <<>> => Cardinality(v.seen) >= v.depth
<1>1. PICK h, new : h = Head(w.frontier) /\ new = Listed(h, w.seen)
  OBVIOUS
<1>2. /\ w.frontier # <<>> /\ ToRead(w) \subseteq w.seen \cup {w.source}
      /\ Cardinality(w.seen) >= w.depth /\ (w.next # <<>> => Cardinality(w.seen) > w.depth)
      /\ w.target \in Folders /\ w.source \in Folders /\ w.target # w.source
  BY DEF WalkHolds
<1>3. /\ v \in Walk /\ h \in Folders /\ new \in Seq(Folders)
      /\ v.pc = w.pc /\ v.target = w.target /\ v.source = w.source /\ v.raced = w.raced
      /\ v.seen = w.seen \cup Sources(h) /\ Range(new) = Sources(h) \ w.seen
      /\ ToRead(v) \cup {h} = ToRead(w) \cup Range(new) \cup {h}
      /\ v.depth = IF Len(w.frontier) = 1 THEN w.depth + 1 ELSE w.depth
      /\ Len(w.frontier) = 1 => v.next = <<>>
         /\ (v.frontier = <<>> <=> w.next = <<>> /\ Range(new) = {})
      /\ Len(w.frontier) # 1 => v.frontier # <<>>
         /\ (v.next = <<>> <=> w.next = <<>> /\ Range(new) = {})
  <2>1. IsVisited(w, v, h, new)
    BY <1>1, <1>2, VisitedIs
  <2>2. ToRead(v) \cup {h} = ToRead(w) \cup Range(new) \cup {h}
    BY <2>1 DEF IsVisited, ToRead
  <2> QED
    BY <2>1, <2>2 DEF IsVisited
<1>4. h \in ToRead(w) /\ Sources(h) \subseteq Folders /\ w.seen \subseteq Folders /\ w.depth \in Nat
  <2>1. w.frontier \in Seq(Folders)
    BY DEF Walk
  <2>2. h \in ToRead(w)
    BY <1>1, <1>2, <2>1, Frontier DEF ToRead
  <2>3. Sources(h) \subseteq Folders
    BY RowIs DEF Sources, ImportsOf, Rowed
  <2> QED
    BY <2>2, <2>3 DEF Walk
<1>5. /\ Cardinality(w.seen) \in Nat /\ Cardinality(v.seen) \in Nat
      /\ Cardinality(w.seen) <= Cardinality(v.seen)
      /\ Range(new) # {} => Cardinality(w.seen) < Cardinality(v.seen)
  <2>1. Range(new) # {} => ~(Sources(h) \subseteq w.seen)
    BY <1>3
  <2> QED
    BY <1>3, <1>4, <2>1, SeenGrows
<1>6. /\ v.frontier # <<>> => Cardinality(v.seen) >= v.depth
      /\ v.next # <<>> => Cardinality(v.seen) > v.depth
  <2>1. PICK m, n : m = Cardinality(w.seen) /\ n = Cardinality(v.seen)
    OBVIOUS
  <2>2. /\ m \in Nat /\ n \in Nat /\ w.depth \in Nat /\ m <= n /\ m >= w.depth
        /\ w.next # <<>> => m > w.depth
        /\ Range(new) # {} => m < n
    BY <1>2, <1>4, <1>5, <2>1
  <2>3. CASE Len(w.frontier) = 1
    <3>1. v.next = <<>> /\ v.depth = w.depth + 1
      BY <1>3, <2>3
    <3>2. v.frontier # <<>> => w.next # <<>> \/ Range(new) # {}
      BY <1>3, <2>3
    <3> QED
      BY <2>1, <2>2, <3>1, <3>2
  <2>4. CASE Len(w.frontier) # 1
    <3>1. v.depth = w.depth
      BY <1>3, <2>4
    <3>2. v.next # <<>> => w.next # <<>> \/ Range(new) # {}
      BY <1>3, <2>4
    <3> QED
      BY <2>1, <2>2, <3>1, <3>2
  <2> QED
    BY <2>3, <2>4
<1>7. ToRead(v) \subseteq v.seen \cup {v.source}
  BY <1>2, <1>3, <1>4
<1>8. ASSUME rs = {}, ~v.raced
      PROVE  /\ v.target \notin v.seen
             /\ \A f \in (v.seen \cup {v.source}) \ ToRead(v) : Imported[f] \subseteq v.seen
  <2>1. /\ w.target \notin w.seen
        /\ \A f \in (w.seen \cup {w.source}) \ ToRead(w) : Imported[f] \subseteq w.seen
    BY <1>3, <1>8 DEF WalkHolds
  <2>2. Imported[h] = Sources(h)
    BY <1>3 DEF Imported
  <2>3. ASSUME NEW f \in (v.seen \cup {v.source}) \ ToRead(v)
        PROVE  f = h \/ f \in (w.seen \cup {w.source}) \ ToRead(w)
    BY <1>3
  <2> QED
    BY <1>1, <1>3, <2>1, <2>2, <2>3
<1>9. v.frontier # <<>> => WalkHolds(Imported, rs, v)
  BY <1>2, <1>3, <1>6, <1>7, <1>8 DEF WalkHolds
<1>10. ASSUME v.frontier = <<>>, rs = {}, ~v.raced
       PROVE  \E C \in SUBSET Folders : Closed(Imported, C) /\ v.source \in C /\ v.target \notin C
  <2>1. ToRead(v) = {}
    <3>1. v.next = <<>>
      BY <1>3, <1>10
    <3> QED
      BY <1>10, <3>1 DEF ToRead, Range
  <2> DEFINE C == v.seen \cup {v.source}
  <2>2. C \in SUBSET Folders /\ Closed(Imported, C) /\ v.source \in C /\ v.target \notin C
    BY <1>2, <1>3, <1>4, <1>8, <1>10, <2>1 DEF Closed
  <2> QED
    BY <2>2
<1> QED
  BY <1>3, <1>6, <1>9, <1>10

\* An import whose source is in a closed set without the target makes no circle.
LEMMA OneMore ==
  ASSUME NEW G, NEW H, NEW t \in Folders, NEW s \in Folders, t # s, NoCircle(G),
         NEW D \in SUBSET Folders, Closed(G, D), s \in D, t \notin D,
         \A f \in Folders : H[f] \subseteq G[f] \cup (IF f = t THEN {s} ELSE {})
  PROVE  NoCircle(H)
<1> SUFFICES ASSUME NEW f \in Folders PROVE NoWayBack(H, f)
  BY DEF NoCircle
<1>1. PICK C \in SUBSET Folders : Closed(G, C) /\ G[f] \subseteq C /\ f \notin C
  BY DEF NoCircle, NoWayBack
<1>2. CASE f = t
  <2>1. Closed(H, C \cup D) /\ H[f] \subseteq C \cup D /\ f \notin C \cup D
    BY <1>1, <1>2 DEF Closed
  <2> QED
    BY <2>1 DEF NoWayBack
<1>3. CASE f # t /\ t \notin C
  <2>1. Closed(H, C) /\ H[f] \subseteq C
    BY <1>1, <1>3 DEF Closed
  <2> QED
    BY <1>1, <2>1 DEF NoWayBack
<1>4. CASE f # t /\ t \in C /\ f \notin D
  <2>1. Closed(H, C \cup D) /\ H[f] \subseteq C \cup D /\ f \notin C \cup D
    BY <1>1, <1>4 DEF Closed
  <2> QED
    BY <2>1 DEF NoWayBack
<1>5. CASE f # t /\ t \in C /\ f \in D
  <2>1. Closed(H, C \cap D) /\ H[f] \subseteq C \cap D /\ f \notin C \cap D
    BY <1>1, <1>5 DEF Closed
  <2> QED
    BY <2>1 DEF NoWayBack
<1> QED
  BY <1>2, <1>3, <1>4, <1>5

\* An import that is not in the making.
LEMMA NoWalkHolds ==
  /\ NoWalk \in Walk /\ NoWalk.pc = "idle"
  /\ \A G, rs : WalkHolds(G, rs, NoWalk)
<1>1. <<>> \in Seq(Folders) /\ {} \subseteq Folders /\ 0 \in Nat
  OBVIOUS
<1>2. NoWalk \in Walk /\ NoWalk.pc = "idle"
  BY <1>1 DEF NoWalk, Walk
<1> QED
  BY <1>2 DEF WalkHolds

\* What is kept of an import between its statements.
Created(pc, t, s, f, raced) ==
  [pc |-> pc, target |-> t, source |-> s, frontier |-> f, next |-> <<>>, seen |-> {}, depth |-> 0,
   raced |-> raced]

\* A record of those fields is a walk, with those fields.
LEMMA CreatedIs ==
  ASSUME NEW pc \in {"idle", "walk", "insert"}, NEW t \in Folders \cup {NoFolder},
         NEW s \in Folders \cup {NoFolder}, NEW f \in Seq(Folders), NEW raced \in BOOLEAN,
         NEW w, w = Created(pc, t, s, f, raced)
  PROVE  /\ w \in Walk /\ w.pc = pc /\ w.target = t /\ w.source = s /\ w.frontier = f
         /\ w.next = <<>> /\ w.seen = {} /\ w.depth = 0 /\ w.raced = raced
<1>1. <<>> \in Seq(Folders) /\ {} \subseteq Folders /\ 0 \in Nat
  OBVIOUS
<1> QED
  BY <1>1 DEF Created, Walk

\* An import that has begun: nothing is read yet.
LEMMA BegunHolds ==
  ASSUME NEW t \in Folders, NEW s \in Folders, t # s, NEW raced \in BOOLEAN,
         NEW w, w = Created("walk", t, s, <<s>>, raced)
  PROVE  w \in Walk /\ \A G, rs : WalkHolds(G, rs, w)
<1>1. PICK pc, f : pc = "walk" /\ f = <<s>>
  OBVIOUS
<1>2. f \in Seq(Folders) /\ f # <<>> /\ Range(f) = {s} /\ Range(<<>>) = {}
  BY <1>1 DEF Range
<1>3. /\ w = Created(pc, t, s, f, raced) /\ pc \in {"idle", "walk", "insert"}
      /\ t \in Folders \cup {NoFolder} /\ s \in Folders \cup {NoFolder}
  BY <1>1
<1>4. /\ w \in Walk /\ w.pc = pc /\ w.target = t /\ w.source = s /\ w.frontier = f
      /\ w.next = <<>> /\ w.seen = {} /\ w.depth = 0
  BY <1>2, <1>3, CreatedIs
<1>5. ToRead(w) = {s}
  BY <1>2, <1>4 DEF ToRead
<1>6. Cardinality(w.seen) = 0
  BY <1>4, FS_EmptySet
<1>7. Cardinality(w.seen) >= w.depth
  BY <1>4, <1>6
<1>8. w.pc = "walk" /\ w.target \in Folders /\ w.source \in Folders /\ w.target # w.source
  BY <1>1, <1>4
<1>9. w.target \notin w.seen /\ (w.seen \cup {w.source}) \ ToRead(w) = {}
  BY <1>4, <1>5
<1>10. w.frontier # <<>> /\ w.next = <<>> /\ ToRead(w) \subseteq w.seen \cup {w.source}
  BY <1>2, <1>4, <1>5
<1> QED
  BY <1>4, <1>7, <1>8, <1>9, <1>10 DEF WalkHolds

\* An import whose walk has ended: its source is in a closed set without its target.
LEMMA CheckedHolds ==
  ASSUME NEW t \in Folders, NEW s \in Folders, NEW raced \in BOOLEAN, t # s, NEW G, NEW rs,
         rs = {} /\ ~raced => \E C \in SUBSET Folders : Closed(G, C) /\ s \in C /\ t \notin C,
         NEW w, w = Created("insert", t, s, <<>>, raced)
  PROVE  w \in Walk /\ WalkHolds(G, rs, w)
<1>1. PICK f, pc : f = <<>> /\ pc = "insert"
  OBVIOUS
<1>2. w = Created(pc, t, s, f, raced) /\ pc \in {"idle", "walk", "insert"} /\ f \in Seq(Folders)
  BY <1>1
<1>3. w \in Walk /\ w.pc = pc /\ w.target = t /\ w.source = s /\ w.raced = raced
  BY <1>2, CreatedIs
<1> QED
  BY <1>1, <1>3 DEF WalkHolds

\* An import in the making while another is inserted: it is raced, and nothing more is
\* said of what it has read.
LEMMA RacedHolds ==
  ASSUME NEW w \in Walk, NEW G, NEW rs, WalkHolds(G, rs, w), NEW H, NEW rt,
         NEW v, v = [w EXCEPT !.raced = TRUE]
  PROVE  v \in Walk /\ WalkHolds(H, rt, v)
<1>1. v = [pc |-> w.pc, target |-> w.target, source |-> w.source, frontier |-> w.frontier,
           next |-> w.next, seen |-> w.seen, depth |-> w.depth, raced |-> TRUE]
  BY DEF Walk
<1>2. v \in Walk
  BY <1>1 DEF Walk
<1>3. /\ v.pc = w.pc /\ v.target = w.target /\ v.source = w.source /\ v.frontier = w.frontier
      /\ v.next = w.next /\ v.seen = w.seen /\ v.depth = w.depth /\ v.raced
  BY <1>1
<1>4. ToRead(v) = ToRead(w)
  BY <1>3 DEF ToRead
<1> QED
  BY <1>2, <1>3, <1>4 DEF WalkHolds

\* Once there is a route to a circle nothing is said of what an import has read.
LEMMA RouteFrees ==
  ASSUME NEW w \in Walk, NEW G, NEW rs, WalkHolds(G, rs, w), NEW H, NEW rt, rt # {}
  PROVE  WalkHolds(H, rt, w)
BY DEF WalkHolds

\* The invariant's facts on the variables, for the steps.
LEMMA InvGives ==
  ASSUME ImportsInv
  PROVE  /\ Rowed /\ live \subseteq Folders /\ Len(edges) <= MaxEdges
         /\ walk \in [Creators -> Walk] /\ routes \subseteq {"race", "enable"}
         /\ \A c \in Creators : walk[c] \in Walk /\ WalkHolds(Imported, routes, walk[c])
BY DEF ImportsInv, ImportsTypeOK, Rowed

\* A step of one import that changes nothing else.
LEMMA OneWalk ==
  ASSUME ImportsInv, UNCHANGED <<live, edges, routes>>, NEW c \in Creators,
         NEW w \in Walk, WalkHolds(Imported, routes, w), walk' = [walk EXCEPT ![c] = w]
  PROVE  ImportsInv'
<1>1. /\ walk \in [Creators -> Walk] /\ walk' \in [Creators -> Walk]
      /\ \A d \in Creators : walk'[d] = IF d = c THEN w ELSE walk[d]
  BY InvGives
<1>2. Imported' = Imported
  BY DEF Imported, Sources, ImportsOf, Followed
<1>3. ImportsTypeOK'
  BY <1>1 DEF ImportsInv, ImportsTypeOK
<1>4. \A d \in Creators : WalkHolds(Imported, routes, walk'[d])
  BY <1>1, InvGives
<1>5. (\A d \in Creators : WalkHolds(Imported, routes, walk[d]))'
  <2>1. routes' = routes
    OBVIOUS
  <2> QED
    BY <1>2, <1>4, <2>1
<1>6. (routes = {} => NoCircle(Imported))'
  <2>1. routes' = routes /\ (routes = {} => NoCircle(Imported))
    BY DEF ImportsInv
  <2>2. ASSUME routes' = {} PROVE NoCircle(Imported')
    BY <1>2, <2>1, <2>2
  <2> QED
    BY <2>2
<1> QED
  BY <1>3, <1>5, <1>6 DEF ImportsInv

\* The rows or the folders change, no import is in another state, and there is no new
\* import to follow, or a route to a circle.
LEMMA Changed ==
  ASSUME ImportsInv, ImportsTypeOK', walk' = walk,
         routes \subseteq routes',
         routes' # {} \/ \A f \in Folders : Imported'[f] \subseteq Imported[f]
  PROVE  ImportsInv'
<1>1. PICK G, H, rs, rt : G = Imported /\ H = Imported' /\ rs = routes /\ rt = routes'
  OBVIOUS
<1>2. rs \subseteq rt /\ (rt # {} \/ \A f \in Folders : H[f] \subseteq G[f])
  BY <1>1
<1>3. \A c \in Creators : walk[c] \in Walk /\ WalkHolds(G, rs, walk[c])
  BY <1>1, InvGives
<1>4. rs = {} => NoCircle(G)
  BY <1>1 DEF ImportsInv
<1>5. (\A c \in Creators : WalkHolds(H, rt, walk[c])) /\ (rt = {} => NoCircle(H))
  <2>1. CASE rt # {}
    BY <1>3, <2>1, RouteFrees
  <2>2. CASE \A f \in Folders : H[f] \subseteq G[f]
    <3>1. NoCircle(G) => NoCircle(H)
      BY <2>2, FewerKeep
    <3>2. \A w \in Walk : WalkHolds(G, rs, w) => WalkHolds(H, rt, w)
      BY <1>2, <2>2, FewerKeep
    <3> QED
      BY <1>2, <1>3, <1>4, <3>1, <3>2
  <2> QED
    BY <1>2, <2>1, <2>2
<1>6. \A c \in Creators : WalkHolds(Imported', routes', walk'[c])
  BY <1>1, <1>5
<1>7. routes' = {} => NoCircle(Imported')
  BY <1>1, <1>5
<1> QED
  BY <1>6, <1>7 DEF ImportsInv

\* A walk is made of no walk.
LEMMA WalkMade ==
  ASSUME NEW t, NEW s
  PROVE  /\ \A f : [NoWalk EXCEPT !.pc = "walk", !.target = t, !.source = s, !.frontier = f]
                 = [pc |-> "walk", target |-> t, source |-> s, frontier |-> f, next |-> <<>>,
                    seen |-> {}, depth |-> 0, raced |-> FALSE]
         /\ \A raced : [NoWalk EXCEPT !.pc = "insert", !.target = t, !.source = s, !.raced = raced]
                 = [pc |-> "insert", target |-> t, source |-> s, frontier |-> <<>>, next |-> <<>>,
                    seen |-> {}, depth |-> 0, raced |-> raced]
<1>1. PICK w \in Walk : w = NoWalk
  BY NoWalkHolds
<1>2. /\ w.frontier = <<>> /\ w.next = <<>> /\ w.seen = {} /\ w.depth = 0 /\ w.raced = FALSE
  BY <1>1 DEF NoWalk
<1>3. ASSUME NEW f, NEW pc, NEW v,
             v = [w EXCEPT !.pc = pc, !.target = t, !.source = s, !.frontier = f]
      PROVE  v = [pc |-> pc, target |-> t, source |-> s, frontier |-> f, next |-> w.next,
                  seen |-> w.seen, depth |-> w.depth, raced |-> w.raced]
  BY <1>3 DEF Walk
<1>4. ASSUME NEW r, NEW pc, NEW v, v = [w EXCEPT !.pc = pc, !.target = t, !.source = s, !.raced = r]
      PROVE  v = [pc |-> pc, target |-> t, source |-> s, frontier |-> w.frontier, next |-> w.next,
                  seen |-> w.seen, depth |-> w.depth, raced |-> r]
  BY <1>4 DEF Walk
<1>5. ASSUME NEW f
      PROVE  [NoWalk EXCEPT !.pc = "walk", !.target = t, !.source = s, !.frontier = f]
               = [pc |-> "walk", target |-> t, source |-> s, frontier |-> f, next |-> <<>>,
                  seen |-> {}, depth |-> 0, raced |-> FALSE]
  <2>1. PICK pc, v : pc = "walk"
        /\ v = [NoWalk EXCEPT !.pc = "walk", !.target = t, !.source = s, !.frontier = f]
    OBVIOUS
  <2>2. v = [w EXCEPT !.pc = pc, !.target = t, !.source = s, !.frontier = f]
    BY <1>1, <2>1
  <2>3. v = [pc |-> pc, target |-> t, source |-> s, frontier |-> f, next |-> w.next,
             seen |-> w.seen, depth |-> w.depth, raced |-> w.raced]
    BY <1>3, <2>2
  <2> QED
    BY <1>2, <2>1, <2>3, Zenon
<1>6. ASSUME NEW r
      PROVE  [NoWalk EXCEPT !.pc = "insert", !.target = t, !.source = s, !.raced = r]
               = [pc |-> "insert", target |-> t, source |-> s, frontier |-> <<>>, next |-> <<>>,
                  seen |-> {}, depth |-> 0, raced |-> r]
  <2>1. PICK pc, v : pc = "insert"
        /\ v = [NoWalk EXCEPT !.pc = "insert", !.target = t, !.source = s, !.raced = r]
    OBVIOUS
  <2>2. v = [w EXCEPT !.pc = pc, !.target = t, !.source = s, !.raced = r]
    BY <1>1, <2>1
  <2>3. v = [pc |-> pc, target |-> t, source |-> s, frontier |-> w.frontier, next |-> w.next,
             seen |-> w.seen, depth |-> w.depth, raced |-> r]
    BY <1>4, <2>2
  <2> QED
    BY <1>2, <2>1, <2>3, Zenon
<1> QED
  BY <1>5, <1>6

\* Beginning a creation keeps the invariant: no walk ran before, so nothing is seen yet.
LEMMA BeginStep ==
  ASSUME ImportsInv, NEW c \in Creators, NEW t \in Folders, NEW s \in Folders, Begin(c, t, s)
  PROVE  ImportsInv'
<1>1. PICK raced \in BOOLEAN : raced = FALSE
  OBVIOUS
<1>2. PICK w : w = Created("walk", t, s, <<s>>, raced)
  OBVIOUS
<1>3. t # s /\ walk' = [walk EXCEPT ![c] = w] /\ UNCHANGED <<live, edges, routes>>
  <2>1. w = [pc |-> "walk", target |-> t, source |-> s, frontier |-> <<s>>, next |-> <<>>,
             seen |-> {}, depth |-> 0, raced |-> FALSE]
    BY <1>1, <1>2 DEF Created
  <2>2. w = [NoWalk EXCEPT !.pc = "walk", !.target = t, !.source = s, !.frontier = <<s>>]
    BY <2>1, WalkMade
  <2> QED
    BY <2>2 DEF Begin
<1>4. w \in Walk /\ WalkHolds(Imported, routes, w)
  BY <1>2, <1>3, BegunHolds
<1> QED
  BY <1>3, <1>4, OneWalk

\* So does giving one up.
LEMMA AbortStep ==
  ASSUME ImportsInv, NEW c \in Creators, walk' = [walk EXCEPT ![c] = NoWalk],
         UNCHANGED <<live, edges, routes>>
  PROVE  ImportsInv'
<1>1. PICK w : w = NoWalk
  OBVIOUS
<1>2. w \in Walk /\ WalkHolds(Imported, routes, w)
  BY <1>1, NoWalkHolds
<1> QED
  BY <1>1, <1>2, OneWalk

\* So does one folder of the walk.
LEMMA WalkStepKeeps ==
  ASSUME ImportsInv, NEW c \in Creators, WalkStep(c)
  PROVE  ImportsInv'
<1>1. PICK w, v : w = walk[c] /\ v = Visited(w)
  OBVIOUS
<1>2. w \in Walk /\ WalkHolds(Imported, routes, w) /\ w.pc = "walk" /\ Rowed
  BY <1>1, InvGives DEF WalkStep
<1>3. UNCHANGED <<live, edges, routes>>
  BY DEF WalkStep
<1>4. CASE walk' = [walk EXCEPT ![c] = NoWalk]
  BY <1>3, <1>4, AbortStep
<1>5. CASE w.target \notin Sources(Head(w.frontier)) /\ walk' # [walk EXCEPT ![c] = NoWalk]
  <2>1. PICK rs : rs = routes
    OBVIOUS
  <2>2. /\ v \in Walk /\ v.pc = "walk"
        /\ v.frontier # <<>> => WalkHolds(Imported, rs, v)
        /\ v.frontier = <<>> /\ rs = {} /\ ~v.raced =>
             \E C \in SUBSET Folders : Closed(Imported, C) /\ v.source \in C /\ v.target \notin C
        /\ v.frontier # <<>> => Cardinality(v.seen) >= v.depth
    BY <1>1, <1>2, <1>5, <2>1, WalkOn
  <2>3. CASE ~WalkOver(v)
    <3>1. v.frontier # <<>> /\ walk' = [walk EXCEPT ![c] = v]
      BY <1>1, <1>5, <2>3 DEF WalkStep, WalkOver
    <3>2. WalkHolds(Imported, routes, v)
      BY <2>1, <2>2, <3>1
    <3> QED
      BY <1>3, <2>2, <3>1, <3>2, OneWalk
  <2>4. CASE WalkOver(v)
    <3>1. /\ ~(1 + Cardinality(v.seen) > MaxDepth)
          /\ walk' = [walk EXCEPT ![c] = [NoWalk EXCEPT !.pc = "insert", !.target = v.target,
                                          !.source = v.source, !.raced = v.raced]]
      BY <1>1, <1>5, <2>4 DEF WalkStep, TooDeep
    <3>2. v.frontier = <<>>
      <4>1. Cardinality(v.seen) \in Nat /\ v.depth \in Nat
        <5>1. v.seen \in SUBSET Folders /\ v.depth \in Nat
          BY <2>2 DEF Walk
        <5> QED
          BY <5>1, SeenGrows
      <4>2. MaxDepth \in Nat
        BY DepthAssumption
      <4>3. v.frontier # <<>> => v.depth > MaxDepth /\ Cardinality(v.seen) >= v.depth
        BY <2>2, <2>4 DEF WalkOver
      <4> QED
        BY <3>1, <4>1, <4>2, <4>3
    <3>3. /\ v.raced \in BOOLEAN /\ v.target \in Folders /\ v.source \in Folders
          /\ v.target # v.source
      <4>1. w.target \in Folders /\ w.source \in Folders /\ w.target # w.source /\ w.frontier # <<>>
        BY <1>2 DEF WalkHolds
      <4>2. IsVisited(w, v, Head(w.frontier), Listed(Head(w.frontier), w.seen))
        BY <1>1, <1>2, <4>1, VisitedIs
      <4> QED
        BY <2>2, <4>1, <4>2 DEF IsVisited, Walk
    <3>4. PICK t \in Folders, s \in Folders, raced \in BOOLEAN : t = v.target /\ s = v.source
          /\ raced = v.raced
      BY <3>3
    <3>5. PICK u : u = Created("insert", t, s, <<>>, raced)
      OBVIOUS
    <3>6. walk' = [walk EXCEPT ![c] = u]
      <4>1. u = [pc |-> "insert", target |-> t, source |-> s, frontier |-> <<>>, next |-> <<>>,
                 seen |-> {}, depth |-> 0, raced |-> raced]
        BY <3>5 DEF Created
      <4>2. u = [NoWalk EXCEPT !.pc = "insert", !.target = t, !.source = s, !.raced = raced]
        BY <4>1, WalkMade
      <4> QED
        BY <3>1, <3>4, <4>2
    <3>7. t # s /\ (rs = {} /\ ~raced =>
            \E C \in SUBSET Folders : Closed(Imported, C) /\ s \in C /\ t \notin C)
      BY <2>2, <3>2, <3>3, <3>4
    <3>8. u \in Walk /\ WalkHolds(Imported, rs, u)
      BY <3>5, <3>7, CheckedHolds
    <3> QED
      BY <1>3, <2>1, <3>6, <3>8, OneWalk
  <2> QED
    BY <2>3, <2>4
<1> QED
  BY <1>1, <1>4, <1>5 DEF WalkStep

\* The edges an action leaves are rows, each once, and what they lead to was there.
LEMMA FewerRows ==
  ASSUME ImportsInv, live' \subseteq live, edges' \in Seq(Edge), Len(edges') <= MaxEdges,
         walk' = walk,
         routes \subseteq routes', routes' \subseteq {"race", "enable"},
         NEW was, \A i \in DOMAIN edges' : was[i] \in DOMAIN edges,
         \A i, j \in DOMAIN edges' : was[i] = was[j] => i = j,
         \A i \in DOMAIN edges' :
           /\ edges'[i].folder = edges[was[i]].folder /\ edges'[i].source = edges[was[i]].source
           /\ edges'[i].enabled => edges[was[i]].enabled \/ routes' # {}
  PROVE  ImportsInv'
<1>1. ImportsTypeOK'
  <2>1. \A i, j \in DOMAIN edges :
          i # j => edges[i].folder # edges[j].folder \/ edges[i].source # edges[j].source
    BY DEF ImportsInv, ImportsTypeOK
  <2>2. live' \subseteq Folders /\ walk' \in [Creators -> Walk]
    BY InvGives
  <2>3. \A i, j \in DOMAIN edges' :
          i # j => edges'[i].folder # edges'[j].folder \/ edges'[i].source # edges'[j].source
    BY <2>1
  <2> QED
    BY <2>2, <2>3 DEF ImportsTypeOK
<1>2. ASSUME routes' = {}, NEW f \in Folders
      PROVE  Imported'[f] \subseteq Imported[f]
  <2>1. SUFFICES ASSUME NEW g \in Sources(f)' PROVE g \in Sources(f)
    BY DEF Imported
  <2>2. PICK i \in DOMAIN edges' : /\ edges'[i].folder = f /\ edges'[i].enabled
                                   /\ edges'[i].source \in live' /\ edges'[i].source = g
    BY DEF Sources, ImportsOf, Followed
  <2>3. PICK j \in DOMAIN edges : j = was[i]
    BY <2>2
  <2>4. edges[j].folder = f /\ edges[j].source = g /\ edges[j].enabled /\ g \in live
    BY <1>2, <2>2, <2>3
  <2> QED
    BY <2>4 DEF Sources, ImportsOf, Followed
<1> QED
  BY <1>1, <1>2, Changed

\* Deleting a folder keeps the invariant: its rows stay, and count for less.
LEMMA DeleteFolderStep ==
  ASSUME ImportsInv, NEW f \in Folders, DeleteFolder(f)
  PROVE  ImportsInv'
<1>1. /\ edges' = edges /\ walk' = walk /\ routes' = routes /\ live' \subseteq live
      /\ edges \in Seq(Edge) /\ Len(edges) <= MaxEdges /\ routes \subseteq {"race", "enable"}
  BY InvGives DEF DeleteFolder, Rowed
<1>2. PICK was : was = [i \in DOMAIN edges |-> i]
  OBVIOUS
<1> QED
  BY <1>1, <1>2, FewerRows

\* Switching or moving an import keeps it: one that was off and is on again is a route.
LEMMA SetImportStep ==
  ASSUME ImportsInv, NEW k \in DOMAIN edges, NEW b \in BOOLEAN, NEW p \in Positions,
         SetImportEnabled(k, b, p)
  PROVE  ImportsInv'
<1>1. /\ walk' = walk /\ live' = live /\ edges \in Seq(Edge) /\ Len(edges) <= MaxEdges
      /\ routes \subseteq {"race", "enable"}
  BY InvGives DEF SetImportEnabled, Rowed
<1>2. /\ routes \subseteq routes' /\ routes' \subseteq {"race", "enable"}
      /\ b /\ ~edges[k].enabled => routes' # {}
  BY <1>1 DEF SetImportEnabled
<1>3. edges' = [edges EXCEPT ![k] = [edges[k] EXCEPT !.enabled = b, !.position = p]]
  BY <1>1, RowIs DEF SetImportEnabled
<1>4. /\ [edges[k] EXCEPT !.enabled = b, !.position = p] \in Edge
      /\ [edges[k] EXCEPT !.enabled = b, !.position = p].folder = edges[k].folder
      /\ [edges[k] EXCEPT !.enabled = b, !.position = p].source = edges[k].source
      /\ [edges[k] EXCEPT !.enabled = b, !.position = p].enabled = b
  <2>1. PICK x \in Edge : x = edges[k]
    BY <1>1, RowIs
  <2>2. p \in Nat
    BY DepthAssumption
  <2>3. /\ [x EXCEPT !.enabled = b, !.position = p] \in Edge
        /\ [x EXCEPT !.enabled = b, !.position = p].folder = x.folder
        /\ [x EXCEPT !.enabled = b, !.position = p].source = x.source
        /\ [x EXCEPT !.enabled = b, !.position = p].enabled = b
    BY <2>2 DEF Edge
  <2> QED
    BY <2>1, <2>3
<1>5. PICK y \in Edge : y = [edges[k] EXCEPT !.enabled = b, !.position = p]
  BY <1>4
<1>6. /\ edges' \in Seq(Edge) /\ Len(edges') <= MaxEdges /\ DOMAIN edges' = DOMAIN edges
      /\ \A i \in DOMAIN edges : edges'[i] = IF i = k THEN y ELSE edges[i]
  BY <1>1, <1>3, <1>5
<1>7. PICK was : was = [i \in DOMAIN edges |-> i]
  OBVIOUS
<1>8. \A i \in DOMAIN edges' :
           /\ edges'[i].folder = edges[was[i]].folder /\ edges'[i].source = edges[was[i]].source
           /\ edges'[i].enabled => edges[was[i]].enabled \/ routes' # {}
  BY <1>2, <1>4, <1>5, <1>6, <1>7
<1>9. /\ \A i \in DOMAIN edges' : was[i] \in DOMAIN edges
      /\ \A i, j \in DOMAIN edges' : was[i] = was[j] => i = j
  BY <1>6, <1>7
<1> QED
  BY <1>1, <1>2, <1>6, <1>8, <1>9, FewerRows

\* Deleting an import keeps it: the rows behind it move up.
LEMMA DeleteImportStep ==
  ASSUME ImportsInv, NEW k \in DOMAIN edges, DeleteImport(k)
  PROVE  ImportsInv'
<1>1. /\ walk' = walk /\ live' = live /\ routes' = routes /\ edges \in Seq(Edge)
         /\ Len(edges) <= MaxEdges
      /\ routes \subseteq {"race", "enable"}
      /\ edges' = SubSeq(edges, 1, k - 1) \o SubSeq(edges, k + 1, Len(edges))
  BY InvGives DEF DeleteImport, Rowed, RemoveAt
<1>2. PICK n \in Nat : n = Len(edges) /\ k \in 1..n /\ DOMAIN edges = 1..n
  BY <1>1, RowIs
<1>3. PICK low, high : low = SubSeq(edges, 1, k - 1) /\ high = SubSeq(edges, k + 1, n)
  OBVIOUS
<1>4. /\ low \in Seq(Edge) /\ Len(low) = k - 1 /\ \A i \in 1..(k - 1) : low[i] = edges[i]
  <2>1. 1 \in Int /\ k - 1 \in Int /\ \A i \in 1..(k - 1) : edges[i] \in Edge
    BY <1>1, <1>2
  <2>2. /\ low \in Seq(Edge) /\ Len(low) = IF 1 <= k - 1 THEN k - 1 - 1 + 1 ELSE 0
        /\ \A i \in 1..(k - 1 - 1 + 1) : low[i] = edges[1 + i - 1]
    BY <1>3, <2>1, SubSeqProperties
  <2> QED
    BY <1>2, <2>2
<1>5. /\ high \in Seq(Edge) /\ Len(high) = n - k /\ \A i \in 1..(n - k) : high[i] = edges[i + k]
  <2>1. k + 1 \in Int /\ n \in Int /\ \A i \in (k + 1)..n : edges[i] \in Edge
    BY <1>1, <1>2
  <2>2. /\ high \in Seq(Edge) /\ Len(high) = IF k + 1 <= n THEN n - (k + 1) + 1 ELSE 0
        /\ \A i \in 1..(n - (k + 1) + 1) : high[i] = edges[k + 1 + i - 1]
    BY <1>3, <2>1, SubSeqProperties
  <2> QED
    <3>1. n - (k + 1) + 1 = n - k /\ \A i \in 1..(n - k) : k + 1 + i - 1 = i + k
      BY <1>2
    <3>2. Len(high) = n - k
      BY <1>2, <2>2
    <3>3. ASSUME NEW i \in 1..(n - k) PROVE high[i] = edges[i + k]
      BY <2>2, <3>1
    <3> QED
      BY <2>2, <3>2, <3>3
<1>6. PICK was : was = [i \in 1..(n - 1) |-> IF i < k THEN i ELSE i + 1]
  OBVIOUS
<1>7. /\ edges' \in Seq(Edge) /\ Len(edges') = n - 1 /\ DOMAIN edges' = 1..(n - 1)
      /\ \A i \in 1..(n - 1) : edges'[i] = edges[was[i]] /\ was[i] \in 1..n
  <2>1. edges' = low \o high
    BY <1>1, <1>2, <1>3
  <2>2. edges' \in Seq(Edge) /\ Len(edges') = n - 1
        /\ \A i \in 1..(n - 1) : edges'[i] = IF i <= k - 1 THEN low[i] ELSE high[i - (k - 1)]
    <3>1. PICK both : both = low \o high
      OBVIOUS
    <3>2. /\ both \in Seq(Edge) /\ Len(both) = Len(low) + Len(high)
          /\ \A i \in 1..(Len(low) + Len(high)) : both[i] = IF i <= Len(low) THEN low[i] ELSE high[i - Len(low)]
      BY <1>4, <1>5, <3>1, ConcatProperties
    <3>3. Len(low) + Len(high) = n - 1
      <4>1. k \in Int /\ n \in Int /\ (k - 1) + (n - k) = n - 1
        BY <1>2
      <4>2. Len(low) = k - 1 /\ Len(high) = n - k
        BY <1>4, <1>5
      <4> QED
        BY <4>1, <4>2
    <3> QED
      BY <1>4, <2>1, <3>1, <3>2, <3>3
  <2>3. ASSUME NEW i \in 1..(n - 1), i < k
        PROVE  edges'[i] = edges[was[i]] /\ was[i] \in 1..n
    BY <1>2, <1>4, <1>6, <2>2, <2>3
  <2>4. ASSUME NEW i \in 1..(n - 1), ~(i < k)
        PROVE  edges'[i] = edges[was[i]] /\ was[i] \in 1..n
    <3>1. i - (k - 1) \in 1..(n - k) /\ i - (k - 1) + k = i + 1 /\ i + 1 \in 1..n /\ ~(i <= k - 1)
      BY <1>2, <2>4
    <3> QED
      BY <1>5, <1>6, <2>2, <2>4, <3>1
  <2> QED
    BY <2>2, <2>3, <2>4
<1>8. \A i, j \in 1..(n - 1) : was[i] = was[j] => i = j
  BY <1>2, <1>6
<1>9. Len(edges') <= MaxEdges
  BY <1>1, <1>2, <1>7, EdgeAssumption
<1>10. /\ \A i \in DOMAIN edges' : was[i] \in DOMAIN edges
       /\ \A i, j \in DOMAIN edges' : was[i] = was[j] => i = j
       /\ \A i \in DOMAIN edges' :
           /\ edges'[i].folder = edges[was[i]].folder /\ edges'[i].source = edges[was[i]].source
           /\ edges'[i].enabled => edges[was[i]].enabled \/ routes' # {}
  BY <1>2, <1>7, <1>8
<1> QED
  BY <1>1, <1>7, <1>9, <1>10, FewerRows

\* Inserting an import keeps it: the walk that came first closed the source's folders off from the
\* target, unless a creation raced it.
LEMMA InsertStep ==
  ASSUME ImportsInv, NEW c \in Creators, NEW p \in Positions, Insert(c, p)
  PROVE  ImportsInv'
<1>1. PICK w : w = walk[c]
  OBVIOUS
<1>2. PICK G, H, rs, rt : G = Imported /\ H = Imported' /\ rs = routes /\ rt = routes'
  OBVIOUS
<1>3. /\ w \in Walk /\ WalkHolds(G, rs, w) /\ w.pc = "insert" /\ Rowed /\ live' = live
      /\ live \subseteq Folders /\ routes \subseteq {"race", "enable"}
  BY <1>1, <1>2, InvGives DEF Insert
<1>4. PICK t \in Folders, s \in Folders : t = w.target /\ s = w.source /\ t # s
  BY <1>3 DEF WalkHolds
<1>5. CASE walk' = [walk EXCEPT ![c] = NoWalk] /\ UNCHANGED <<edges, routes>>
  BY <1>3, <1>5, AbortStep
<1>6. CASE ~(walk' = [walk EXCEPT ![c] = NoWalk] /\ UNCHANGED <<edges, routes>>)
  <2>1. PICK e : e = [folder |-> t, source |-> s, position |-> p, enabled |-> TRUE]
    OBVIOUS
  <2>2. /\ \A i \in DOMAIN edges : ~(edges[i].folder = t /\ edges[i].source = s)
        /\ Len(edges) < MaxEdges /\ edges' = Append(edges, e)
        /\ walk' = [d \in Creators |->
                      IF d = c \/ walk[d].pc \notin {"walk", "insert"}
                      THEN IF d = c THEN NoWalk ELSE walk[d]
                      ELSE [walk[d] EXCEPT !.raced = TRUE]]
        /\ routes' = IF w.raced THEN routes \cup {"race"} ELSE routes
    BY <1>1, <1>4, <1>6, <2>1 DEF Insert
  <2>3. e \in Edge /\ e.folder = t /\ e.source = s
    <3>1. p \in Nat
      BY DepthAssumption
    <3> QED
      BY <2>1, <3>1 DEF Edge
  <2>4. PICK n \in Nat : n = Len(edges) /\ DOMAIN edges = 1..n
    BY <1>3 DEF Rowed
  <2>5. /\ edges' \in Seq(Edge) /\ Len(edges') = n + 1 /\ DOMAIN edges' = 1..(n + 1)
        /\ \A i \in 1..n : edges'[i] = edges[i]
        /\ edges'[n + 1] = e
    BY <1>3, <2>2, <2>3, <2>4 DEF Rowed
  <2>6. rs \subseteq rt /\ rt \subseteq {"race", "enable"} /\ (w.raced => rt # {})
    BY <1>2, <1>3, <2>2
  <2>7. \A d \in Creators : walk'[d] \in Walk /\ WalkHolds(H, rt, walk'[d])
    <3> TAKE d \in Creators
    <3>1. PICK v : v = walk'[d]
      OBVIOUS
    <3>2. walk[d] \in Walk /\ WalkHolds(G, rs, walk[d])
      BY <1>2, InvGives
    <3>3. CASE d = c
      BY <2>2, <3>1, <3>3, NoWalkHolds
    <3>4. CASE d # c /\ walk[d].pc \notin {"walk", "insert"}
      <4>1. v = walk[d] /\ v.pc = "idle"
        BY <2>2, <3>1, <3>2, <3>4 DEF Walk
      <4> QED
        BY <3>1, <3>2, <4>1 DEF WalkHolds
    <3>5. CASE d # c /\ walk[d].pc \in {"walk", "insert"}
      <4>1. v = [walk[d] EXCEPT !.raced = TRUE]
        BY <2>2, <3>1, <3>5
      <4> QED
        BY <3>1, <3>2, <4>1, RacedHolds
    <3> QED
      BY <3>3, <3>4, <3>5
  <2>8. ImportsTypeOK'
    <3>1. walk' \in [Creators -> Walk]
      BY <2>2, <2>7
    <3>2. \A i, j \in DOMAIN edges' :
            i # j => edges'[i].folder # edges'[j].folder \/ edges'[i].source # edges'[j].source
      <4>1. \A i \in DOMAIN edges' : i \in 1..n \/ i = n + 1
        BY <2>5
      <4>2. \A i, j \in 1..n :
              i # j => edges[i].folder # edges[j].folder \/ edges[i].source # edges[j].source
        BY <1>3, <2>4 DEF Rowed
      <4>3. \A i \in 1..n : ~(edges[i].folder = t /\ edges[i].source = s)
        BY <2>2, <2>4
      <4> QED
        BY <2>3, <2>5, <4>1, <4>2, <4>3
    <3>3. Len(edges') <= MaxEdges
      BY <2>2, <2>4, <2>5, EdgeAssumption
    <3>4. edges' \in Seq(Edge)
      BY <2>5
    <3>5. live' \subseteq Folders /\ routes' \subseteq {"race", "enable"}
      BY <1>2, <1>3, <2>6
    <3> QED
      BY <3>1, <3>2, <3>3, <3>4, <3>5 DEF ImportsTypeOK
  <2>9. rt = {} => NoCircle(H)
    <3> SUFFICES ASSUME rt = {} PROVE NoCircle(H)
      OBVIOUS
    <3>1. rs = {} /\ ~w.raced
      BY <2>6
    <3>2. NoCircle(G)
      BY <1>2, <3>1 DEF ImportsInv
    <3>3. PICK D \in SUBSET Folders : Closed(G, D) /\ s \in D /\ t \notin D
      BY <1>3, <1>4, <3>1 DEF WalkHolds
    <3>4. ASSUME NEW f \in Folders
          PROVE  H[f] \subseteq G[f] \cup (IF f = t THEN {s} ELSE {})
      <4>1. SUFFICES ASSUME NEW g \in Sources(f)', ~(f = t /\ g = s)
                     PROVE  g \in Sources(f)
        BY <1>2 DEF Imported
      <4>2. PICK i \in DOMAIN edges' : /\ edges'[i].folder = f /\ edges'[i].enabled
                                       /\ edges'[i].source \in live' /\ edges'[i].source = g
        BY DEF Sources, ImportsOf, Followed
      <4>3. i \in 1..n
        <5>1. i = n + 1 => FALSE
          BY <2>3, <2>5, <4>1, <4>2
        <5> QED
          BY <2>5, <5>1
      <4>4. i \in DOMAIN edges /\ edges'[i] = edges[i]
        BY <2>4, <2>5, <4>3
      <4> QED
        BY <1>3, <4>2, <4>4 DEF Sources, ImportsOf, Followed
    <3> QED
      BY <1>4, <3>2, <3>3, <3>4, OneMore
  <2>10. (\A d \in Creators : WalkHolds(Imported', routes', walk'[d]))
         /\ (routes' = {} => NoCircle(Imported'))
    BY <1>2, <2>7, <2>9
  <2> QED
    BY <2>8, <2>10 DEF ImportsInv
<1> QED
  BY <1>5, <1>6

\* Every step of the imports keeps the invariant.
LEMMA ImportsStep == ImportsInv /\ [ImportsNext]_importVars => ImportsInv'
<1> SUFFICES ASSUME ImportsInv, [ImportsNext]_importVars PROVE ImportsInv'
  OBVIOUS
<1>1. ASSUME NEW c \in Creators, Create(c) PROVE ImportsInv'
  <2>1. ASSUME NEW t \in Folders, NEW s \in Folders, Begin(c, t, s) PROVE ImportsInv'
    BY <2>1, BeginStep
  <2>2. ASSUME WalkStep(c) PROVE ImportsInv'
    BY <2>2, WalkStepKeeps
  <2>3. ASSUME NEW p \in Positions, Insert(c, p) PROVE ImportsInv'
    BY <2>3, InsertStep
  <2>4. ASSUME Abort(c) PROVE ImportsInv'
    BY <2>4, AbortStep DEF Abort
  <2> QED
    BY <1>1, <2>1, <2>2, <2>3, <2>4 DEF Create
<1>2. ASSUME ChangeGraph PROVE ImportsInv'
  BY <1>2, SetImportStep, DeleteImportStep, DeleteFolderStep DEF ChangeGraph
<1>3. ASSUME UNCHANGED importVars PROVE ImportsInv'
  <2>1. live' = live /\ edges' = edges /\ walk' = walk /\ routes' = routes
    BY <1>3 DEF importVars
  <2>2. Imported' = Imported /\ ImportsTypeOK'
    BY <2>1 DEF Imported, Sources, ImportsOf, Followed, ImportsInv, ImportsTypeOK
  <2>3. \A f \in Folders : Imported'[f] \subseteq Imported[f]
    BY <2>2
  <2> QED
    BY <2>1, <2>2, <2>3, Changed
<1> QED
  BY <1>1, <1>2, <1>3 DEF ImportsNext

\* Nothing is imported at first.
LEMMA ImportsInitHolds == ImportsInit => ImportsInv
<1> SUFFICES ASSUME ImportsInit PROVE ImportsInv
  OBVIOUS
<1>1. live = Folders /\ edges = <<>> /\ routes = {} /\ walk = [c \in Creators |-> NoWalk]
  BY DEF ImportsInit
<1>2. \A c \in Creators : walk[c] \in Walk /\ WalkHolds(Imported, routes, walk[c])
  BY <1>1, NoWalkHolds
<1>3. edges \in Seq(Edge) /\ Len(edges) = 0 /\ DOMAIN edges = {}
  BY <1>1
<1>4. ImportsTypeOK
  BY <1>1, <1>2, <1>3, EdgeAssumption DEF ImportsTypeOK
<1>5. \A f \in Folders : Imported[f] = {}
  BY <1>3 DEF Imported, Sources, ImportsOf
<1>6. NoCircle(Imported)
  <2> SUFFICES ASSUME NEW f \in Folders PROVE NoWayBack(Imported, f)
    BY DEF NoCircle
  <2>1. {} \in SUBSET Folders /\ Closed(Imported, {}) /\ Imported[f] \subseteq {} /\ f \notin {}
    BY <1>5 DEF Closed
  <2> QED
    BY <2>1 DEF NoWayBack
<1> QED
  BY <1>2, <1>4, <1>6 DEF ImportsInv

\* A folder that a closed set keeps away from its sources is on no circle.
LEMMA ImportsInvMeans == ImportsInv => CyclesNeedARoute
<1> SUFFICES ASSUME ImportsInv, routes = {}, NEW f \in live, NEW g \in Sources(f)
             PROVE  f \notin Within(g, Cardinality(Folders))
  BY DEF CyclesNeedARoute, Acyclic
<1>1. f \in Folders
  BY InvGives
<1>2. NoCircle(Imported)
  BY DEF ImportsInv
<1>3. PICK C \in SUBSET Folders : Closed(Imported, C) /\ Imported[f] \subseteq C /\ f \notin C
  BY <1>1, <1>2 DEF NoCircle, NoWayBack
<1>4. g \in C /\ \A h \in C : Sources(h) \subseteq C
  BY <1>1, <1>3 DEF Closed, Imported
<1>5. PICK n \in Nat : n = Cardinality(Folders)
  BY FolderAssumption, FS_CardinalityType
<1>6. Within(g, n) \subseteq C
  BY <1>4, ClosedKeeps
<1> QED
  BY <1>3, <1>5, <1>6

\* The inductive invariant of the imports.
THEOREM ImportsInvariance == ImportsSpec => []ImportsInv
BY ImportsInitHolds, ImportsStep, PTL DEF ImportsSpec

\* Every variable of the imports has its type, and an edge is there once.
THEOREM ImportsTypeCorrect == ImportsSpec => []ImportsTypeOK
<1>1. ImportsInv => ImportsTypeOK
  BY DEF ImportsInv
<1> QED
  BY <1>1, ImportsInvariance, PTL

\* Whatever is created, deleted, reordered and switched off at the same time, and however
\* long the chains are, a chain of imports comes back to where it started only once an
\* import was switched on again or two imports were checked at the same time.
THEOREM NoOtherCircle == ImportsSpec => []CyclesNeedARoute
BY ImportsInvMeans, ImportsInvariance, PTL

-----------------------------------------------------------------------------
(* Reveals.                                                                *)

\* A reveal is a record of these fields, and IsRead says that it is one.
Fields == {"pc", "start", "walk", "out", "found", "todo", "got", "audited", "steady"}

IsRead(o) == o = [x \in Fields |-> o[x]]

\* What was decrypted was granted, and is in the log by the time it is returned; the secret
\* that the reveal landed on is the last to be logged.
GrantOk(o, g) ==
  /\ IsRead(o)
  /\ o.got \subseteq g
  /\ o.pc \in {"expand", "audit"} => o.got \subseteq o.audited \cup {o.found}
  /\ o.pc = "returned" => o.got \subseteq o.audited

\* The same of every reveal.
GrantInv == read = [r \in Readers |-> read[r]] /\ \A r \in Readers : GrantOk(read[r], grant[r])

\* A reveal with one field replaced.
PutPc(o, v) == [o EXCEPT !.pc = v]
PutWalk(o, v) == [o EXCEPT !.walk = v]
PutOut(o, v) == [o EXCEPT !.out = v]
PutFound(o, v) == [o EXCEPT !.found = v]
PutTodo(o, v) == [o EXCEPT !.todo = v]
PutGot(o, v) == [o EXCEPT !.got = v]
PutAudited(o, v) == [o EXCEPT !.audited = v]
PutSteady(o, v) == [o EXCEPT !.steady = v]

\* What replacing one field of a reveal leaves alone.
LEMMA PcIs ==
  ASSUME NEW o, IsRead(o), NEW v
  PROVE  /\ IsRead(PutPc(o, v))
         /\ PutPc(o, v).pc = v
         /\ PutPc(o, v).got = o.got
         /\ PutPc(o, v).audited = o.audited
         /\ PutPc(o, v).found = o.found
BY DEF IsRead, Fields, PutPc

\* The same for walk.
LEMMA WalkIs ==
  ASSUME NEW o, IsRead(o), NEW v
  PROVE  /\ IsRead(PutWalk(o, v))
         /\ PutWalk(o, v).pc = o.pc
         /\ PutWalk(o, v).got = o.got
         /\ PutWalk(o, v).audited = o.audited
         /\ PutWalk(o, v).found = o.found
BY DEF IsRead, Fields, PutWalk

\* The same for out.
LEMMA OutIs ==
  ASSUME NEW o, IsRead(o), NEW v
  PROVE  /\ IsRead(PutOut(o, v))
         /\ PutOut(o, v).pc = o.pc
         /\ PutOut(o, v).got = o.got
         /\ PutOut(o, v).audited = o.audited
         /\ PutOut(o, v).found = o.found
BY DEF IsRead, Fields, PutOut

\* The same for found.
LEMMA FoundIs ==
  ASSUME NEW o, IsRead(o), NEW v
  PROVE  /\ IsRead(PutFound(o, v))
         /\ PutFound(o, v).pc = o.pc
         /\ PutFound(o, v).got = o.got
         /\ PutFound(o, v).audited = o.audited
         /\ PutFound(o, v).found = v
BY DEF IsRead, Fields, PutFound

\* The same for todo.
LEMMA TodoIs ==
  ASSUME NEW o, IsRead(o), NEW v
  PROVE  /\ IsRead(PutTodo(o, v))
         /\ PutTodo(o, v).pc = o.pc
         /\ PutTodo(o, v).got = o.got
         /\ PutTodo(o, v).audited = o.audited
         /\ PutTodo(o, v).found = o.found
BY DEF IsRead, Fields, PutTodo

\* The same for got.
LEMMA GotIs ==
  ASSUME NEW o, IsRead(o), NEW v
  PROVE  /\ IsRead(PutGot(o, v))
         /\ PutGot(o, v).pc = o.pc
         /\ PutGot(o, v).got = v
         /\ PutGot(o, v).audited = o.audited
         /\ PutGot(o, v).found = o.found
BY DEF IsRead, Fields, PutGot

\* The same for audited.
LEMMA AuditedIs ==
  ASSUME NEW o, IsRead(o), NEW v
  PROVE  /\ IsRead(PutAudited(o, v))
         /\ PutAudited(o, v).pc = o.pc
         /\ PutAudited(o, v).got = o.got
         /\ PutAudited(o, v).audited = v
         /\ PutAudited(o, v).found = o.found
BY DEF IsRead, Fields, PutAudited

\* The same for steady.
LEMMA SteadyIs ==
  ASSUME NEW o, IsRead(o), NEW v
  PROVE  /\ IsRead(PutSteady(o, v))
         /\ PutSteady(o, v).pc = o.pc
         /\ PutSteady(o, v).got = o.got
         /\ PutSteady(o, v).audited = o.audited
         /\ PutSteady(o, v).found = o.found
BY DEF IsRead, Fields, PutSteady

\* A reveal that has not begun has decrypted nothing.
LEMMA Idles == IsRead(NoRead) /\ NoRead.got = {} /\ NoRead.pc = "idle"
BY DEF IsRead, Fields, NoRead

\* A step that leaves the grants alone and takes one reveal to a good state keeps them all good.
LEMMA Gone ==
  ASSUME GrantInv, NEW r \in Readers, NEW o, GrantOk(o, grant[r]), Go(r, o), grant' = grant
  PROVE  GrantInv'
BY DEF GrantInv, Go

\* A reveal begins with nothing decrypted.
LEMMA Starts ==
  ASSUME GrantInv, NEW r \in Readers, Begins(r)
  PROVE  GrantInv'
<1>1. PICK f \in Folders : StartReveal(r, f)
  BY DEF Begins
<1> DEFINE o == [NoRead EXCEPT !.start = f]
           p == [o EXCEPT !.pc = "get", !.found = f]
           q == [o EXCEPT !.pc = "chain", !.walk.frontier = <<f>>, !.walk.seen = {f}]
<1>2. grant' = grant /\ (Go(r, p) \/ Go(r, q))
  BY <1>1 DEF Begins, StartReveal
<1>3. IsRead(o) /\ o.got = {}
  BY DEF NoRead, IsRead, Fields
<1> HIDE DEF o
<1>4. IsRead(p) /\ p.got = {} /\ p.pc = "get"
  <2>1. p = PutFound(PutPc(o, "get"), f)
    BY DEF PutFound, PutPc
  <2> QED
    BY <1>3, <2>1, FoundIs, PcIs
<1>5. IsRead(q) /\ q.got = {} /\ q.pc = "chain"
  <2> DEFINE c == PutPc(o, "chain")
             d == PutWalk(c, [c.walk EXCEPT !.frontier = <<f>>])
             e == PutWalk(d, [d.walk EXCEPT !.seen = {f}])
  <2>1. q = e
    BY DEF PutWalk, PutPc
  <2>2. IsRead(c) /\ c.got = {} /\ c.pc = "chain"
    BY <1>3, PcIs
  <2> HIDE DEF c
  <2>3. IsRead(d) /\ d.got = {} /\ d.pc = "chain"
    BY <2>2, WalkIs
  <2> HIDE DEF d
  <2>4. IsRead(e) /\ e.got = {} /\ e.pc = "chain"
    BY <2>3, WalkIs
  <2> QED
    BY <2>1, <2>4
<1> HIDE DEF p, q
<1>6. GrantOk(p, grant[r]) /\ GrantOk(q, grant[r])
  BY <1>4, <1>5 DEF GrantOk
<1> QED
  BY <1>2, <1>6, Gone

\* Every step of a reveal, in the order of the code: the chain of imports, the probe of each
\* folder on it, the guarded read, each reference behind its own guard, the audit row.
LEMMA Steps ==
  ASSUME GrantInv, NEW r \in Readers, RevealStep(r)
  PROVE  GrantInv'
<1>1. PICK o : o = read[r] /\ GrantOk(o, grant[r])
  BY DEF GrantInv
<1>2. grant' = grant
  BY DEF RevealStep
<1>3. IsRead(o)
  BY <1>1 DEF GrantOk
<1>4. CASE Follow(r)
  <2>1. PICK w : \E out : \E pc \in {"missing", "probe"} :
          /\ o.pc = "chain"
          /\ \/ Go(r, PutOut(PutWalk(PutPc(o, pc), w), out))
             \/ Go(r, PutOut(PutWalk(o, w), out))
    BY <1>1, <1>4 DEF Follow, PutOut, PutWalk, PutPc
  <2>2. PICK out : \E pc \in {"missing", "probe"} :
          /\ o.pc = "chain"
          /\ \/ Go(r, PutOut(PutWalk(PutPc(o, pc), w), out))
             \/ Go(r, PutOut(PutWalk(o, w), out))
    BY <2>1
  <2>3. PICK pc \in {"missing", "probe"} :
          /\ o.pc = "chain"
          /\ \/ Go(r, PutOut(PutWalk(PutPc(o, pc), w), out))
             \/ Go(r, PutOut(PutWalk(o, w), out))
    BY <2>2
  <2>4. GrantOk(PutOut(PutWalk(PutPc(o, pc), w), out), grant[r])
    BY <1>1, <1>3, <2>3, PcIs, WalkIs, OutIs DEF GrantOk
  <2>5. GrantOk(PutOut(PutWalk(o, w), out), grant[r])
    BY <1>1, <1>3, <2>3, WalkIs, OutIs DEF GrantOk
  <2> QED
    BY <1>2, <2>3, <2>4, <2>5, Gone
<1>5. CASE Probe(r)
  <2> DEFINE p1 == PutFound(PutOut(PutPc(o, "get"), <<>>), Head(o.out))
             p2 == PutOut(PutPc(o, "missing"), <<>>)
             p3 == PutOut(o, Tail(o.out))
  <2>1. /\ o.pc = "probe" /\ (Go(r, p1) \/ Go(r, p2) \/ Go(r, p3))
    BY <1>1, <1>5 DEF Probe, PutFound, PutOut, PutPc
  <2>2. GrantOk(p1, grant[r])
    BY <1>1, <1>3, PcIs, OutIs, FoundIs DEF GrantOk
  <2>3. GrantOk(p2, grant[r])
    BY <1>1, <1>3, PcIs, OutIs DEF GrantOk
  <2>4. GrantOk(p3, grant[r])
    BY <1>1, <1>3, <2>1, OutIs DEF GrantOk
  <2> QED
    BY <1>2, <2>1, <2>2, <2>3, <2>4, Gone
<1>6. CASE Get(r)
  <2>1. PICK todo : \E pc \in {"audit", "expand"} :
          /\ Go(r, PutGot(PutTodo(PutPc(o, pc), todo), {o.found}))
          /\ o.found \in grant[r]
    BY <1>1, <1>6 DEF Get, MayRead, PutGot, PutTodo, PutPc
  <2>2. PICK pc \in {"audit", "expand"} :
          /\ Go(r, PutGot(PutTodo(PutPc(o, pc), todo), {o.found}))
          /\ o.found \in grant[r]
    BY <2>1
  <2>3. GrantOk(PutGot(PutTodo(PutPc(o, pc), todo), {o.found}), grant[r])
    BY <1>1, <1>3, <2>2, PcIs, TodoIs, GotIs DEF GrantOk
  <2> QED
    BY <1>2, <2>2, <2>3, Gone
<1>7. CASE Hop(r)
  <2>1. PICK to : \E todo : \E pc \in {"audit", "expand"} :
          /\ Go(r, PutAudited(PutGot(PutTodo(PutPc(o, pc), todo), o.got \cup {to}), o.audited \cup {to}))
          /\ to \in grant[r] /\ o.pc = "expand"
    BY <1>1, <1>7 DEF Hop, MayRead, PutAudited, PutGot, PutTodo, PutPc
  <2>2. PICK todo : \E pc \in {"audit", "expand"} :
          /\ Go(r, PutAudited(PutGot(PutTodo(PutPc(o, pc), todo), o.got \cup {to}), o.audited \cup {to}))
          /\ to \in grant[r] /\ o.pc = "expand"
    BY <2>1
  <2>3. PICK pc \in {"audit", "expand"} :
          /\ Go(r, PutAudited(PutGot(PutTodo(PutPc(o, pc), todo), o.got \cup {to}), o.audited \cup {to}))
          /\ to \in grant[r] /\ o.pc = "expand"
    BY <2>2
  <2> DEFINE p == PutTodo(PutPc(o, pc), todo)
             q == PutAudited(PutGot(p, o.got \cup {to}), o.audited \cup {to})
  <2>4. IsRead(p) /\ p.got = o.got /\ p.pc = pc /\ p.found = o.found /\ p.audited = o.audited
    BY <1>3, PcIs, TodoIs
  <2> HIDE DEF p
  <2>5. /\ IsRead(q) /\ q.got = o.got \cup {to} /\ q.pc = pc /\ q.found = o.found
        /\ q.audited = o.audited \cup {to}
    BY <2>4, GotIs, AuditedIs
  <2>6. Go(r, q)
    BY <2>3 DEF p
  <2> HIDE DEF q
  <2>7. GrantOk(q, grant[r])
    BY <1>1, <2>3, <2>5 DEF GrantOk
  <2> QED
    BY <1>2, <2>6, <2>7, Gone
<1>8. CASE Audit(r)
  <2> DEFINE p == PutAudited(PutPc(o, "returned"), o.audited \cup {o.found})
  <2>1. o.pc = "audit" /\ Go(r, p)
    BY <1>1, <1>8 DEF Audit, PutAudited, PutPc
  <2>2. IsRead(p) /\ p.got = o.got /\ p.pc = "returned" /\ p.audited = o.audited \cup {o.found}
    BY <1>3, PcIs, AuditedIs
  <2> HIDE DEF p
  <2>3. GrantOk(p, grant[r])
    BY <1>1, <2>1, <2>2 DEF GrantOk
  <2> QED
    BY <1>2, <2>1, <2>3, Gone
<1>9. CASE Finish(r)
  <2>1. GrantOk(NoRead, grant[r])
    BY Idles DEF GrantOk
  <2> QED
    BY <1>2, <1>9, <2>1, Gone DEF Finish
<1> QED
  BY <1>4, <1>5, <1>6, <1>7, <1>8, <1>9 DEF RevealStep, Resolving

\* The imports and the secrets change under a reveal without touching what it has read.
LEMMA Changes ==
  ASSUME GrantInv, read' = Unsteady \/ read' = read, grant' = grant
  PROVE  GrantInv'
<1>1. CASE read' = read
  BY <1>1 DEF GrantInv
<1>2. CASE read' = Unsteady
  <2>1. ASSUME NEW r \in Readers
        PROVE  GrantOk(read'[r], grant[r])
    <3>1. PICK o, b : o = read[r] /\ read'[r] = PutSteady(o, b)
      BY <1>2 DEF Unsteady, PutSteady
    <3>2. GrantOk(o, grant[r])
      BY <3>1 DEF GrantInv
    <3>3. GrantOk(PutSteady(o, b), grant[r])
      BY <3>2, SteadyIs DEF GrantOk
    <3> QED
      BY <3>1, <3>3
  <2> QED
    BY <1>2, <2>1 DEF GrantInv, Unsteady
<1> QED
  BY <1>1, <1>2

\* A value goes back only for secrets that the caller holds a grant on, and only once the log
\* has a row for each secret that was decrypted to make it, for any imports, references,
\* grants and readers, whatever changes between two steps.
THEOREM GrantedAndLogged == RevealsSpec => []ReturnedIsGrantedAndLogged
<1>1. RevealsInit => GrantInv
  BY Idles DEF RevealsInit, GrantInv, GrantOk
<1>2. GrantInv /\ [RevealsNext]_revealVars => GrantInv'
  <2> SUFFICES ASSUME GrantInv, [RevealsNext]_revealVars PROVE GrantInv'
    OBVIOUS
  <2>1. ASSUME NEW r \in Readers, Begins(r) PROVE GrantInv'
    BY <2>1, Starts
  <2>2. ASSUME NEW r \in Readers, RevealStep(r) PROVE GrantInv'
    BY <2>2, Steps
  <2>3. CASE \/ ImportStep \/ UNCHANGED revealVars
             \/ \E f \in Folders, t \in Templates \cup {Absent} : SetSecret(f, t)
    <3>1. (read' = Unsteady \/ read' = read) /\ grant' = grant
      BY <2>3 DEF ImportStep, revealVars, SetSecret
    <3> QED
      BY <3>1, Changes
  <2> QED
    BY <2>1, <2>2, <2>3 DEF RevealsNext
<1>3. GrantInv => ReturnedIsGrantedAndLogged
  BY DEF GrantInv, GrantOk, ReturnedIsGrantedAndLogged
<1> QED
  BY <1>1, <1>2, <1>3, PTL DEF RevealsSpec

-----------------------------------------------------------------------------
(* Reveals: which secret they land on.                                     *)

\* The levels of a walk of the graph G that begins at f: the folders at most n imports away.
IsReach(G, f, L) ==
  /\ L = [n \in Nat |-> L[n]] /\ L[0] = {f}
  /\ \A n \in Nat : L[n + 1] = L[n] \cup UNION {G[g] : g \in L[n]}

Reach(G, f) == CHOOSE L : IsReach(G, f, L)

\* A level contains those before it.
LEMMA LevelGrows ==
  ASSUME NEW G, NEW f, NEW L, IsReach(G, f, L), NEW m \in Nat, NEW n \in Nat, m <= n
  PROVE  L[m] \subseteq L[n]
<1> DEFINE S == {k \in Nat : m <= k /\ ~(L[m] \subseteq L[k])}
<1>1. SUFFICES ASSUME S # {} PROVE FALSE
  OBVIOUS
<1>2. PICK k \in S : \A x \in S : k <= x
  <2>1. S \subseteq Nat
    OBVIOUS
  <2> QED
    BY <1>1, <2>1, LeastNatural
<1>3. k \in Nat /\ m <= k /\ ~(L[m] \subseteq L[k]) /\ k # m
  BY <1>2
<1>4. k - 1 \in Nat /\ m <= k - 1 /\ k = (k - 1) + 1 /\ ~(k <= k - 1)
  BY <1>3
<1>5. k - 1 \notin S
  BY <1>2, <1>4
<1>6. L[m] \subseteq L[k - 1]
  BY <1>4, <1>5
<1>7. L[k - 1] \subseteq L[k]
  BY <1>4 DEF IsReach
<1> QED
  BY <1>3, <1>6, <1>7

\* No import leads out of a closed set, however far the walk goes.
LEMMA LevelClosed ==
  ASSUME NEW G, NEW f, NEW L, IsReach(G, f, L), NEW C, Closed(G, C),
         NEW m \in Nat, L[m] \subseteq C, NEW n \in Nat
  PROVE  L[n] \subseteq C
<1>1. CASE n <= m
  <2>1. L[n] \subseteq L[m]
    BY <1>1, LevelGrows
  <2> QED
    BY <2>1
<1>2. CASE m <= n
  <2> DEFINE S == {k \in Nat : m <= k /\ ~(L[k] \subseteq C)}
  <2>1. SUFFICES ASSUME S # {} PROVE FALSE
    BY <1>2
  <2>2. PICK k \in S : \A x \in S : k <= x
    <3>1. S \subseteq Nat
      OBVIOUS
    <3> QED
      BY <2>1, <3>1, LeastNatural
  <2>3. k \in Nat /\ m <= k /\ ~(L[k] \subseteq C) /\ k # m
    BY <2>2
  <2>4. k - 1 \in Nat /\ m <= k - 1 /\ k = (k - 1) + 1 /\ ~(k <= k - 1)
    BY <2>3
  <2>5. k - 1 \notin S
    BY <2>2, <2>4
  <2>6. L[k - 1] \subseteq C
    BY <2>4, <2>5
  <2>7. L[k] = L[k - 1] \cup UNION {G[g] : g \in L[k - 1]}
    BY <2>4 DEF IsReach
  <2>8. L[k] \subseteq C
    BY <2>6, <2>7 DEF Closed
  <2> QED
    BY <2>3, <2>8
<1> QED
  BY <1>1, <1>2

\* There is one sequence of levels.
LEMMA ReachOnce ==
  ASSUME NEW G, NEW f, NEW L, IsReach(G, f, L), NEW M, IsReach(G, f, M), NEW n \in Nat
  PROVE  L[n] = M[n]
<1> DEFINE S == {k \in Nat : L[k] # M[k]}
<1>1. SUFFICES ASSUME S # {} PROVE FALSE
  OBVIOUS
<1>2. PICK k \in S : \A x \in S : k <= x
  <2>1. S \subseteq Nat
    OBVIOUS
  <2> QED
    BY <1>1, <2>1, LeastNatural
<1>3. k \in Nat /\ L[k] # M[k] /\ k # 0
  BY <1>2 DEF IsReach
<1>4. k - 1 \in Nat /\ k = (k - 1) + 1 /\ ~(k <= k - 1)
  BY <1>3
<1>5. L[k - 1] = M[k - 1]
  BY <1>2, <1>4
<1>6. /\ L[k] = L[k - 1] \cup UNION {G[g] : g \in L[k - 1]}
      /\ M[k] = M[k - 1] \cup UNION {G[g] : g \in M[k - 1]}
  BY <1>4 DEF IsReach
<1> QED
  BY <1>3, <1>5, <1>6

\* The levels of the model are those of the graph.
LEMMA ReachIs ==
  ASSUME Rowed, NEW f \in Folders, NEW L, L = Reach(Imported, f)
  PROVE  /\ IsReach(Imported, f, L)
         /\ \A n \in Nat : L[n] = Within(f, n) /\ L[n] \subseteq Folders
<1>1. \A g : Sources(g) \subseteq Folders
  BY RowIs DEF Sources, ImportsOf, Rowed
<1>2. \A n \in Nat : Within(f, n) \subseteq Folders
  BY <1>1, ClosedKeeps
<1>3. PICK M : M = [n \in Nat |-> Within(f, n)]
  OBVIOUS
<1>4. IsReach(Imported, f, M)
  <2>1. M = [n \in Nat |-> M[n]] /\ M[0] = {f}
    BY <1>3, WithinIs
  <2>2. ASSUME NEW n \in Nat
        PROVE  M[n + 1] = M[n] \cup UNION {Imported[g] : g \in M[n]}
    <3>1. PICK X : X = Within(f, n)
      OBVIOUS
    <3>2. M[n] = X /\ M[n + 1] = Grown(X) /\ X \subseteq Folders
      BY <1>2, <1>3, <3>1, WithinIs
    <3>3. Grown(X) = X \cup UNION {Sources(g) : g \in X}
      BY DEF Grown
    <3>4. UNION {Sources(g) : g \in X} = UNION {Imported[g] : g \in X}
      BY <3>2 DEF Imported
    <3> QED
      BY <3>2, <3>3, <3>4
  <2> QED
    BY <2>1, <2>2 DEF IsReach
<1>5. IsReach(Imported, f, L)
  BY <1>4 DEF Reach
<1>6. \A n \in Nat : L[n] = M[n]
  BY <1>4, <1>5, ReachOnce
<1> QED
  BY <1>2, <1>3, <1>5, <1>6

\* The folders that hold the key, and of two folders that a folder imports, which comes first.
Holders == {f \in Folders : HoldsSecret(f)}
Ahead == [f \in Folders |->
           {x \in Folders \X Folders : \E i, j \in ImportsOf(f) :
              /\ edges[i].source = x[1] /\ edges[j].source = x[2]
              /\ edges[i].position < edges[j].position}]

\* The folders found on the chain come nearest first, and the direct imports in order.
Ordered(L, P, out) ==
  /\ \A k, l \in DOMAIN out : k < l => \A n \in Nat : out[l] \in L[n] => out[k] \in L[n]
  /\ \A k, l \in DOMAIN out : k < l => <<out[l], out[k]>> \notin P

\* What the walk has established when it has read all of the levels before its depth, L[w.depth],
\* but for the folders of the frontier: what they import is seen.
Chained(L, G, P, s, w, out) ==
  /\ w.depth < MaxDepth /\ w.seen = {s} \cup Range(out)
  /\ Range(w.frontier) \subseteq L[w.depth] /\ Range(w.next) \subseteq L[w.depth + 1]
  /\ w.seen = L[w.depth] \cup Range(w.next)
  /\ \A g \in L[w.depth] \ Range(w.frontier) : G[g] \subseteq w.seen
  /\ w.depth = 0 => out = <<>> /\ w.next = <<>> /\ w.frontier = <<s>>
  /\ Ordered(L, P, out)

\* What one more folder read adds to the chain.
Longer(L, P, w, out, all) ==
  /\ all \in Seq(Folders) /\ Range(all) = Range(out) \cup (Sources(Head(w.frontier)) \ w.seen)
  /\ Ordered(L, P, all)

\* What a folder lists goes behind the chain, and the chain stays in order.
LEMMA ChainGrows ==
  ASSUME Rowed, NEW s \in Folders, NEW L, L = Reach(Imported, s), NEW w \in Walk, w.frontier # <<>>,
         NEW out \in Seq(Folders), Chained(L, Imported, Ahead[s], s, w, out),
         NEW all, all = out \o Listed(Head(w.frontier), w.seen)
  PROVE  Longer(L, Ahead[s], w, out, all)
<1>0. PICK h, new : h = Head(w.frontier) /\ new = Listed(h, w.seen) /\ all = out \o new
  OBVIOUS
<1>1. /\ new \in Seq(Folders) /\ Range(new) = Sources(h) \ w.seen
      /\ \A k, l \in DOMAIN new : \A i, j \in ImportsOf(h) :
           k < l /\ edges[i].source = new[k] /\ edges[j].source = new[l]
             => edges[i].position <= edges[j].position
  BY <1>0, ListedIs
<1>2. all \in Seq(Folders) /\ Range(all) = Range(out) \cup Range(new)
  BY <1>0, <1>1, RangeConcatenation
<1>3. /\ IsReach(Imported, s, L) /\ \A n \in Nat : L[n] \subseteq Folders
  BY ReachIs
<1>4. PICK d \in Nat : d = w.depth
  BY DEF Walk
<1>5. h \in Range(w.frontier) /\ h \in Folders
  BY <1>0, Frontier DEF Walk
<1>6. Range(new) \subseteq L[d + 1] /\ w.seen \subseteq L[d + 1] /\ L[d] \subseteq w.seen
  <2>1. h \in L[d] /\ Range(w.next) \subseteq L[d + 1] /\ w.seen = L[d] \cup Range(w.next)
    BY <1>4, <1>5 DEF Chained
  <2>2. L[d + 1] = L[d] \cup UNION {Imported[g] : g \in L[d]}
    BY <1>3, <1>4 DEF IsReach
  <2>3. Imported[h] = Sources(h)
    BY <1>5 DEF Imported
  <2> QED
    BY <1>1, <2>1, <2>2, <2>3
<1>7. PICK m \in Nat, n \in Nat : /\ m = Len(out) /\ n = Len(new) /\ DOMAIN out = 1..m /\ DOMAIN new = 1..n
                                  /\ DOMAIN all = 1..(m + n)
                                  /\ \A k \in 1..m : all[k] = out[k]
                                  /\ \A k \in 1..(m + n) : ~(k <= m) => k - m \in 1..n
                                     /\ all[k] = new[k - m]
  <2>1. PICK m \in Nat, n \in Nat : m = Len(out) /\ n = Len(new) /\ DOMAIN out = 1..m
        /\ DOMAIN new = 1..n
    BY <1>1
  <2>2. /\ Len(all) = Len(out) + Len(new)
        /\ \A k \in 1..(Len(out) + Len(new)) :
             all[k] = IF k <= Len(out) THEN out[k] ELSE new[k - Len(out)]
    BY <1>0, <1>1, ConcatProperties
  <2>3. DOMAIN all = 1..(m + n)
    BY <1>2, <2>1, <2>2
  <2>4. \A k \in 1..(m + n) : all[k] = IF k <= m THEN out[k] ELSE new[k - m]
    BY <2>1, <2>2
  <2>5. \A k \in 1..m : k \in 1..(m + n) /\ k <= m
    OBVIOUS
  <2>6. \A k \in 1..(m + n) : ~(k <= m) => k - m \in 1..n
    OBVIOUS
  <2> QED
    BY <2>1, <2>3, <2>4, <2>5, <2>6
<1>8. /\ \A k \in 1..m : out[k] \in Range(out)
      /\ \A k \in 1..n : new[k] \in Range(new)
  BY <1>7 DEF Range
<1>9. ASSUME NEW k \in DOMAIN all, NEW l \in DOMAIN all, k < l, NEW e \in Nat, all[l] \in L[e]
      PROVE  all[k] \in L[e]
  <2>1. CASE l <= m
    <3>1. k \in 1..m /\ l \in 1..m
      BY <1>7, <1>9, <2>1
    <3> QED
      BY <1>7, <1>9, <3>1 DEF Chained, Ordered
  <2>2. CASE ~(l <= m)
    <3>1. all[l] \in Range(new)
      BY <1>7, <1>8, <1>9, <2>2
    <3>2. all[l] \notin w.seen
      BY <1>1, <3>1
    <3>3. ~(e <= d)
      <4>1. e <= d => L[e] \subseteq L[d]
        BY <1>3, LevelGrows
      <4> QED
        BY <1>6, <1>9, <3>2, <4>1
    <3>4. L[d + 1] \subseteq L[e]
      <4>1. d + 1 <= e /\ d + 1 \in Nat
        BY <3>3
      <4> QED
        BY <1>3, <4>1, LevelGrows
    <3>5. all[k] \in Range(out) \cup Range(new)
      <4>1. CASE k <= m
        <5>1. k \in 1..m
          BY <1>7, <1>9, <4>1
        <5> QED
          BY <1>7, <1>8, <5>1
      <4>2. CASE ~(k <= m)
        BY <1>7, <1>8, <1>9, <4>2
      <4> QED
        BY <4>1, <4>2
    <3>6. Range(out) \subseteq w.seen
      BY DEF Chained
    <3> QED
      BY <1>6, <3>4, <3>5, <3>6
  <2> QED
    BY <2>1, <2>2, <1>7, <1>9
<1>10. ASSUME NEW k \in DOMAIN all, NEW l \in DOMAIN all, k < l
       PROVE  <<all[l], all[k]>> \notin Ahead[s]
  <2>1. CASE l <= m
    <3>1. k \in 1..m /\ l \in 1..m
      BY <1>7, <1>10, <2>1
    <3> QED
      BY <1>7, <1>10, <3>1 DEF Chained, Ordered
  <2>2. CASE ~(l <= m)
    <3> SUFFICES ASSUME <<all[l], all[k]>> \in Ahead[s] PROVE FALSE
      OBVIOUS
    <3>1. PICK i \in ImportsOf(s), j \in ImportsOf(s) :
            edges[i].source = all[l] /\ edges[j].source = all[k]
            /\ edges[i].position < edges[j].position
      BY DEF Ahead
    <3>2. all[l] \in Range(new) /\ all[l] \in Sources(s)
      BY <1>7, <1>8, <1>10, <2>2, <3>1 DEF Sources
    <3>3. CASE d = 0
      <4>1. h = s /\ out = <<>> /\ m = 0
        <5>1. out = <<>> /\ w.frontier = <<s>>
          BY <1>4, <3>3 DEF Chained
        <5> QED
          BY <1>0, <1>7, <5>1
      <4>2. /\ k \in 1..n /\ l \in 1..n /\ all[k] = new[k] /\ all[l] = new[l]
        <5>1. /\ k \in 1..n /\ l \in 1..n /\ k - m = k /\ l - m = l /\ ~(k <= m) /\ ~(l <= m)
              /\ k \in 1..(m + n) /\ l \in 1..(m + n)
          BY <1>7, <1>10, <4>1
        <5> QED
          BY <1>7, <5>1
      <4>3. edges[j].position <= edges[i].position
        BY <1>1, <1>7, <1>10, <3>1, <4>1, <4>2
      <4>4. edges[i].position \in Nat /\ edges[j].position \in Nat
        BY RowIs DEF Rowed, ImportsOf
      <4> QED
        BY <3>1, <4>3, <4>4
    <3>4. CASE d # 0
      <4>1. 1 <= d /\ 1 \in Nat /\ 0 \in Nat
        BY <3>4
      <4>2. L[1] \subseteq L[d]
        BY <1>3, <4>1, LevelGrows
      <4>3. L[1] = L[0] \cup UNION {Imported[g] : g \in L[0]} /\ L[0] = {s}
        <5>1. L[0 + 1] = L[0] \cup UNION {Imported[g] : g \in L[0]} /\ L[0] = {s}
          BY <1>3 DEF IsReach
        <5>2. 0 + 1 = 1
          OBVIOUS
        <5> QED
          BY <5>1, <5>2
      <4>4. Sources(s) \subseteq L[1]
        BY <4>3 DEF Imported
      <4> QED
        BY <1>1, <1>6, <3>2, <4>2, <4>4
    <3> QED
      BY <3>3, <3>4
  <2> QED
    BY <2>1, <2>2, <1>7, <1>10
<1> QED
  BY <1>0, <1>1, <1>2, <1>9, <1>10 DEF Ordered, Longer

\* What a statement of the walk leaves of the chain.
IsFollowed(L, G, P, s, v, all) ==
  /\ v \in Walk /\ all \in Seq(Folders) /\ Ordered(L, P, all)
  /\ v.frontier # <<>> /\ v.depth < MaxDepth => Chained(L, G, P, s, v, all)
  /\ ~(v.frontier # <<>> /\ v.depth < MaxDepth) => L[MaxDepth] = {s} \cup Range(all)

\* A statement of the walk that is not its last keeps the chain so; at the end everything
\* within maxImportDepth is found.
LEMMA FollowOn ==
  ASSUME Rowed, NEW s \in Folders, NEW L, L = Reach(Imported, s), NEW w \in Walk, w.frontier # <<>>,
         NEW out \in Seq(Folders), Chained(L, Imported, Ahead[s], s, w, out),
         NEW v, v = Visited(w), NEW all, all = out \o Listed(Head(w.frontier), w.seen)
  PROVE  IsFollowed(L, Imported, Ahead[s], s, v, all)
<1>1. PICK h, new : h = Head(w.frontier) /\ new = Listed(h, w.seen) /\ all = out \o new
  OBVIOUS
<1>2. /\ all \in Seq(Folders) /\ Range(all) = Range(out) \cup (Sources(h) \ w.seen)
      /\ Ordered(L, Ahead[s], all)
  <2>1. Longer(L, Ahead[s], w, out, all)
    BY ChainGrows
  <2> QED
    BY <1>1, <2>1 DEF Longer
<1>3. IsVisited(w, v, h, new)
  BY <1>1, VisitedIs
<1>4. /\ IsReach(Imported, s, L) /\ \A n \in Nat : L[n] \subseteq Folders
  BY ReachIs
<1>5. PICK d \in Nat : d = w.depth
  BY DEF Walk
<1>6. /\ d < MaxDepth /\ w.seen = {s} \cup Range(out)
      /\ Range(w.frontier) \subseteq L[d] /\ Range(w.next) \subseteq L[d + 1]
      /\ w.seen = L[d] \cup Range(w.next)
      /\ \A g \in L[d] \ Range(w.frontier) : Imported[g] \subseteq w.seen
      /\ d = 0 => out = <<>> /\ w.next = <<>> /\ w.frontier = <<s>>
  BY <1>5 DEF Chained
<1>7. h \in Range(w.frontier) /\ h \in Folders /\ Imported[h] = Sources(h)
  <2>1. h \in Range(w.frontier) /\ h \in Folders
    BY <1>1, Frontier DEF Walk
  <2> QED
    BY <2>1 DEF Imported
<1>8. /\ v \in Walk /\ v.seen = w.seen \cup Sources(h) /\ Range(new) = Sources(h) \ w.seen
      /\ v.depth = IF Len(w.frontier) = 1 THEN d + 1 ELSE d
  BY <1>3, <1>5 DEF IsVisited
<1>9. v.seen = {s} \cup Range(all)
  BY <1>2, <1>6, <1>8
<1>10. L[d + 1] = L[d] \cup UNION {Imported[g] : g \in L[d]} /\ Sources(h) \subseteq L[d + 1]
  <2>1. L[d + 1] = L[d] \cup UNION {Imported[g] : g \in L[d]}
    BY <1>4 DEF IsReach
  <2> QED
    BY <1>6, <1>7, <2>1
<1>11. CASE Len(w.frontier) # 1
  <2>1. /\ v.depth = d /\ v.frontier # <<>> /\ Range(w.frontier) = {h} \cup Range(v.frontier)
        /\ Range(v.next) = Range(w.next) \cup Range(new)
    BY <1>3, <1>8, <1>11 DEF IsVisited
  <2>2. d # 0
    <3>1. Len(<<s>>) = 1
      OBVIOUS
    <3> QED
      BY <1>6, <1>11, <3>1
  <2>3. Range(v.frontier) \subseteq L[d] /\ Range(v.next) \subseteq L[d + 1]
    BY <1>6, <1>8, <1>10, <2>1
  <2>4. v.seen = L[d] \cup Range(v.next)
    BY <1>6, <1>8, <2>1
  <2>5. \A g \in L[d] \ Range(v.frontier) : Imported[g] \subseteq v.seen
    <3>1. \A g \in L[d] \ Range(v.frontier) : g = h \/ g \in L[d] \ Range(w.frontier)
      BY <2>1
    <3> QED
      BY <1>6, <1>7, <1>8, <3>1
  <2>6. Chained(L, Imported, Ahead[s], s, v, all)
    BY <1>2, <1>6, <1>9, <2>1, <2>2, <2>3, <2>4, <2>5 DEF Chained
  <2>7. v.frontier # <<>> /\ v.depth < MaxDepth
    BY <1>6, <2>1
  <2> QED
    BY <1>2, <1>8, <2>6, <2>7 DEF IsFollowed
<1>12. CASE Len(w.frontier) = 1
  <2>1. /\ v.depth = d + 1 /\ v.next = <<>> /\ Range(w.frontier) = {h}
        /\ Range(v.frontier) = Range(w.next) \cup Range(new)
    BY <1>3, <1>8, <1>12 DEF IsVisited
  <2>2. \A g \in L[d] : Imported[g] \subseteq v.seen
    BY <1>6, <1>7, <1>8, <2>1
  <2>3. v.seen = L[d + 1]
    <3>1. v.seen \subseteq L[d + 1]
      BY <1>6, <1>8, <1>10
    <3>2. L[d + 1] \subseteq v.seen
      BY <1>6, <1>8, <1>10, <2>2
    <3> QED
      BY <3>1, <3>2
  <2>4. Range(v.frontier) \subseteq L[d + 1] /\ Range(v.next) = {}
    <3>1. Range(<<>>) = {}
      BY DEF Range
    <3> QED
      BY <1>6, <1>8, <1>10, <2>1, <3>1
  <2>5. \A g \in L[d + 1] \ Range(v.frontier) : Imported[g] \subseteq v.seen
    <3>1. L[d + 1] \ Range(v.frontier) \subseteq L[d]
      BY <1>6, <1>8, <2>1, <2>3
    <3> QED
      BY <2>2, <3>1
  <2>6. CASE v.frontier # <<>> /\ v.depth < MaxDepth
    <3>1. PICK e \in Nat : e = d + 1
      OBVIOUS
    <3>2. v.depth = e /\ e # 0 /\ v.seen = L[e] \cup Range(v.next)
          /\ Range(v.next) \subseteq L[e + 1]
      BY <2>1, <2>3, <2>4, <3>1
    <3>3. /\ Range(v.frontier) \subseteq L[e]
          /\ \A g \in L[e] \ Range(v.frontier) : Imported[g] \subseteq v.seen
      BY <2>4, <2>5, <3>1
    <3> QED
      BY <1>2, <1>8, <1>9, <2>6, <3>2, <3>3 DEF Chained, IsFollowed
  <2>7. CASE ~(v.frontier # <<>> /\ v.depth < MaxDepth)
    <3>1. MaxDepth \in Nat /\ d + 1 \in Nat /\ d + 1 <= MaxDepth
      BY <1>6, DepthAssumption
    <3>2. CASE d + 1 = MaxDepth
      BY <1>2, <1>8, <1>9, <2>3, <2>7, <3>2 DEF IsFollowed
    <3>3. CASE d + 1 # MaxDepth
      <4>1. v.frontier = <<>>
        BY <2>1, <2>7, <3>1, <3>3
      <4>2. Range(v.frontier) = {}
        BY <4>1 DEF Range
      <4>3. PICK C, e : C = L[d + 1] /\ e = d + 1 /\ e <= MaxDepth /\ e \in Nat
        BY <3>1
      <4>4. Closed(Imported, C)
        BY <2>3, <2>5, <4>2, <4>3 DEF Closed
      <4>5. L[e] \subseteq C
        BY <4>3
      <4>6. L[MaxDepth] \subseteq C
        <5>1. PICK n \in Nat : n = MaxDepth
          BY <3>1
        <5>2. L[n] \subseteq C
          BY <1>4, <4>3, <4>4, <4>5, LevelClosed
        <5> QED
          BY <5>1, <5>2
      <4>7. L[e] \subseteq L[MaxDepth]
        BY <1>4, <3>1, <4>3, LevelGrows
      <4> QED
        BY <1>2, <1>8, <1>9, <2>3, <2>7, <4>3, <4>6, <4>7 DEF IsFollowed
    <3> QED
      BY <3>2, <3>3
  <2> QED
    BY <2>6, <2>7
<1> QED
  BY <1>11, <1>12

\* What a lookup finds: the nearest folder with the key, and of the direct imports the first.
Landed(L, G, P, H, s, f) ==
  /\ \E n \in 0..MaxDepth : f \in L[n] \cap H /\ \A k \in 0..(n - 1) : L[k] \cap H = {}
  /\ s \notin H /\ G[s] \cap H # {} =>
       f \in G[s] /\ \A b \in (G[s] \cap H) \ {f} : <<b, f>> \notin P

\* What is left to probe: every folder with the key that the walk has found.
Probing(L, P, H, s, out) ==
  /\ s \notin H /\ Range(out) \subseteq L[MaxDepth] /\ L[MaxDepth] \cap H \subseteq Range(out)
  /\ Ordered(L, P, out)

\* The first folder to probe wins if it holds the key, and else the rest are left.
LEMMA ProbeOn ==
  ASSUME NEW G, NEW s, NEW L, IsReach(G, s, L), NEW P, NEW H, NEW out \in Seq(Folders), out # <<>>,
         Probing(L, P, H, s, out), NEW f, f = Head(out)
  PROVE  /\ f \in H => Landed(L, G, P, H, s, f)
         /\ f \notin H => Probing(L, P, H, s, Tail(out))
         /\ f \notin H /\ Len(out) = 1 => L[MaxDepth] \cap H = {}
<1>1. MaxDepth \in Nat /\ 1 <= MaxDepth /\ 0 \in Nat /\ 1 \in Nat
  BY DepthAssumption
<1>2. PICK m \in Nat : m = Len(out) /\ DOMAIN out = 1..m /\ m >= 1 /\ f = out[1]
  OBVIOUS
<1>3. /\ Range(out) = {f} \cup Range(Tail(out)) /\ f \in Range(out)
      /\ Len(out) = 1 => Range(out) = {f}
  BY Frontier
<1>4. ASSUME NEW g \in Range(out), NEW n \in Nat, g \in L[n]
      PROVE  f \in L[n]
  <2>1. PICK j \in 1..m : g = out[j]
    BY <1>2 DEF Range
  <2>2. CASE j = 1
    BY <1>2, <1>4, <2>1, <2>2
  <2>3. CASE j # 1
    <3>1. 1 \in DOMAIN out /\ j \in DOMAIN out /\ 1 < j
      BY <1>2, <2>3
    <3> QED
      BY <1>2, <1>4, <2>1, <3>1 DEF Probing, Ordered
  <2> QED
    BY <2>2, <2>3
<1>5. \A n \in 0..MaxDepth : L[n] \subseteq L[MaxDepth]
  BY <1>1, LevelGrows
<1>6. ASSUME f \in H PROVE Landed(L, G, P, H, s, f)
  <2> DEFINE S == {n \in Nat : f \in L[n]}
  <2>1. MaxDepth \in S
    BY <1>1, <1>3 DEF Probing
  <2>2. PICK n \in S : \A x \in S : n <= x
    <3>1. S \subseteq Nat /\ S # {}
      BY <2>1
    <3> QED
      BY <3>1, LeastNatural
  <2>3. n \in 0..MaxDepth /\ f \in L[n]
    BY <1>1, <2>1, <2>2
  <2>4. \A k \in 0..(n - 1) : L[k] \cap H = {}
    <3> SUFFICES ASSUME NEW k \in 0..(n - 1), NEW g \in L[k] \cap H PROVE FALSE
      OBVIOUS
    <3>1. k \in Nat /\ k \in 0..MaxDepth /\ ~(n <= k)
      BY <1>1, <2>3
    <3>2. g \in Range(out)
      BY <1>5, <3>1 DEF Probing
    <3>3. f \in L[k]
      BY <1>4, <3>1, <3>2
    <3> QED
      BY <2>2, <3>1, <3>3
  <2>5. ASSUME NEW b \in G[s] \cap H PROVE b \in Range(out) /\ b \in L[1] /\ L[1] = {s} \cup G[s]
    <3>1. L[0 + 1] = L[0] \cup UNION {G[g] : g \in L[0]} /\ L[0] = {s}
      BY <1>1 DEF IsReach
    <3>2. L[1] = {s} \cup G[s]
      <4>1. 0 + 1 = 1
        OBVIOUS
      <4> QED
        BY <3>1, <4>1
    <3>3. 1 \in 0..MaxDepth
      BY <1>1
    <3> QED
      BY <1>5, <3>2, <3>3 DEF Probing
  <2>6. ASSUME G[s] \cap H # {} PROVE f \in G[s]
    <3>1. PICK b \in G[s] \cap H : TRUE
      BY <2>6
    <3>2. f \in L[1] /\ L[1] = {s} \cup G[s]
      BY <1>1, <1>4, <2>5, <3>1
    <3> QED
      BY <1>6, <3>2 DEF Probing
  <2>7. ASSUME NEW b \in (G[s] \cap H) \ {f} PROVE <<b, f>> \notin P
    <3>1. PICK j \in 1..m : b = out[j]
      BY <1>2, <2>5 DEF Range
    <3>2. 1 \in DOMAIN out /\ j \in DOMAIN out /\ 1 < j
      BY <1>2, <2>7, <3>1
    <3> QED
      BY <1>2, <3>1, <3>2 DEF Probing, Ordered
  <2> QED
    BY <1>6, <2>3, <2>4, <2>6, <2>7 DEF Landed
<1>7. ASSUME f \notin H PROVE Probing(L, P, H, s, Tail(out))
  <2>1. /\ DOMAIN Tail(out) = 1..(m - 1) /\ \A i \in 1..(m - 1) : Tail(out)[i] = out[i + 1]
           /\ i + 1 \in 1..m
    <3>1. Tail(out) \in Seq(Folders) /\ Len(Tail(out)) = m - 1
          /\ \A i \in 1..Len(Tail(out)) : Tail(out)[i] = out[i + 1]
      BY <1>2, HeadTailProperties
    <3> QED
      BY <1>2, <3>1
  <2>2. Ordered(L, P, Tail(out))
    <3>1. \A k, l \in 1..(m - 1) : k < l => k + 1 < l + 1
      OBVIOUS
    <3> QED
      BY <1>2, <2>1, <3>1 DEF Probing, Ordered
  <2> QED
    BY <1>3, <1>7, <2>2 DEF Probing
<1>8. ASSUME f \notin H, Len(out) = 1 PROVE L[MaxDepth] \cap H = {}
  BY <1>3, <1>8 DEF Probing
<1> QED
  BY <1>6, <1>7, <1>8

\* A reveal with another state of its lookup, and one with another state of its expansion.
Looking(o, pc, w, out, found) ==
  [pc |-> pc, start |-> o.start, walk |-> w, out |-> out, found |-> found, todo |-> o.todo,
   got |-> o.got, audited |-> o.audited, steady |-> o.steady]
Expanding(o, pc, todo, got, audited) ==
  [pc |-> pc, start |-> o.start, walk |-> o.walk, out |-> o.out, found |-> o.found, todo |-> todo,
   got |-> got, audited |-> audited, steady |-> o.steady]

Pcs == {"idle", "chain", "probe", "get", "expand", "audit", "returned", "missing"}
Todo == Seq([to : Folders, chain : Seq(Folders)])

\* The columns of a reveal.
LEMMA RevealIs ==
  ASSUME NEW o \in Reveal
  PROVE  /\ o.pc \in Pcs /\ o.start \in Folders \cup {NoFolder} /\ o.walk \in Walk
         /\ o.out \in Seq(Folders) /\ o.found \in Folders \cup {NoFolder} /\ o.todo \in Todo
         /\ o.got \in SUBSET Folders /\ o.audited \in SUBSET Folders /\ o.steady \in BOOLEAN
         /\ o = [pc |-> o.pc, start |-> o.start, walk |-> o.walk, out |-> o.out, found |-> o.found,
                 todo |-> o.todo, got |-> o.got, audited |-> o.audited, steady |-> o.steady]
BY DEF Reveal, Pcs, Todo

\* A reveal v is o with these columns.
IsLooking(v, o, pc, w, out, found) ==
  /\ v \in Reveal /\ v.pc = pc /\ v.start = o.start /\ v.walk = w /\ v.out = out
  /\ v.found = found /\ v.todo = o.todo /\ v.steady = o.steady
IsExpanding(v, o, pc, todo) ==
  /\ v \in Reveal /\ v.pc = pc /\ v.start = o.start /\ v.walk = o.walk /\ v.out = o.out
  /\ v.found = o.found /\ v.todo = todo /\ v.steady = o.steady

\* It is a reveal when the columns have their types.
LEMMA LookingIs ==
  ASSUME NEW o \in Reveal, NEW pc \in Pcs, NEW w \in Walk, NEW out \in Seq(Folders),
         NEW found \in Folders \cup {NoFolder}, NEW v, v = Looking(o, pc, w, out, found)
  PROVE  IsLooking(v, o, pc, w, out, found)
<1>1. PICK start \in Folders \cup {NoFolder}, todo \in Todo, got \in SUBSET Folders,
           audited \in SUBSET Folders, steady \in BOOLEAN :
        start = o.start /\ todo = o.todo /\ got = o.got /\ audited = o.audited /\ steady = o.steady
  BY RevealIs
<1>2. v = [pc |-> pc, start |-> start, walk |-> w, out |-> out, found |-> found, todo |-> todo,
           got |-> got, audited |-> audited, steady |-> steady]
  BY <1>1 DEF Looking
<1>3. v \in Reveal
  BY <1>2 DEF Reveal, Pcs, Todo
<1> QED
  BY <1>1, <1>2, <1>3 DEF IsLooking

\* The same of its expansion.
LEMMA ExpandingIs ==
  ASSUME NEW o \in Reveal, NEW pc \in Pcs, NEW todo \in Todo, NEW got \in SUBSET Folders,
         NEW audited \in SUBSET Folders, NEW v, v = Expanding(o, pc, todo, got, audited)
  PROVE  IsExpanding(v, o, pc, todo)
<1>1. PICK start \in Folders \cup {NoFolder}, w \in Walk, out \in Seq(Folders),
           found \in Folders \cup {NoFolder}, steady \in BOOLEAN :
        start = o.start /\ w = o.walk /\ out = o.out /\ found = o.found /\ steady = o.steady
  BY RevealIs
<1>2. v = [pc |-> pc, start |-> start, walk |-> w, out |-> out, found |-> found, todo |-> todo,
           got |-> got, audited |-> audited, steady |-> steady]
  BY <1>1 DEF Expanding
<1>3. v \in Reveal
  BY <1>2 DEF Reveal, Pcs, Todo
<1> QED
  BY <1>1, <1>2, <1>3 DEF IsExpanding

\* A reveal that changes only its state.
LEMMA PcPut ==
  ASSUME NEW o \in Reveal, NEW pc \in Pcs,
         NEW v, v = [o EXCEPT !.pc = pc]
  PROVE  IsLooking(v, o, pc, o.walk, o.out, o.found)
<1>1. PICK w \in Walk, out \in Seq(Folders), found \in Folders \cup {NoFolder} :
        w = o.walk /\ out = o.out /\ found = o.found
  BY RevealIs
<1>2. v = Looking(o, pc, w, out, found)
  BY <1>1 DEF Reveal, Looking
<1>3. IsLooking(v, o, pc, w, out, found)
  BY <1>2, LookingIs
<1> QED
  BY <1>1, <1>3

\* A reveal that changes its walk.
LEMMA WalkPutIn ==
  ASSUME NEW o \in Reveal, NEW w \in Walk,
         NEW v, v = [o EXCEPT !.walk = w]
  PROVE  IsLooking(v, o, o.pc, w, o.out, o.found)
<1>1. PICK pc \in Pcs, out \in Seq(Folders), found \in Folders \cup {NoFolder} :
        pc = o.pc /\ out = o.out /\ found = o.found
  BY RevealIs
<1>2. v = Looking(o, pc, w, out, found)
  BY <1>1 DEF Reveal, Looking
<1>3. IsLooking(v, o, pc, w, out, found)
  BY <1>2, LookingIs
<1> QED
  BY <1>1, <1>3

\* A reveal that changes what is left to probe.
LEMMA OutPut ==
  ASSUME NEW o \in Reveal, NEW out \in Seq(Folders),
         NEW v, v = [o EXCEPT !.out = out]
  PROVE  IsLooking(v, o, o.pc, o.walk, out, o.found)
<1>1. PICK pc \in Pcs, w \in Walk, found \in Folders \cup {NoFolder} :
        pc = o.pc /\ w = o.walk /\ found = o.found
  BY RevealIs
<1>2. v = Looking(o, pc, w, out, found)
  BY <1>1 DEF Reveal, Looking
<1>3. IsLooking(v, o, pc, w, out, found)
  BY <1>2, LookingIs
<1> QED
  BY <1>1, <1>3

\* A reveal that changes its state and what it found.
LEMMA PcFoundPut ==
  ASSUME NEW o \in Reveal, NEW pc \in Pcs, NEW found \in Folders \cup {NoFolder},
         NEW v, v = [o EXCEPT !.pc = pc, !.found = found]
  PROVE  IsLooking(v, o, pc, o.walk, o.out, found)
<1>1. PICK w \in Walk, out \in Seq(Folders) :
        w = o.walk /\ out = o.out
  BY RevealIs
<1>2. v = Looking(o, pc, w, out, found)
  BY <1>1 DEF Reveal, Looking
<1>3. IsLooking(v, o, pc, w, out, found)
  BY <1>2, LookingIs
<1> QED
  BY <1>1, <1>3

\* A reveal that changes its state and what is left to probe.
LEMMA PcOutPut ==
  ASSUME NEW o \in Reveal, NEW pc \in Pcs, NEW out \in Seq(Folders),
         NEW v, v = [o EXCEPT !.pc = pc, !.out = out]
  PROVE  IsLooking(v, o, pc, o.walk, out, o.found)
<1>1. PICK w \in Walk, found \in Folders \cup {NoFolder} :
        w = o.walk /\ found = o.found
  BY RevealIs
<1>2. v = Looking(o, pc, w, out, found)
  BY <1>1 DEF Reveal, Looking
<1>3. IsLooking(v, o, pc, w, out, found)
  BY <1>2, LookingIs
<1> QED
  BY <1>1, <1>3

\* A reveal that changes its state, what is left to probe and what it found.
LEMMA PcOutFoundPut ==
  ASSUME NEW o \in Reveal, NEW pc \in Pcs, NEW out \in Seq(Folders),
         NEW found \in Folders \cup {NoFolder},
         NEW v, v = [o EXCEPT !.pc = pc, !.out = out, !.found = found]
  PROVE  IsLooking(v, o, pc, o.walk, out, found)
<1>1. PICK w \in Walk :
        w = o.walk
  BY RevealIs
<1>2. v = Looking(o, pc, w, out, found)
  BY <1>1 DEF Reveal, Looking
<1>3. IsLooking(v, o, pc, w, out, found)
  BY <1>2, LookingIs
<1> QED
  BY <1>1, <1>3

\* A reveal that changes its walk and what it came to.
LEMMA WalkOutPut ==
  ASSUME NEW o \in Reveal, NEW w \in Walk, NEW out \in Seq(Folders),
         NEW v, v = [o EXCEPT !.walk = w, !.out = out]
  PROVE  IsLooking(v, o, o.pc, w, out, o.found)
<1>1. PICK pc \in Pcs, found \in Folders \cup {NoFolder} :
        pc = o.pc /\ found = o.found
  BY RevealIs
<1>2. v = Looking(o, pc, w, out, found)
  BY <1>1 DEF Reveal, Looking
<1>3. IsLooking(v, o, pc, w, out, found)
  BY <1>2, LookingIs
<1> QED
  BY <1>1, <1>3

\* A reveal that changes its state, its walk and what it came to.
LEMMA PcWalkOutPut ==
  ASSUME NEW o \in Reveal, NEW pc \in Pcs, NEW w \in Walk, NEW out \in Seq(Folders),
         NEW v, v = [o EXCEPT !.pc = pc, !.walk = w, !.out = out]
  PROVE  IsLooking(v, o, pc, w, out, o.found)
<1>1. PICK found \in Folders \cup {NoFolder} :
        found = o.found
  BY RevealIs
<1>2. v = Looking(o, pc, w, out, found)
  BY <1>1 DEF Reveal, Looking
<1>3. IsLooking(v, o, pc, w, out, found)
  BY <1>2, LookingIs
<1> QED
  BY <1>1, <1>3

\* A reveal that changes its state, what it expands and what it has read.
LEMMA GetPut ==
  ASSUME NEW o \in Reveal, NEW pc \in Pcs, NEW todo \in Todo, NEW got \in SUBSET Folders,
         NEW v, v = [o EXCEPT !.pc = pc, !.todo = todo, !.got = got]
  PROVE  IsExpanding(v, o, pc, todo)
<1>1. PICK audited \in SUBSET Folders :
        audited = o.audited
  BY RevealIs
<1>2. v = Expanding(o, pc, todo, got, audited)
  BY <1>1 DEF Reveal, Expanding
<1>3. IsExpanding(v, o, pc, todo)
  BY <1>2, ExpandingIs
<1> QED
  BY <1>1, <1>3

\* A reveal that changes its state, what it expands, what it has read and what is logged.
LEMMA HopPut ==
  ASSUME NEW o \in Reveal, NEW pc \in Pcs, NEW todo \in Todo, NEW got \in SUBSET Folders,
         NEW audited \in SUBSET Folders,
         NEW v, v = [o EXCEPT !.pc = pc, !.todo = todo, !.got = got, !.audited = audited]
  PROVE  IsExpanding(v, o, pc, todo)
<1>2. v = Expanding(o, pc, todo, got, audited)
  BY DEF Reveal, Expanding
<1>3. IsExpanding(v, o, pc, todo)
  BY <1>2, ExpandingIs
<1> QED
  BY <1>3

\* A reveal that changes its state and what is logged.
LEMMA AuditPut ==
  ASSUME NEW o \in Reveal, NEW pc \in Pcs, NEW audited \in SUBSET Folders,
         NEW v, v = [o EXCEPT !.pc = pc, !.audited = audited]
  PROVE  IsExpanding(v, o, pc, o.todo)
<1>1. PICK todo \in Todo, got \in SUBSET Folders :
        todo = o.todo /\ got = o.got
  BY RevealIs
<1>2. v = Expanding(o, pc, todo, got, audited)
  BY <1>1 DEF Reveal, Expanding
<1>3. IsExpanding(v, o, pc, todo)
  BY <1>2, ExpandingIs
<1> QED
  BY <1>1, <1>3

\* A reveal that has been asked for: the address is kept.
LEMMA AskedIs ==
  /\ NoRead \in Reveal /\ NoRead.pc = "idle" /\ NoRead.found = NoFolder
  /\ \A f \in Folders : \A o : o = [NoRead EXCEPT !.start = f] =>
       /\ o \in Reveal /\ o.pc = "idle" /\ o.start = f /\ o.walk = NoWalk /\ o.out = <<>>
       /\ o.found = NoFolder
<1>1. PICK w \in Walk, pc \in Pcs, empty \in Seq(Folders), todo \in Todo, none \in SUBSET Folders,
           steady \in BOOLEAN :
        /\ w = NoWalk /\ pc = "idle" /\ empty = <<>> /\ todo = <<>> /\ none = {} /\ steady = TRUE
  <2>1. NoWalk \in Walk /\ <<>> \in Seq(Folders) /\ <<>> \in Todo /\ "idle" \in Pcs
    BY NoWalkHolds DEF Pcs, Todo
  <2> QED
    BY <2>1, Zenon
<1>2. ASSUME NEW f \in Folders \cup {NoFolder},
             NEW o, o = [pc |-> pc, start |-> f, walk |-> w, out |-> empty, found |-> NoFolder,
                         todo |-> todo, got |-> none, audited |-> none, steady |-> steady]
      PROVE  /\ o \in Reveal /\ o.pc = pc /\ o.start = f /\ o.walk = w /\ o.out = empty
             /\ o.found = NoFolder
  BY <1>2 DEF Reveal, Pcs, Todo
<1>3. NoRead = [pc |-> pc, start |-> NoFolder, walk |-> w, out |-> empty, found |-> NoFolder,
                todo |-> todo, got |-> none, audited |-> none, steady |-> steady]
  BY <1>1, Zenon DEF NoRead
<1>4. /\ NoRead \in Reveal /\ NoRead.pc = pc /\ NoRead.found = NoFolder
  BY <1>2, <1>3
<1>5. ASSUME NEW f \in Folders, NEW o, o = [NoRead EXCEPT !.start = f]
      PROVE  o = [pc |-> pc, start |-> f, walk |-> w, out |-> empty, found |-> NoFolder,
                  todo |-> todo, got |-> none, audited |-> none, steady |-> steady]
  <2>1. PICK p \in Reveal : p = NoRead
    BY <1>4
  <2>2. o = [p EXCEPT !.start = f]
    BY <1>5, <2>1
  <2>3. o = [pc |-> p.pc, start |-> f, walk |-> p.walk, out |-> p.out, found |-> p.found,
             todo |-> p.todo, got |-> p.got, audited |-> p.audited, steady |-> p.steady]
    BY <2>2 DEF Reveal
  <2>4. /\ p.pc = pc /\ p.walk = w /\ p.out = empty /\ p.found = NoFolder /\ p.todo = todo
        /\ p.got = none /\ p.audited = none /\ p.steady = steady
    BY <1>3, <2>1
  <2> QED
    BY <2>3, <2>4, Zenon
<1>6. ASSUME NEW f \in Folders, NEW o, o = [NoRead EXCEPT !.start = f]
      PROVE  o \in Reveal /\ o.pc = pc /\ o.start = f /\ o.walk = w /\ o.out = empty
             /\ o.found = NoFolder
  BY <1>2, <1>5, <1>6
<1> QED
  BY <1>1, <1>4, <1>6

\* The walk of a lookup that begins at f.
LEMMA FirstWalk ==
  ASSUME NEW f \in Folders, NEW w, w = [[NoWalk EXCEPT !.frontier = <<f>>] EXCEPT !.seen = {f}]
  PROVE  /\ w \in Walk /\ w.frontier = <<f>> /\ w.next = <<>> /\ w.seen = {f} /\ w.depth = 0
<1>1. PICK x \in Walk : x = NoWalk /\ x.next = <<>> /\ x.depth = 0
  BY NoWalkHolds DEF NoWalk
<1>2. PICK front \in Seq(Folders), seen \in SUBSET Folders : front = <<f>> /\ seen = {f}
  <2>1. <<f>> \in Seq(Folders) /\ {f} \in SUBSET Folders
    OBVIOUS
  <2> QED
    BY <2>1, Zenon
<1>3. PICK y : y = [x EXCEPT !.frontier = front]
  OBVIOUS
<1>4. /\ y \in Walk /\ y.frontier = front /\ y.next = <<>> /\ y.depth = 0
  <2>1. y = PutWalked(x, x.seen, front, x.next, x.depth)
    BY <1>3 DEF Walk, PutWalked
  <2> QED
    BY <1>1, <1>3 DEF Walk
<1>5. w = [y EXCEPT !.seen = seen]
  BY <1>1, <1>2, <1>3
<1>6. w \in Walk /\ w.frontier = front /\ w.next = <<>> /\ w.depth = 0 /\ w.seen = seen
  BY <1>4, <1>5 DEF Walk
<1> QED
  BY <1>2, <1>6

\* A reveal that has landed on the secret it begins at, and one that has its walk before it.
BegunAt(p, f) == p \in Reveal /\ p.pc = "get" /\ p.start = f /\ p.found = f
BegunWalk(q, f) ==
  /\ q \in Reveal /\ q.pc = "chain" /\ q.start = f /\ q.found = NoFolder /\ q.out = <<>>
  /\ q.walk \in Walk /\ q.walk.frontier = <<f>> /\ q.walk.next = <<>>
  /\ q.walk.seen = {f} /\ q.walk.depth = 0

\* A reveal begins at the secret or with the walk.
LEMMA BegunReveal ==
  ASSUME NEW f \in Folders, NEW o, o = [NoRead EXCEPT !.start = f]
  PROVE  /\ \A p : p = [o EXCEPT !.pc = "get", !.found = f] => BegunAt(p, f)
         /\ \A q : q = [o EXCEPT !.pc = "chain", !.walk.frontier = <<f>>, !.walk.seen = {f}]
              => BegunWalk(q, f)
<1>1. /\ o \in Reveal /\ o.pc = "idle" /\ o.start = f /\ o.walk = NoWalk /\ o.out = <<>>
      /\ o.found = NoFolder
  BY AskedIs
<1>2. PICK get \in Pcs, chain \in Pcs : get = "get" /\ chain = "chain"
  BY DEF Pcs
<1>3. ASSUME NEW p, p = [o EXCEPT !.pc = "get", !.found = f]
      PROVE  p \in Reveal /\ p.pc = "get" /\ p.start = f /\ p.found = f
  <2>1. p = [o EXCEPT !.pc = get, !.found = f]
    BY <1>2, <1>3
  <2>2. IsLooking(p, o, get, o.walk, o.out, f)
    BY <1>1, <2>1, PcFoundPut
  <2> QED
    BY <1>1, <1>2, <2>2 DEF IsLooking
<1>4. ASSUME NEW q, q = [o EXCEPT !.pc = "chain", !.walk.frontier = <<f>>, !.walk.seen = {f}]
      PROVE  /\ q \in Reveal /\ q.pc = "chain" /\ q.start = f /\ q.found = NoFolder /\ q.out = <<>>
             /\ q.walk \in Walk /\ q.walk.frontier = <<f>> /\ q.walk.next = <<>>
             /\ q.walk.seen = {f} /\ q.walk.depth = 0
  <2> DEFINE c == PutPc(o, "chain")
             d == PutWalk(c, [c.walk EXCEPT !.frontier = <<f>>])
             e == PutWalk(d, [d.walk EXCEPT !.seen = {f}])
  <2>1. q = e
    BY <1>4 DEF PutWalk, PutPc
  <2>2. /\ c \in Reveal /\ c.pc = "chain" /\ c.start = f /\ c.walk = NoWalk /\ c.out = <<>>
        /\ c.found = NoFolder
    <3>1. c = [o EXCEPT !.pc = chain]
      BY <1>2 DEF PutPc
    <3>2. IsLooking(c, o, chain, o.walk, o.out, o.found)
      BY <1>1, <3>1, PcPut
    <3> QED
      BY <1>1, <1>2, <3>2 DEF IsLooking
  <2> HIDE DEF c
  <2>3. PICK y \in Walk : /\ y = [[NoWalk EXCEPT !.frontier = <<f>>] EXCEPT !.seen = {f}]
                          /\ y.frontier = <<f>> /\ y.next = <<>> /\ y.seen = {f} /\ y.depth = 0
    BY FirstWalk
  <2>4. e = [c EXCEPT !.walk = y]
    <3>1. PICK x, z : x = d /\ z = [NoWalk EXCEPT !.frontier = <<f>>]
      OBVIOUS
    <3>2. x = [c EXCEPT !.walk = z]
      BY <2>2, <3>1 DEF PutWalk
    <3>3. x.walk = z /\ e = [x EXCEPT !.walk = [z EXCEPT !.seen = {f}]]
      <4>1. x.walk = z
        BY <2>2, <3>2 DEF Reveal
      <4> QED
        BY <3>1, <4>1 DEF PutWalk
    <3>4. e = [x EXCEPT !.walk = y]
      BY <2>3, <3>1, <3>3
    <3> QED
      BY <2>2, <3>2, <3>4 DEF Reveal
  <2>5. IsLooking(q, c, c.pc, y, c.out, c.found)
    BY <2>1, <2>2, <2>4, WalkPutIn
  <2> QED
    BY <2>2, <2>3, <2>5 DEF IsLooking
<1> QED
  BY <1>3, <1>4 DEF BegunAt, BegunWalk

\* What a reveal is, whatever changes: it has something to read in each state.
WellFormed(o) ==
  /\ o \in Reveal
  /\ o.pc # "idle" => o.start \in Folders
  /\ o.pc = "chain" => o.walk.frontier # <<>>
  /\ o.pc = "probe" => o.out # <<>>
  /\ o.pc = "expand" => o.todo # <<>>
  /\ o.found \in Folders <=> o.pc \in {"get", "expand", "audit", "returned"}

\* What its lookup has established, while nothing has changed since it began.
SureOf(L, G, P, H, o) ==
  /\ o.pc = "chain" => o.start \notin H /\ Chained(L, G, P, o.start, o.walk, o.out)
  /\ o.pc = "probe" => Probing(L, P, H, o.start, o.out)
  /\ o.found \in Folders => Landed(L, G, P, H, o.start, o.found)
  /\ o.pc = "missing" => L[MaxDepth] \cap H = {}

Sure(G, A, H, o) == o.steady => SureOf(Reach(G, o.start), G, A[o.start], H, o)

RevealsInv ==
  /\ ImportsInv
  /\ value \in [Folders -> Templates \cup {Absent}] /\ grant \in [Readers -> Grants]
  /\ \A f \in Folders \ live : value[f] = Absent
  /\ read \in [Readers -> Reveal]
  /\ \A r \in Readers : WellFormed(read[r]) /\ Sure(Imported, Ahead, Holders, read[r])

\* The graph, its order and the holders are the same when nothing changes.
LEMMA SameWorld ==
  ASSUME UNCHANGED <<live, edges, value>>
  PROVE  Imported' = Imported /\ Ahead' = Ahead /\ Holders' = Holders
<1>1. live' = live /\ edges' = edges /\ value' = value
  OBVIOUS
<1>2. Imported' = Imported
  BY <1>1 DEF Imported, Sources, ImportsOf, Followed
<1>3. Ahead' = Ahead
  BY <1>1 DEF Ahead, ImportsOf, Followed
<1>4. Holders' = Holders
  BY <1>1 DEF Holders, HoldsSecret
<1> QED
  BY <1>2, <1>3, <1>4

\* A step of one reveal that changes nothing else.
LEMMA OneRead ==
  ASSUME RevealsInv, UNCHANGED <<importVars, value, grant>>, NEW r \in Readers, NEW o,
         WellFormed(o), Sure(Imported, Ahead, Holders, o), Go(r, o)
  PROVE  RevealsInv'
<1>1. live' = live /\ edges' = edges /\ value' = value /\ grant' = grant /\ UNCHANGED importVars
  BY DEF importVars
<1>2. Imported' = Imported /\ Ahead' = Ahead /\ Holders' = Holders
  BY <1>1, SameWorld
<1>3. ImportsInv'
  BY <1>1, ImportsStep DEF RevealsInv
<1>4. /\ read \in [Readers -> Reveal] /\ o \in Reveal /\ read' = [read EXCEPT ![r] = o]
      /\ \A q \in Readers : WellFormed(read[q]) /\ Sure(Imported, Ahead, Holders, read[q])
  BY DEF RevealsInv, WellFormed, Go
<1>5. /\ read' \in [Readers -> Reveal]
      /\ \A q \in Readers : read'[q] = IF q = r THEN o ELSE read[q]
  BY <1>4
<1>6. \A q \in Readers : WellFormed(read'[q]) /\ Sure(Imported', Ahead', Holders', read'[q])
  BY <1>2, <1>4, <1>5
<1> QED
  BY <1>1, <1>3, <1>5, <1>6 DEF RevealsInv

\* A reveal that loses its steadiness is still well formed, and nothing more is said of it.
LEMMA UnsteadyIs ==
  ASSUME NEW o, WellFormed(o), NEW b \in BOOLEAN, b = (o.pc = "idle"),
         NEW v, v = [o EXCEPT !.steady = b], NEW G, NEW A, NEW H
  PROVE  v \in Reveal /\ WellFormed(v) /\ Sure(G, A, H, v)
<1>1. o \in Reveal
  BY DEF WellFormed
<1>2. /\ v \in Reveal /\ v.pc = o.pc /\ v.start = o.start /\ v.walk = o.walk /\ v.out = o.out
      /\ v.found = o.found /\ v.todo = o.todo /\ v.steady = b
  BY <1>1 DEF Reveal
<1>3. WellFormed(v)
  BY <1>2 DEF WellFormed
<1>4. Sure(G, A, H, v)
  <2>1. CASE o.pc = "idle"
    <3>1. v.pc = "idle" /\ v.found \notin Folders
      BY <1>2, <2>1 DEF WellFormed
    <3> QED
      BY <3>1 DEF Sure, SureOf
  <2>2. CASE o.pc # "idle"
    <3>1. ~v.steady
      BY <1>2, <2>2
    <3> QED
      BY <3>1 DEF Sure
  <2> QED
    BY <2>1, <2>2
<1> QED
  BY <1>2, <1>3, <1>4

\* The imports or the secrets change.
LEMMA WorldChanges ==
  ASSUME RevealsInv, ImportsInv', value' \in [Folders -> Templates \cup {Absent}], grant' = grant,
         \A f \in Folders \ live' : value'[f] = Absent, read' = Unsteady
  PROVE  RevealsInv'
<1>1. PICK G, A, H : G = Imported' /\ A = Ahead' /\ H = Holders'
  OBVIOUS
<1>2. ASSUME NEW r \in Readers
      PROVE  read'[r] \in Reveal /\ WellFormed(read'[r]) /\ Sure(G, A, H, read'[r])
  <2>1. PICK o, v : o = read[r] /\ v = read'[r]
    OBVIOUS
  <2>5. PICK b \in BOOLEAN : b = (o.pc = "idle")
    OBVIOUS
  <2>2. WellFormed(o)
    BY <2>1 DEF RevealsInv
  <2>3. v = [o EXCEPT !.steady = b]
    BY <2>1, <2>5 DEF Unsteady
  <2>4. v \in Reveal /\ WellFormed(v) /\ Sure(G, A, H, v)
    BY <2>2, <2>3, <2>5, UnsteadyIs
  <2> QED
    BY <2>1, <2>4
<1>3. read' \in [Readers -> Reveal]
  BY <1>2 DEF Unsteady
<1>4. grant \in [Readers -> Grants]
  BY DEF RevealsInv
<1>5. \A r \in Readers : WellFormed(read'[r]) /\ Sure(Imported', Ahead', Holders', read'[r])
  BY <1>1, <1>2
<1> QED
  BY <1>3, <1>4, <1>5 DEF RevealsInv

\* What the invariant says of one reveal.
LEMMA ReadGives ==
  ASSUME RevealsInv, NEW r \in Readers, NEW o, o = read[r]
  PROVE  /\ o \in Reveal /\ WellFormed(o) /\ Sure(Imported, Ahead, Holders, o)
         /\ Rowed /\ o.walk \in Walk /\ o.out \in Seq(Folders)
<1>1. o \in Reveal /\ WellFormed(o) /\ Sure(Imported, Ahead, Holders, o) /\ ImportsInv
  BY DEF RevealsInv
<1> QED
  BY <1>1, InvGives, RevealIs

\* Starting a reveal keeps the invariant.
LEMMA StartStep ==
  ASSUME RevealsInv, NEW r \in Readers, NEW f \in Folders, StartReveal(r, f),
         UNCHANGED <<importVars, value, grant>>
  PROVE  RevealsInv'
<1>1. PICK o, L : o = [NoRead EXCEPT !.start = f] /\ L = Reach(Imported, f)
  OBVIOUS
<1>2. Rowed
  BY InvGives DEF RevealsInv
<1>3. IsReach(Imported, f, L) /\ L[0] = {f}
  BY <1>1, <1>2, ReachIs DEF IsReach
<1>4. MaxDepth \in Nat /\ 1 <= MaxDepth
  BY DepthAssumption
<1>5. ASSUME HoldsSecret(f), NEW p, p = [o EXCEPT !.pc = "get", !.found = f]
      PROVE  WellFormed(p) /\ Sure(Imported, Ahead, Holders, p)
  <2>1. p \in Reveal /\ p.pc = "get" /\ p.start = f /\ p.found = f
    <3>1. p = [o EXCEPT !.pc = "get", !.found = f] => BegunAt(p, f)
      BY <1>1, BegunReveal
    <3> QED
      BY <1>5, <3>1 DEF BegunAt
  <2>2. f \in Holders
    BY <1>5 DEF Holders
  <2>3. Landed(L, Imported, Ahead[f], Holders, f, f)
    <3>1. 0 \in 0..MaxDepth /\ 0..(0 - 1) = {}
      BY <1>4
    <3> QED
      BY <1>3, <2>2, <3>1 DEF Landed
  <2> QED
    BY <1>1, <2>1, <2>3 DEF WellFormed, Sure, SureOf
<1>6. ASSUME ~HoldsSecret(f), NEW p,
             p = [o EXCEPT !.pc = "chain", !.walk.frontier = <<f>>, !.walk.seen = {f}]
      PROVE  WellFormed(p) /\ Sure(Imported, Ahead, Holders, p)
  <2>1. /\ p \in Reveal /\ p.pc = "chain" /\ p.start = f /\ p.found = NoFolder /\ p.out = <<>>
        /\ p.walk \in Walk /\ p.walk.frontier = <<f>> /\ p.walk.next = <<>>
        /\ p.walk.seen = {f} /\ p.walk.depth = 0
    <3>1. p = [o EXCEPT !.pc = "chain", !.walk.frontier = <<f>>, !.walk.seen = {f}] => BegunWalk(p, f)
      BY <1>1, BegunReveal
    <3> QED
      BY <1>6, <3>1 DEF BegunWalk
  <2>2. f \notin Holders /\ NoFolder \notin Folders
    BY <1>6, FolderAssumption DEF Holders
  <2>3. Range(<<>>) = {} /\ Range(<<f>>) = {f} /\ <<f>> # <<>> /\ DOMAIN <<>> = {}
    BY DEF Range
  <2>4. Chained(L, Imported, Ahead[f], f, p.walk, p.out)
    <3>1. Ordered(L, Ahead[f], p.out)
      BY <2>1, <2>3 DEF Ordered
    <3>2. p.walk.depth < MaxDepth
      BY <1>4, <2>1
    <3>3. L[p.walk.depth] = {f}
      BY <1>3, <2>1
    <3> QED
      BY <2>1, <2>3, <3>1, <3>2, <3>3 DEF Chained
  <2> QED
    BY <1>1, <2>1, <2>2, <2>3, <2>4 DEF WellFormed, Sure, SureOf
<1>7. \E p : Go(r, p) /\ WellFormed(p) /\ Sure(Imported, Ahead, Holders, p)
  BY <1>1, <1>5, <1>6 DEF StartReveal
<1> QED
  BY <1>7, OneRead

\* Reading one folder of the chain keeps it.
LEMMA FollowStep ==
  ASSUME RevealsInv, NEW r \in Readers, Follow(r), UNCHANGED <<importVars, value, grant>>
  PROVE  RevealsInv'
<1>1. PICK o, w, s : o = read[r] /\ w = o.walk /\ s = o.start
  OBVIOUS
<1>2. PICK v, all, L : /\ v = Visited(w) /\ all = o.out \o Listed(Head(w.frontier), w.seen)
                       /\ L = Reach(Imported, s)
  OBVIOUS
<1>3. /\ o \in Reveal /\ WellFormed(o) /\ Sure(Imported, Ahead, Holders, o) /\ Rowed /\ w \in Walk
      /\ o.out \in Seq(Folders)
  BY <1>1, ReadGives
<1>4. o.pc = "chain" /\ w.frontier # <<>> /\ s \in Folders /\ o.found \notin Folders
  BY <1>1, <1>3 DEF Follow, WellFormed
<1>5. v \in Walk /\ all \in Seq(Folders)
  <2>1. v \in Walk
    BY <1>2, <1>3, <1>4, VisitedIs DEF IsVisited
  <2>2. Listed(Head(w.frontier), w.seen) \in Seq(Folders)
    BY <1>3, ListedIs
  <2> QED
    BY <1>2, <1>3, <2>1, <2>2
<1>6. o.steady => s \notin Holders /\ Chained(L, Imported, Ahead[s], s, w, o.out)
  BY <1>1, <1>2, <1>3, <1>4 DEF Sure, SureOf
<1>7. PICK out \in Seq(Folders) : out = o.out
  BY <1>3
<1>8. o.steady =>
         /\ Ordered(L, Ahead[s], all)
         /\ v.frontier # <<>> /\ v.depth < MaxDepth => Chained(L, Imported, Ahead[s], s, v, all)
         /\ ~(v.frontier # <<>> /\ v.depth < MaxDepth) => L[MaxDepth] = {s} \cup Range(all)
  <2> SUFFICES ASSUME o.steady
               PROVE  /\ Ordered(L, Ahead[s], all)
                      /\ v.frontier # <<>>
                         /\ v.depth < MaxDepth => Chained(L, Imported, Ahead[s], s, v, all)
                      /\ ~(v.frontier # <<>> /\ v.depth < MaxDepth) => L[MaxDepth] = {s} \cup Range(all)
    OBVIOUS
  <2>1. Chained(L, Imported, Ahead[s], s, w, out)
    BY <1>6, <1>7
  <2>2. all = out \o Listed(Head(w.frontier), w.seen)
    BY <1>2, <1>7
  <2>3. IsFollowed(L, Imported, Ahead[s], s, v, all)
    BY <1>2, <1>3, <1>4, <2>1, <2>2, FollowOn
  <2> QED
    BY <2>3 DEF IsFollowed
<1>9. v.depth \in Nat /\ MaxDepth \in Nat
  BY <1>5, DepthAssumption DEF Walk
<1>10. CASE v.frontier = <<>> \/ v.depth >= MaxDepth
  <2>1. PICK pc \in Pcs : pc = IF all = <<>> THEN "missing" ELSE "probe"
    BY DEF Pcs
  <2>2. PICK idle \in Walk : idle = NoWalk
    BY NoWalkHolds
  <2>3. PICK p : p = [o EXCEPT !.pc = pc, !.walk = idle, !.out = all]
    OBVIOUS
  <2>4. Go(r, p)
    BY <1>1, <1>2, <1>10, <2>1, <2>2, <2>3 DEF Follow
  <2>5. IsLooking(p, o, pc, idle, all, o.found)
    BY <1>3, <1>5, <2>3, PcWalkOutPut
  <2>6. /\ p \in Reveal /\ p.pc = pc /\ p.start = s /\ p.out = all /\ p.found = o.found
        /\ p.steady = o.steady
    BY <1>1, <2>5 DEF IsLooking
  <2>7. WellFormed(p)
    BY <1>4, <2>1, <2>6 DEF WellFormed
  <2>8. Sure(Imported, Ahead, Holders, p)
    <3> SUFFICES ASSUME p.steady PROVE SureOf(L, Imported, Ahead[s], Holders, p)
      BY <1>2, <2>6 DEF Sure
    <3>1. /\ Ordered(L, Ahead[s], all) /\ s \notin Holders /\ L[MaxDepth] = {s} \cup Range(all)
      BY <1>6, <1>8, <1>9, <1>10, <2>6
    <3>2. CASE all = <<>>
      <4>1. Range(all) = {}
        BY <3>2 DEF Range
      <4>2. p.pc = "missing" /\ L[MaxDepth] \cap Holders = {}
        BY <2>1, <2>6, <3>1, <3>2, <4>1
      <4> QED
        BY <1>4, <2>6, <4>2 DEF SureOf
    <3>3. CASE all # <<>>
      <4>1. p.pc = "probe" /\ Probing(L, Ahead[s], Holders, s, all)
        BY <2>1, <2>6, <3>1, <3>3 DEF Probing
      <4> QED
        BY <1>4, <2>6, <4>1 DEF SureOf
    <3> QED
      BY <3>2, <3>3
  <2> QED
    BY <2>4, <2>7, <2>8, OneRead
<1>11. CASE ~(v.frontier = <<>> \/ v.depth >= MaxDepth)
  <2>1. PICK p : p = [o EXCEPT !.walk = v, !.out = all]
    OBVIOUS
  <2>2. Go(r, p)
    BY <1>1, <1>2, <1>11, <2>1 DEF Follow
  <2>3. IsLooking(p, o, o.pc, v, all, o.found)
    BY <1>3, <1>5, <2>1, WalkOutPut
  <2>4. /\ p \in Reveal /\ p.pc = "chain" /\ p.start = s /\ p.walk = v /\ p.out = all
        /\ p.found = o.found /\ p.steady = o.steady
    BY <1>1, <1>4, <2>3 DEF IsLooking
  <2>5. v.frontier # <<>> /\ v.depth < MaxDepth
    BY <1>9, <1>11
  <2>6. WellFormed(p)
    BY <1>4, <2>4, <2>5 DEF WellFormed
  <2>7. Sure(Imported, Ahead, Holders, p)
    BY <1>2, <1>4, <1>6, <1>8, <2>4, <2>5 DEF Sure, SureOf
  <2> QED
    BY <2>2, <2>6, <2>7, OneRead
<1> QED
  BY <1>10, <1>11

\* Looking one folder of the chain up keeps it: the first that holds the secret is a nearest.
LEMMA ProbeStep ==
  ASSUME RevealsInv, NEW r \in Readers, Probe(r), UNCHANGED <<importVars, value, grant>>
  PROVE  RevealsInv'
<1>1. PICK o, s : o = read[r] /\ s = o.start
  OBVIOUS
<1>2. PICK f, L : f = Head(o.out) /\ L = Reach(Imported, s)
  OBVIOUS
<1>3. /\ o \in Reveal /\ WellFormed(o) /\ Sure(Imported, Ahead, Holders, o) /\ Rowed
      /\ o.out \in Seq(Folders)
  BY <1>1, ReadGives
<1>4. o.pc = "probe" /\ o.out # <<>> /\ s \in Folders /\ o.found \notin Folders
  BY <1>1, <1>3 DEF Probe, WellFormed
<1>5. PICK out \in Seq(Folders) : out = o.out /\ out # <<>> /\ f = Head(out)
  BY <1>2, <1>3, <1>4
<1>6. f \in Folders /\ Tail(out) \in Seq(Folders) /\ (Len(out) # 1 => Tail(out) # <<>>)
  BY <1>5, Frontier
<1>7. f \in Holders <=> HoldsSecret(f)
  BY <1>6 DEF Holders
<1>8. ASSUME o.steady
      PROVE  /\ f \in Holders => Landed(L, Imported, Ahead[s], Holders, s, f)
             /\ f \notin Holders => Probing(L, Ahead[s], Holders, s, Tail(out))
             /\ f \notin Holders /\ Len(out) = 1 => L[MaxDepth] \cap Holders = {}
  <2>1. IsReach(Imported, s, L)
    BY <1>2, <1>3, <1>4, ReachIs
  <2>2. PICK G, P, H : G = Imported /\ P = Ahead[s] /\ H = Holders
    OBVIOUS
  <2>3. Probing(L, P, H, s, out)
    BY <1>1, <1>2, <1>3, <1>4, <1>5, <1>8, <2>2 DEF Sure, SureOf
  <2>4. IsReach(G, s, L)
    BY <2>1, <2>2
  <2>5. /\ f \in H => Landed(L, G, P, H, s, f)
        /\ f \notin H => Probing(L, P, H, s, Tail(out))
        /\ f \notin H /\ Len(out) = 1 => L[MaxDepth] \cap H = {}
    BY <1>5, <2>3, <2>4, ProbeOn
  <2> QED
    BY <2>2, <2>5
<1>9. PICK get \in Pcs, missing \in Pcs, empty \in Seq(Folders) :
        get = "get" /\ missing = "missing" /\ empty = <<>>
  <2>1. "get" \in Pcs /\ "missing" \in Pcs /\ <<>> \in Seq(Folders)
    BY DEF Pcs
  <2> QED
    BY <2>1, Zenon
<1>10. CASE HoldsSecret(f)
  <2>1. PICK p : p = [o EXCEPT !.pc = get, !.out = empty, !.found = f]
    OBVIOUS
  <2>2. Go(r, p)
    BY <1>1, <1>2, <1>9, <1>10, <2>1 DEF Probe
  <2>3. IsLooking(p, o, get, o.walk, empty, f)
    BY <1>3, <1>6, <2>1, PcOutFoundPut
  <2>4. p \in Reveal /\ p.pc = "get" /\ p.start = s /\ p.found = f /\ p.steady = o.steady
    BY <1>1, <1>9, <2>3 DEF IsLooking
  <2>5. WellFormed(p)
    BY <1>4, <1>6, <2>4 DEF WellFormed
  <2>6. Sure(Imported, Ahead, Holders, p)
    BY <1>2, <1>7, <1>8, <1>10, <2>4 DEF Sure, SureOf
  <2> QED
    BY <2>2, <2>5, <2>6, OneRead
<1>11. CASE ~HoldsSecret(f) /\ Len(out) = 1
  <2>1. PICK p : p = [o EXCEPT !.pc = missing, !.out = empty]
    OBVIOUS
  <2>2. Go(r, p)
    BY <1>1, <1>2, <1>5, <1>9, <1>11, <2>1 DEF Probe
  <2>3. IsLooking(p, o, missing, o.walk, empty, o.found)
    BY <1>3, <2>1, PcOutPut
  <2>4. p \in Reveal /\ p.pc = "missing" /\ p.start = s /\ p.found = o.found /\ p.steady = o.steady
    BY <1>1, <1>9, <2>3 DEF IsLooking
  <2>5. WellFormed(p)
    BY <1>4, <2>4 DEF WellFormed
  <2>6. Sure(Imported, Ahead, Holders, p)
    BY <1>2, <1>4, <1>7, <1>8, <1>11, <2>4 DEF Sure, SureOf
  <2> QED
    BY <2>2, <2>5, <2>6, OneRead
<1>12. CASE ~HoldsSecret(f) /\ Len(out) # 1
  <2>1. PICK p : p = [o EXCEPT !.out = Tail(out)]
    OBVIOUS
  <2>2. Go(r, p)
    BY <1>1, <1>2, <1>5, <1>12, <2>1 DEF Probe
  <2>3. IsLooking(p, o, o.pc, o.walk, Tail(out), o.found)
    BY <1>3, <1>6, <2>1, OutPut
  <2>4. /\ p \in Reveal /\ p.pc = "probe" /\ p.start = s /\ p.out = Tail(out) /\ p.found = o.found
        /\ p.steady = o.steady
    BY <1>1, <1>4, <2>3 DEF IsLooking
  <2>5. WellFormed(p)
    BY <1>4, <1>6, <1>12, <2>4 DEF WellFormed
  <2>6. Sure(Imported, Ahead, Holders, p)
    BY <1>2, <1>4, <1>7, <1>8, <1>12, <2>4 DEF Sure, SureOf
  <2> QED
    BY <2>2, <2>5, <2>6, OneRead
<1> QED
  BY <1>10, <1>11, <1>12

\* What is decrypted after a secret was found leaves the lookup alone.
LEMMA Expands ==
  ASSUME RevealsInv, UNCHANGED <<importVars, value, grant>>, NEW r \in Readers,
         NEW o, o = read[r], o.found \in Folders, NEW p, NEW pc, NEW todo,
         IsExpanding(p, o, pc, todo),
         pc \in {"expand", "audit", "returned"}, pc = "expand" => todo # <<>>, Go(r, p)
  PROVE  RevealsInv'
<1>1. WellFormed(o) /\ Sure(Imported, Ahead, Holders, o)
  BY ReadGives
<1>2. /\ p \in Reveal /\ p.pc = pc /\ p.start = o.start /\ p.found = o.found /\ p.todo = todo
      /\ p.steady = o.steady
  BY DEF IsExpanding
<1>3. WellFormed(p)
  BY <1>1, <1>2 DEF WellFormed
<1>4. Sure(Imported, Ahead, Holders, p)
  BY <1>1, <1>2 DEF Sure, SureOf
<1> QED
  BY <1>3, <1>4, OneRead

\* What a secret refers to, to be expanded.
LEMMA HopsAre ==
  ASSUME value \in [Folders -> Templates \cup {Absent}], NEW f \in Folders, HoldsSecret(f),
         NEW chain \in Seq(Folders)
  PROVE  Hops(f, chain) \in Todo
<1>1. PICK t : t = value[f]
  OBVIOUS
<1>2. t \in Seq(Folders)
  BY <1>1, TemplateAssumption DEF HoldsSecret
<1>3. PICK c \in Seq(Folders) : c = Append(chain, f)
  <2>1. Append(chain, f) \in Seq(Folders)
    OBVIOUS
  <2> QED
    BY <2>1, Zenon
<1>4. Hops(f, chain) = [k \in DOMAIN t |-> [to |-> t[k], chain |-> c]]
  BY <1>1, <1>3 DEF Hops
<1>5. PICK n \in Nat : DOMAIN t = 1..n /\ \A k \in 1..n : t[k] \in Folders
  BY <1>2
<1>6. [k \in 1..n |-> [to |-> t[k], chain |-> c]] \in [1..n -> [to : Folders, chain : Seq(Folders)]]
  BY <1>5
<1> QED
  <2>1. PICK S, h : S = [to : Folders, chain : Seq(Folders)] /\ h = Hops(f, chain)
    OBVIOUS
  <2>2. h \in [1..n -> S]
    BY <1>4, <1>5, <1>6, <2>1
  <2>3. h \in Seq(S)
    BY <2>2
  <2> QED
    BY <2>1, <2>3 DEF Todo

\* Reading the secret keeps it.
LEMMA GetStep ==
  ASSUME RevealsInv, NEW r \in Readers, Get(r), UNCHANGED <<importVars, value, grant>>
  PROVE  RevealsInv'
<1>1. PICK o, f, todo : o = read[r] /\ f = o.found /\ todo = Hops(f, <<>>)
  OBVIOUS
<1>2. o \in Reveal /\ WellFormed(o) /\ o.pc = "get" /\ f \in Folders /\ HoldsSecret(f)
  BY <1>1, ReadGives DEF Get, WellFormed
<1>3. todo \in Todo
  <2>1. PICK chain \in Seq(Folders) : chain = <<>>
    <3>1. <<>> \in Seq(Folders)
      OBVIOUS
    <3> QED
      BY <3>1, Zenon
  <2>2. Hops(f, chain) \in Todo
    BY <1>2, HopsAre DEF RevealsInv
  <2> QED
    BY <1>1, <2>1, <2>2
<1>4. PICK pc \in Pcs : pc = IF todo = <<>> THEN "audit" ELSE "expand"
  BY DEF Pcs
<1>5. PICK got \in SUBSET Folders : got = {f}
  BY <1>2
<1>6. PICK p : p = [o EXCEPT !.pc = pc, !.todo = todo, !.got = got]
  OBVIOUS
<1>7. Go(r, p)
  BY <1>1, <1>4, <1>5, <1>6 DEF Get
<1>8. IsExpanding(p, o, pc, todo)
  BY <1>2, <1>3, <1>6, GetPut
<1>9. pc \in {"expand", "audit", "returned"} /\ (pc = "expand" => todo # <<>>)
  BY <1>4
<1> QED
  BY <1>1, <1>2, <1>7, <1>8, <1>9, Expands

\* Expanding one reference keeps it.
LEMMA HopStep ==
  ASSUME RevealsInv, NEW r \in Readers, Hop(r), UNCHANGED <<importVars, value, grant>>
  PROVE  RevealsInv'
<1>1. PICK o, hop : o = read[r] /\ hop = Head(o.todo)
  OBVIOUS
<1>2. PICK todo : todo = Hops(hop.to, hop.chain) \o Tail(o.todo)
  OBVIOUS
<1>3. o \in Reveal /\ WellFormed(o) /\ o.pc = "expand" /\ o.todo # <<>> /\ HoldsSecret(hop.to)
      /\ o.found \in Folders
  BY <1>1, ReadGives DEF Hop, WellFormed
<1>4. PICK left \in Todo : left = o.todo /\ left # <<>>
  BY <1>3, RevealIs
<1>5. hop.to \in Folders /\ hop.chain \in Seq(Folders) /\ Tail(left) \in Todo
  <2>1. Head(left) \in [to : Folders, chain : Seq(Folders)] /\ Tail(left) \in Todo
    <3>1. PICK S : S = [to : Folders, chain : Seq(Folders)]
      OBVIOUS
    <3>2. left \in Seq(S) /\ left # <<>>
      BY <1>4, <3>1 DEF Todo
    <3>3. Head(left) \in S /\ Tail(left) \in Seq(S)
      BY <3>2
    <3> QED
      BY <3>1, <3>3 DEF Todo
  <2> QED
    BY <1>1, <1>4, <2>1
<1>6. todo \in Todo
  <2>1. PICK to \in Folders, chain \in Seq(Folders) : to = hop.to /\ chain = hop.chain
    BY <1>5
  <2>2. Hops(to, chain) \in Todo
    BY <1>3, <2>1, HopsAre DEF RevealsInv
  <2>3. todo = Hops(to, chain) \o Tail(left)
    BY <1>2, <1>4, <2>1
  <2> QED
    BY <1>5, <2>2, <2>3 DEF Todo
<1>7. PICK pc \in Pcs : pc = IF todo = <<>> THEN "audit" ELSE "expand"
  BY DEF Pcs
<1>8. PICK got \in SUBSET Folders, audited \in SUBSET Folders :
         got = o.got \cup {hop.to} /\ audited = o.audited \cup {hop.to}
  <2>1. o.got \in SUBSET Folders /\ o.audited \in SUBSET Folders
    BY <1>3, RevealIs
  <2> QED
    BY <1>5, <2>1
<1>9. PICK p : p = [o EXCEPT !.pc = pc, !.todo = todo, !.got = got, !.audited = audited]
  OBVIOUS
<1>10. Go(r, p)
  BY <1>1, <1>2, <1>7, <1>8, <1>9 DEF Hop
<1>11. IsExpanding(p, o, pc, todo)
  BY <1>3, <1>6, <1>9, HopPut
<1>12. pc \in {"expand", "audit", "returned"} /\ (pc = "expand" => todo # <<>>)
  BY <1>7
<1> QED
  BY <1>1, <1>3, <1>10, <1>11, <1>12, Expands

\* Logging the read keeps it.
LEMMA AuditStep ==
  ASSUME RevealsInv, NEW r \in Readers, Audit(r), UNCHANGED <<importVars, value, grant>>
  PROVE  RevealsInv'
<1>1. PICK o : o = read[r]
  OBVIOUS
<1>2. o \in Reveal /\ WellFormed(o) /\ o.pc = "audit" /\ o.found \in Folders
  BY <1>1, ReadGives DEF Audit, WellFormed
<1>3. PICK pc \in Pcs : pc = "returned"
  BY DEF Pcs
<1>4. PICK audited \in SUBSET Folders : audited = o.audited \cup {o.found}
  <2>1. o.audited \in SUBSET Folders
    BY <1>2, RevealIs
  <2> QED
    BY <1>2, <2>1
<1>5. PICK p : p = [o EXCEPT !.pc = pc, !.audited = audited]
  OBVIOUS
<1>6. Go(r, p)
  BY <1>1, <1>3, <1>4, <1>5 DEF Audit
<1>7. IsExpanding(p, o, pc, o.todo)
  BY <1>2, <1>5, AuditPut
<1>8. pc \in {"expand", "audit", "returned"} /\ (pc = "expand" => o.todo # <<>>)
  BY <1>3
<1> QED
  BY <1>1, <1>2, <1>6, <1>7, <1>8, Expands

\* Ending the reveal keeps it.
LEMMA FinishStep ==
  ASSUME RevealsInv, NEW r \in Readers, Finish(r), UNCHANGED <<importVars, value, grant>>
  PROVE  RevealsInv'
<1>1. PICK p : p = NoRead
  OBVIOUS
<1>2. p \in Reveal /\ p.pc = "idle" /\ p.found \notin Folders
  BY <1>1, AskedIs, FolderAssumption
<1>3. WellFormed(p) /\ Sure(Imported, Ahead, Holders, p)
  BY <1>2 DEF WellFormed, Sure, SureOf
<1> QED
  BY <1>1, <1>3, OneRead DEF Finish

\* Writing a secret keeps it: no reveal under way is steady any more.
LEMMA SetSecretStep ==
  ASSUME RevealsInv, NEW f \in Folders, NEW t \in Templates \cup {Absent}, SetSecret(f, t)
  PROVE  RevealsInv'
<1>1. /\ f \in live /\ value' = [value EXCEPT ![f] = t] /\ read' = Unsteady /\ grant' = grant
      /\ UNCHANGED importVars /\ live' = live
  BY DEF SetSecret, importVars
<1>2. value \in [Folders -> Templates \cup {Absent}] /\ \A g \in Folders \ live : value[g] = Absent
  BY DEF RevealsInv
<1>3. value' \in [Folders -> Templates \cup {Absent}]
      /\ \A g \in Folders \ live' : value'[g] = Absent
  BY <1>1, <1>2
<1>4. ImportsInv'
  BY <1>1, ImportsStep DEF RevealsInv
<1> QED
  BY <1>1, <1>3, <1>4, WorldChanges

\* Changing the imports keeps it, for the same reason.
LEMMA ImportStepKeeps ==
  ASSUME RevealsInv, ImportStep
  PROVE  RevealsInv'
<1>1. /\ value' = [f \in Folders |-> IF f \in live' THEN value[f] ELSE Absent] /\ grant' = grant
      /\ read' = IF live' = live /\ edges' = edges THEN read ELSE Unsteady
  BY DEF ImportStep
<1>2. ImportsInv'
  BY ImportsStep DEF RevealsInv, ImportStep
<1>3. value \in [Folders -> Templates \cup {Absent}] /\ \A g \in Folders \ live : value[g] = Absent
  BY DEF RevealsInv
<1>4. value' \in [Folders -> Templates \cup {Absent}]
      /\ \A g \in Folders \ live' : value'[g] = Absent
  BY <1>1, <1>3
<1>5. CASE live' = live /\ edges' = edges
  <2>1. value' = value /\ read' = read
    BY <1>1, <1>3, <1>5
  <2>2. Imported' = Imported /\ Ahead' = Ahead /\ Holders' = Holders
    BY <1>5, <2>1, SameWorld
  <2>3. \A r \in Readers : WellFormed(read'[r]) /\ Sure(Imported', Ahead', Holders', read'[r])
    BY <2>1, <2>2 DEF RevealsInv
  <2> QED
    BY <1>1, <1>2, <1>4, <2>1, <2>3 DEF RevealsInv
<1>6. CASE ~(live' = live /\ edges' = edges)
  BY <1>1, <1>2, <1>4, <1>6, WorldChanges
<1> QED
  BY <1>5, <1>6

\* Every step of the reveals and of what they read keeps the invariant.
LEMMA RevealsStep == RevealsInv /\ [RevealsNext]_revealVars => RevealsInv'
<1> SUFFICES ASSUME RevealsInv, [RevealsNext]_revealVars PROVE RevealsInv'
  OBVIOUS
<1>1. ASSUME NEW r \in Readers, Begins(r) PROVE RevealsInv'
  <2>1. PICK f \in Folders : StartReveal(r, f)
    BY <1>1 DEF Begins
  <2>2. UNCHANGED <<importVars, value, grant>>
    BY <1>1 DEF Begins
  <2> QED
    BY <2>1, <2>2, StartStep
<1>2. ASSUME NEW r \in Readers, RevealStep(r) PROVE RevealsInv'
  <2>1. UNCHANGED <<importVars, value, grant>>
    BY <1>2 DEF RevealStep
  <2> QED
    BY <1>2, <2>1, FollowStep, ProbeStep, GetStep, HopStep, AuditStep, FinishStep DEF RevealStep,
       Resolving
<1>3. ASSUME NEW f \in Folders, NEW t \in Templates \cup {Absent}, SetSecret(f, t) PROVE RevealsInv'
  BY <1>3, SetSecretStep
<1>4. ASSUME ImportStep PROVE RevealsInv'
  BY <1>4, ImportStepKeeps
<1>5. ASSUME UNCHANGED revealVars PROVE RevealsInv'
  <2>1. UNCHANGED importVars /\ value' = value /\ grant' = grant /\ read' = read /\ live' = live
        /\ edges' = edges
    BY <1>5 DEF revealVars, importVars
  <2>2. ImportsInv'
    BY <2>1, ImportsStep DEF RevealsInv
  <2>3. Imported' = Imported /\ Ahead' = Ahead /\ Holders' = Holders
    BY <2>1, SameWorld
  <2>4. \A r \in Readers : WellFormed(read'[r]) /\ Sure(Imported', Ahead', Holders', read'[r])
    BY <2>1, <2>3 DEF RevealsInv
  <2> QED
    BY <2>1, <2>2, <2>4 DEF RevealsInv
<1> QED
  BY <1>1, <1>2, <1>3, <1>4, <1>5 DEF RevealsNext

\* Imports of any shape were made before, and no reveal is under way.
LEMMA RevealsInitHolds == RevealsInit => RevealsInv
<1> SUFFICES ASSUME RevealsInit PROVE RevealsInv
  OBVIOUS
<1>1. PICK n \in 0..MaxEdges : edges \in [1..n -> Edge]
  BY DEF RevealsInit
<1>2. n \in Nat /\ n <= MaxEdges
  BY EdgeAssumption
<1>3. edges \in Seq(Edge) /\ Len(edges) = n
  BY <1>1, <1>2
<1>4. /\ live = Folders /\ routes = {"race", "enable"} /\ walk = [c \in Creators |-> NoWalk]
      /\ \A i, j \in DOMAIN edges :
           i # j => edges[i].folder # edges[j].folder \/ edges[i].source # edges[j].source
      /\ value \in [Folders -> Templates \cup {Absent}] /\ grant \in [Readers -> Grants]
      /\ read = [r \in Readers |-> NoRead]
  BY DEF RevealsInit
<1>5. ImportsInv
  <2>1. \A c \in Creators : walk[c] \in Walk /\ WalkHolds(Imported, routes, walk[c])
    BY <1>4, NoWalkHolds
  <2>2. ImportsTypeOK
    BY <1>2, <1>3, <1>4, <2>1 DEF ImportsTypeOK
  <2>3. routes # {}
    BY <1>4
  <2> QED
    BY <2>1, <2>2, <2>3 DEF ImportsInv
<1>6. ASSUME NEW r \in Readers
      PROVE  read[r] \in Reveal /\ WellFormed(read[r]) /\ Sure(Imported, Ahead, Holders, read[r])
  <2>1. PICK p : p = NoRead
    OBVIOUS
  <2>2. p \in Reveal /\ p.pc = "idle" /\ p.found \notin Folders
    BY <2>1, AskedIs, FolderAssumption
  <2>3. WellFormed(p) /\ Sure(Imported, Ahead, Holders, p)
    BY <2>2 DEF WellFormed, Sure, SureOf
  <2> QED
    BY <1>4, <2>1, <2>2, <2>3
<1>7. read \in [Readers -> Reveal]
  BY <1>4, <1>6
<1> QED
  BY <1>4, <1>5, <1>6, <1>7 DEF RevealsInv

\* The invariant is about the levels of the model, and its order about the rows.
LEMMA RevealsInvMeans == RevealsInv => NearestHolderWins
<1> SUFFICES ASSUME RevealsInv, NEW r \in Readers, read[r].pc # "idle", read[r].steady
             PROVE  LET o == read[r]
                        f == o.found
                        direct == {i \in DOMAIN edges : edges[i].folder = o.start /\ Followed(i)
                                                        /\ HoldsSecret(edges[i].source)}
                        near(n) == {g \in Within(o.start, n) : HoldsSecret(g)}
                    IN  /\ f # NoFolder =>
                             /\ \E n \in 0..MaxDepth : f \in near(n)
                                /\ \A k \in 0..(n - 1) : near(k) = {}
                             /\ ~HoldsSecret(o.start) /\ direct # {} =>
                                  \E i \in direct : /\ edges[i].source = f
                                                    /\ \A j \in direct : edges[i].position <= edges[j].position
                        /\ o.pc = "missing" => near(MaxDepth) = {}
  BY DEF NearestHolderWins
<1>1. PICK o, s, f : o = read[r] /\ s = o.start /\ f = o.found
  OBVIOUS
<1>2. PICK L : L = Reach(Imported, s)
  OBVIOUS
<1>3. /\ o \in Reveal /\ WellFormed(o) /\ Sure(Imported, Ahead, Holders, o) /\ Rowed
      /\ s \in Folders /\ o.pc # "idle" /\ o.steady /\ f \in Folders \cup {NoFolder}
  BY <1>1, ReadGives, RevealIs DEF WellFormed
<1>4. SureOf(L, Imported, Ahead[s], Holders, o)
  BY <1>1, <1>2, <1>3 DEF Sure
<1>5. \A n \in Nat : L[n] = Within(s, n) /\ L[n] \subseteq Folders
  BY <1>2, <1>3, ReachIs
<1> DEFINE near(n) == {g \in Within(s, n) : HoldsSecret(g)}
           direct == {i \in DOMAIN edges : edges[i].folder = s /\ Followed(i)
                                           /\ HoldsSecret(edges[i].source)}
<1>6. \A n \in Nat : near(n) = L[n] \cap Holders
  BY <1>5 DEF Holders
<1>7. MaxDepth \in Nat
  BY DepthAssumption
<1>8. ASSUME f # NoFolder
      PROVE  /\ \E n \in 0..MaxDepth : f \in near(n) /\ \A k \in 0..(n - 1) : near(k) = {}
             /\ ~HoldsSecret(s) /\ direct # {} =>
                  \E i \in direct : /\ edges[i].source = f
                                    /\ \A j \in direct : edges[i].position <= edges[j].position
  <2>1. Landed(L, Imported, Ahead[s], Holders, s, f)
    BY <1>1, <1>3, <1>4, <1>8 DEF SureOf
  <2>2. \E n \in 0..MaxDepth : f \in near(n) /\ \A k \in 0..(n - 1) : near(k) = {}
    <3>1. PICK n \in 0..MaxDepth : f \in L[n] \cap Holders
          /\ \A k \in 0..(n - 1) : L[k] \cap Holders = {}
      BY <2>1 DEF Landed
    <3>2. n \in Nat /\ \A k \in 0..(n - 1) : k \in Nat
      BY <1>7
    <3> HIDE DEF near
    <3>3. f \in near(n) /\ \A k \in 0..(n - 1) : near(k) = {}
      BY <1>6, <3>1, <3>2
    <3> QED
      BY <3>3
  <2>3. ASSUME ~HoldsSecret(s), direct # {}
        PROVE  \E i \in direct : /\ edges[i].source = f
                                 /\ \A j \in direct : edges[i].position <= edges[j].position
    <3>1. \A j \in direct : j \in ImportsOf(s) /\ edges[j].source \in Imported[s] \cap Holders
      BY <1>3, RowIs DEF Rowed, ImportsOf, Imported, Sources, Holders
    <3>2. s \notin Holders /\ Imported[s] \cap Holders # {}
      BY <2>3, <3>1 DEF Holders
    <3>3. f \in Imported[s] /\ f \in Holders
          /\ \A b \in (Imported[s] \cap Holders) \ {f} : <<b, f>> \notin Ahead[s]
      BY <2>1, <3>2 DEF Landed
    <3>4. PICK i \in ImportsOf(s) : edges[i].source = f
      BY <1>3, <3>3 DEF Imported, Sources
    <3>5. i \in direct
      BY <3>3, <3>4 DEF ImportsOf, Holders
    <3>6. ASSUME NEW j \in direct
          PROVE  edges[i].position <= edges[j].position
      <4>1. edges[i].position \in Nat /\ edges[j].position \in Nat /\ edges[j].source \in Folders
            /\ f \in Folders
        BY <1>3, <3>4, <3>5, RowIs DEF Rowed
      <4>2. CASE edges[j].source = f
        <5>1. i = j
          BY <1>3, <3>4, <3>5, <4>2 DEF Rowed
        <5> QED
          BY <4>1, <5>1
      <4>3. CASE edges[j].source # f
        <5>1. <<edges[j].source, f>> \notin Ahead[s]
          BY <3>1, <3>3, <4>3
        <5>2. ~(edges[j].position < edges[i].position)
          BY <1>3, <3>1, <3>4, <4>1, <5>1 DEF Ahead
        <5> QED
          BY <4>1, <5>2
      <4> QED
        BY <4>2, <4>3
    <3> QED
      BY <3>4, <3>5, <3>6
  <2> QED
    BY <2>2, <2>3
<1>9. ASSUME o.pc = "missing" PROVE near(MaxDepth) = {}
  BY <1>4, <1>6, <1>7, <1>9 DEF SureOf
<1> QED
  BY <1>1, <1>8, <1>9

\* The inductive invariant of the reveals.
THEOREM RevealsInvariance == RevealsSpec => []RevealsInv
BY RevealsInitHolds, RevealsStep, PTL DEF RevealsSpec

\* Every variable of the reveals has its type.
THEOREM RevealsTypeCorrect == RevealsSpec => []RevealsTypeOK
<1>1. RevealsInv => RevealsTypeOK
  BY DEF RevealsInv, RevealsTypeOK, ImportsInv
<1> QED
  BY <1>1, RevealsInvariance, PTL

\* While nothing changes, a lookup lands on the nearest holder of the key.
THEOREM NearestWins == RevealsSpec => []NearestHolderWins
BY RevealsInvMeans, RevealsInvariance, PTL

=============================================================================
