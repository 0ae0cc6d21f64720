----------------------------- MODULE ReadLeases -----------------------------
(***************************************************************************)
(* Read leases on one static secret: internal/store/leases.go, the         *)
(* decision table of internal/lease/lease.go and the SQL of                *)
(* secret_lease.sql.                                                       *)
(*                                                                         *)
(* A reveal of a governed secret is four steps: it reads the policy off    *)
(* the secret's row outside any transaction; its transaction begins and    *)
(* looks for the requester's live lease; it waits for that row's lock,     *)
(* decides, writes and commits; and the value is decrypted afterwards.     *)
(* Nothing another transaction can see happens between the row lock and    *)
(* the commit, so those are one action.  The decision uses the clock of    *)
(* the process, the UPDATE that consumes a read the database's clock as it *)
(* was when the transaction began: Postgres' now().                        *)
(***************************************************************************)
EXTENDS Integers, FiniteSets

CONSTANTS
  Clients,    \* concurrent reveals
  Requesters, \* authenticated principals
  None,       \* no principal
  Skew,       \* the clock of a client's process minus the database's clock
  Policies,   \* policies an operator may set: [ttl, reads]; reads = 0 is no cap
  Expiries,   \* the secret's expires_at; 0 is none
  MaxLeases,  \* bound: rows of secret_leases
  MaxNow      \* bound: the database's clock

NoPolicy == [ttl |-> 0, reads |-> 0]

ASSUME PolicyAssumption == Policies \subseteq [ttl : Nat \ {0}, reads : Nat] /\ Expiries \subseteq Nat
ASSUME ClientAssumption ==
  IsFiniteSet(Clients) /\ None \notin Requesters /\ Skew \in [Clients -> Int]
ASSUME BoundAssumption == MaxLeases \in Nat /\ MaxNow \in Nat

VARIABLES
  policy,   \* the lease columns of the secret's row
  expiry,   \* its expires_at
  deleted,  \* whether it is soft-deleted
  leases,   \* the rows of secret_leases, by lease_id
  op,       \* the reveal each client is in the middle of
  served,   \* values decrypted so far under each lease
  now       \* the database's clock

vars == <<policy, expiry, deleted, leases, op, served, now>>

Ids == 1..MaxLeases

\* revoke_reason; a live lease has none.
Reasons == {"", "expired", "explicit", "policy"}

\* issued is the clock of the
\* process that issued it.
Lease == [requester : Requesters, issued : Int, expires : Int, reads : Nat, used : Nat,
          revoked : Reasons]

\* who is the principal until the decision is made; found is the lease the locking read saw,
\* 0 for none, or the lease the read was granted under; started is the database's now() of
\* the transaction; why is the refusal, "raced" when the consuming UPDATE matched no row.
Op == [pc : {"idle", "policy", "select", "granted", "refused"},
       who : Requesters \cup {None}, policy : Policies \cup {NoPolicy}, found : {0} \cup Ids, started : Nat,
       why : {"", "cap", "raced", "dead", "conflict"}]

Idle == [pc |-> "idle", who |-> None, policy |-> NoPolicy, found |-> 0, started |-> 0, why |-> ""]

Rows == DOMAIN leases
Live(q) == {l \in Rows : leases[l].requester = q /\ leases[l].revoked = ""}
LiveLeases == {l \in Rows : leases[l].revoked = ""}

\* Close a set of leases for a reason.
Revoked(S, reason) ==
  [l \in Rows |-> IF l \in S THEN [leases[l] EXCEPT !.revoked = reason] ELSE leases[l]]

Clock(c) == now + Skew[c]

-----------------------------------------------------------------------------
Init ==
  /\ policy = NoPolicy
  /\ expiry \in Expiries
  /\ deleted = FALSE
  /\ leases = [l \in {} |-> 0]
  /\ op = [c \in Clients |-> Idle]
  /\ served = [l \in Ids |-> 0]
  /\ now = 0

(* AuthorizeLeasedRead.                                                    *)

\* The row is read by address; without a policy nothing is issued or consumed.
ReadPolicy(c, q) ==
  /\ op[c].pc = "idle"
  /\ ~deleted
  /\ policy # NoPolicy
  /\ op' = [op EXCEPT ![c] = [Idle EXCEPT !.pc = "policy", !.who = q,
                                           !.policy = policy]]
  /\ UNCHANGED <<policy, expiry, deleted, leases, served, now>>

\* Mutant: the query does not filter on the requester.
AnyLive(c) == LiveLeases

\* GetLiveSecretLeaseForUpdate's WHERE clause.
LiveOf(c) == Live(op[c].who)

\* The transaction begins and its locking read finds at most one row.
Select(c) ==
  /\ op[c].pc = "policy"
  /\ \E l \in IF LiveOf(c) = {} THEN {0} ELSE LiveOf(c) :
       op' = [op EXCEPT ![c] = [op[c] EXCEPT !.pc = "select", !.found = l,
                                                  !.started = now]]
  /\ UNCHANGED <<policy, expiry, deleted, leases, served, now>>

\* The row once its lock is granted: none if it was revoked in the meantime.
Locked(c) == IF op[c].found # 0 /\ leases[op[c].found].revoked = "" THEN op[c].found ELSE 0

\* Mutants: an exhausted lease is renewed, an expired one is not.
RenewsExhausted(c, l) ==
  IF expiry # 0 /\ expiry <= Clock(c) THEN "dead"
  ELSE IF l = 0 THEN "issue"
  ELSE IF leases[l].expires <= Clock(c) THEN "supersede"
  ELSE IF leases[l].reads # 0 /\ leases[l].used >= leases[l].reads THEN "supersede"
  ELSE "consume"
NeverSupersedes(c, l) ==
  IF expiry # 0 /\ expiry <= Clock(c) THEN "dead"
  ELSE IF l = 0 THEN "issue"
  ELSE IF leases[l].reads # 0 /\ leases[l].used >= leases[l].reads THEN "cap"
  ELSE "consume"

\* Evaluate: the order of the checks is the policy.
Evaluate(c, l) ==
  IF expiry # 0 /\ expiry <= Clock(c) THEN "dead"
  ELSE IF l = 0 THEN "issue"
  ELSE IF leases[l].expires <= Clock(c) THEN "supersede"
  ELSE IF leases[l].reads # 0 /\ leases[l].used >= leases[l].reads THEN "cap"
  ELSE "consume"

Refuse(c, why) ==
  /\ op' = [op EXCEPT ![c] = [Idle EXCEPT !.pc = "refused", !.why = why]]
  /\ UNCHANGED leases

\* Mutant: the counter is not advanced.
ConsumeForgets(c, l, rows) ==
  IF rows[l].expires > op[c].started
  THEN /\ leases' = rows
       /\ op' = [op EXCEPT ![c] = [Idle EXCEPT !.pc = "granted", !.found = l]]
  ELSE Refuse(c, "raced")

\* ConsumeSecretLease re-checks expiry and cap; zero rows roll everything back.
Consume(c, l, rows) ==
  IF /\ rows[l].expires > op[c].started
     /\ rows[l].reads = 0 \/ rows[l].used < rows[l].reads
  THEN /\ leases' = [rows EXCEPT ![l].used = @ + 1]
       /\ op' = [op EXCEPT ![c] = [Idle EXCEPT !.pc = "granted", !.found = l]]
  ELSE Refuse(c, "raced")

\* CreateSecretLease: the unique index allows one live lease per requester.
Issue(c, rows) ==
  LET l == Cardinality(Rows) + 1
      p == op[c].policy
      new == [requester |-> op[c].who, issued |-> Clock(c), expires |-> Clock(c) + p.ttl,
              reads |-> p.reads, used |-> 0, revoked |-> ""]
  IN
  IF \E k \in Rows : rows[k].requester = op[c].who /\ rows[k].revoked = ""
  THEN Refuse(c, "conflict")
  ELSE /\ l \in Ids
       /\ Consume(c, l, [k \in Rows \cup {l} |-> IF k = l THEN new ELSE rows[k]])

\* Lock, decide, act, commit.
Decide(c) ==
  LET l == Locked(c)
      decision == Evaluate(c, l)
  IN
  /\ op[c].pc = "select"
  /\ \/ decision \in {"dead", "cap"} /\ Refuse(c, decision)
     \/ decision = "consume" /\ Consume(c, l, leases)
     \/ decision = "supersede" /\ Issue(c, Revoked({l}, "expired"))
     \/ decision = "issue" /\ Issue(c, leases)
  /\ UNCHANGED <<policy, expiry, deleted, served, now>>

\* The read has been consumed; now the value is decrypted and returned.
Serve(c) ==
  /\ op[c].pc = "granted"
  /\ served' = [served EXCEPT ![op[c].found] = @ + 1]
  /\ op' = [op EXCEPT ![c] = Idle]
  /\ UNCHANGED <<policy, expiry, deleted, leases, now>>

\* The caller gets its error, or goes away.
GiveUp(c) ==
  /\ op[c].pc # "idle"
  /\ op' = [op EXCEPT ![c] = Idle]
  /\ UNCHANGED <<policy, expiry, deleted, leases, served, now>>

-----------------------------------------------------------------------------
\* SetSecretLeasePolicy: clearing the policy revokes the live leases with it.
SetSecretLeasePolicy(p) ==
  /\ ~deleted
  /\ policy' = p
  /\ leases' = IF p = NoPolicy THEN Revoked(LiveLeases, "policy") ELSE leases
  /\ UNCHANGED <<expiry, deleted, op, served, now>>

RevokeSecretLeases ==
  /\ ~deleted
  /\ LiveLeases # {}
  /\ leases' = Revoked(LiveLeases, "explicit")
  /\ UNCHANGED <<policy, expiry, deleted, op, served, now>>

\* Housekeeping, on the database's clock; fewer leases are due than one pass takes.
ExpireDueSecretLeases ==
  LET due == {l \in LiveLeases : leases[l].expires <= now}
  IN
  /\ due # {}
  /\ leases' = Revoked(due, "expired")
  /\ UNCHANGED <<policy, expiry, deleted, op, served, now>>

\* DeleteSecret and RestoreSecret write the secret's row and nothing else.
SetDeleted(b) ==
  /\ deleted # b
  /\ deleted' = b
  /\ UNCHANGED <<policy, expiry, leases, op, served, now>>

Tick ==
  /\ now < MaxNow
  /\ now' = now + 1
  /\ UNCHANGED <<policy, expiry, deleted, leases, op, served>>

Read(c) ==
  \/ \E q \in Requesters : ReadPolicy(c, q)
  \/ Select(c) \/ Decide(c) \/ Serve(c) \/ GiveUp(c)

Next ==
  \/ \E c \in Clients : Read(c)
  \/ \E p \in Policies \cup {NoPolicy} : SetSecretLeasePolicy(p)
  \/ RevokeSecretLeases
  \/ ExpireDueSecretLeases
  \/ \E b \in BOOLEAN : SetDeleted(b)
  \/ Tick

Spec == Init /\ [][Next]_vars

-----------------------------------------------------------------------------
\* Rows are numbered without gaps and have the columns the table gives them.
TypeOK ==
  /\ policy \in Policies \cup {NoPolicy}
  /\ expiry \in Expiries
  /\ deleted \in BOOLEAN
  /\ Rows = 1..Cardinality(Rows) /\ Rows \subseteq Ids
  /\ leases \in [Rows -> Lease]
  /\ op \in [Clients -> Op]
  /\ \A c \in Clients : op[c].found \in {0} \cup Rows /\ op[c].started <= now
  /\ served \in [Ids -> Nat]
  /\ now \in 0..MaxNow

Granted(l) == {c \in Clients : op[c].pc = "granted" /\ op[c].found = l}

\* No lease ever serves more values than its cap: every value decrypted, or about
\* to be, was counted first, whatever reveals race for the last read.
ServedWithinCap ==
  \A l \in Rows :
    /\ served[l] + Cardinality(Granted(l)) <= leases[l].used
    /\ leases[l].reads # 0 => leases[l].used <= leases[l].reads

\* A requester that has used up its allowance waits for the lease to run out: a
\* successor is issued after the predecessor has expired, or after an operator
\* took it away, never because a reveal found it exhausted or lost a race.
AllowancesDoNotOverlap ==
  \A j, l \in Rows :
    j < l /\ leases[j].requester = leases[l].requester
      => leases[j].revoked \in {"explicit", "policy"} \/ leases[j].expires <= leases[l].issued

\* While the clocks agree an expired lease is renewed (lease.go:132): the UPDATE
\* that consumes a read never finds the lease the decision picked run out, taken
\* away or exhausted, however long the reveal waited for the row.
DecisionsHold == \A c \in Clients : op[c].why # "raced"

\* A reveal spends only the allowance of its own requester, so one consumer cannot
\* exhaust another's.
OwnAllowanceOnly ==
  [][\A l \in Rows :
       leases'[l].used # leases[l].used =>
         \E c \in Clients : /\ op[c].pc = "select" /\ op'[c].pc = "granted"
                            /\ op[c].who = leases[l].requester]_vars

=============================================================================
