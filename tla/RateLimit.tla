------------------------------ MODULE RateLimit ------------------------------
(***************************************************************************)
(* The rate limiter (internal/platform/middleware/rate_limit.go) and the    *)
(* ledger that makes its budget one budget for all replicas                *)
(* (rate_limit_store.go): a replica reserves a slice of a window's budget   *)
(* in the database and hands it out from memory.  The limiter's mutex is    *)
(* free while a reservation is under way, so Allow is two critical sections *)
(* with a statement in between, and other requests run meanwhile.           *)
(*                                                                         *)
(* One principal is modelled: the keys of the map meet only in the reset of *)
(* a map that is full.  Units of a window's budget have a number, so that a *)
(* unit given out twice is seen: `granted - spent' of the code is the       *)
(* number of units held.                                                   *)
(***************************************************************************)
EXTENDS Integers, FiniteSets

CONSTANTS
  Replicas,   \* processes of the service
  Requests,   \* requests of the principal
  None,       \* no replica
  Limit,      \* the class's budget per window
  Slice,      \* what one reservation asks for: sliceFor(Limit)
  Skew,       \* how many windows two replicas' clocks may be apart
  Retention,  \* closed windows the pruner keeps
  MaxWindow,  \* bound: windows
  MaxFaults   \* bound: failed reservations, restarts, resets of the map

ASSUME ReplicaAssumption == None \notin Replicas
ASSUME FinitenessAssumption == IsFiniteSet(Replicas) /\ IsFiniteSet(Requests)
ASSUME BudgetAssumption == Limit \in Nat \ {0} /\ Slice \in 1..Limit
ASSUME ClockAssumption == Skew \in Nat \ {0} /\ Retention \in Nat /\ Retention > Skew
ASSUME BoundAssumption == MaxWindow \in Nat /\ MaxFaults \in Nat

VARIABLES
  clock,    \* the window each replica's clock is in
  bucket,   \* each replica's entry of the map for the principal
  rows,     \* rate_limit_buckets.reserved, by window_start; 0: no row
  call,     \* what each request is in the middle of
  metered,  \* the units handed out to requests, by window
  admitted, \* how many requests were let through, by the window they counted in
  lost,     \* how many replicas' counts of a window a restart or a full map lost
  faults    \* faults so far

vars == <<clock, bucket, rows, call, metered, admitted, lost, faults>>

Windows == 0..MaxWindow
Units == 1..Limit

Bucket == [window : Windows \cup {-1}, count : Nat, held : SUBSET Units,
           exhausted : BOOLEAN, backoff : BOOLEAN]

NewBucket(w) ==
  [window |-> w, count |-> 0, held |-> {}, exhausted |-> FALSE, backoff |-> FALSE]

NoBucket == NewBucket(-1)

Call == [pc : {"idle", "reserve", "reply", "refused"}, at : Replicas \cup {None},
         window : Windows \cup {-1}, grant : SUBSET Units, failed : BOOLEAN]

Idle == [pc |-> "idle", at |-> None, window |-> -1, grant |-> {}, failed |-> FALSE]

\* bucketLocked: the half-open window the replica's clock is in.
LiveBucket(r) == IF bucket[r].window >= clock[r] THEN bucket[r] ELSE NewBucket(clock[r])

Fault == faults < MaxFaults /\ faults' = faults + 1

-----------------------------------------------------------------------------
Init ==
  /\ clock = [r \in Replicas |-> 0]
  /\ bucket = [r \in Replicas |-> NoBucket]
  /\ rows = [w \in Windows |-> 0]
  /\ call = [q \in Requests |-> Idle]
  /\ metered = [w \in Windows |-> {}]
  /\ admitted = [w \in Windows |-> 0]
  /\ lost = [w \in Windows |-> 0]
  /\ faults = 0

Ready(q) == call[q].pc \in {"idle", "refused"}

Admit(q, w) ==
  /\ admitted' = [admitted EXCEPT ![w] = @ + 1]
  /\ call' = [call EXCEPT ![q] = Idle]

Refuse(q, w) ==
  /\ call' = [call EXCEPT ![q] = [Idle EXCEPT !.pc = "refused", !.window = w]]
  /\ UNCHANGED admitted

\* A unit of the bucket is handed to the request.
Spend(q, r, b) ==
  \E u \in b.held :
    /\ \A v \in b.held : u <= v
    /\ bucket' = [bucket EXCEPT ![r] = [b EXCEPT !.held = @ \ {u}]]
    /\ metered' = [metered EXCEPT ![b.window] = @ \cup {u}]
    /\ Admit(q, b.window)

(* Allow, up to the reservation: one critical section.                     *)

\* Step 1: the replica's own ceiling.
OverCeiling(q, r, b) ==
  /\ b.count > Limit
  /\ bucket' = [bucket EXCEPT ![r] = b]
  /\ call' = [call EXCEPT ![q] = Idle]
  /\ UNCHANGED <<metered, admitted>>

\* Step 3: a unit reserved before.
FastPath(q, r, b) == b.count <= Limit /\ b.held # {} /\ Spend(q, r, b)

\* Step 4: the window's budget is all reserved.
Exhausted(q, r, b) ==
  /\ b.count <= Limit /\ b.held = {} /\ b.exhausted
  /\ bucket' = [bucket EXCEPT ![r] = b]
  /\ Refuse(q, b.window)
  /\ UNCHANGED metered

\* Step 5: a reservation failed a moment ago.
Degraded(q, r, b) ==
  /\ b.count <= Limit /\ b.held = {} /\ ~b.exhausted /\ b.backoff
  /\ bucket' = [bucket EXCEPT ![r] = b]
  /\ Admit(q, b.window)
  /\ UNCHANGED metered

AskStore(q, r, b) ==
  /\ b.count <= Limit /\ b.held = {} /\ ~b.exhausted /\ ~b.backoff
  /\ bucket' = [bucket EXCEPT ![r] = b]
  /\ call' = [call EXCEPT ![q] = [Idle EXCEPT !.pc = "reserve", !.at = r, !.window = b.window]]
  /\ UNCHANGED <<metered, admitted>>

\* Mutant: what passes the ceiling is counted only once it is known to be admitted.
HitUncounted(q, r) ==
  LET b == LiveBucket(r)
  IN
  /\ Ready(q)
  /\ \/ OverCeiling(q, r, b) \/ FastPath(q, r, b) \/ Exhausted(q, r, b)
     \/ Degraded(q, r, b) \/ AskStore(q, r, b)
  /\ UNCHANGED <<clock, rows, lost, faults>>

Hit(q, r) ==
  LET b == [LiveBucket(r) EXCEPT !.count = IF @ > Limit THEN @ ELSE @ + 1]
  IN
  /\ Ready(q)
  /\ \/ OverCeiling(q, r, b) \/ FastPath(q, r, b) \/ Exhausted(q, r, b)
     \/ Degraded(q, r, b) \/ AskStore(q, r, b)
  /\ UNCHANGED <<clock, rows, lost, faults>>

(* PgReservationStore.Reserve: one upsert.                                 *)

\* LEAST(limit, reserved + slice) - reserved.
Grant(w) == {u \in Units : u > rows[w] /\ u <= rows[w] + Slice}

Reserved(w) == IF rows[w] + Slice > Limit THEN Limit ELSE rows[w] + Slice

\* The reply comes, or the statement fails, or it commits and the timeout is first.
Reserve(q) ==
  LET w == call[q].window
  IN
  /\ call[q].pc = "reserve"
  /\ \/ /\ rows' = [rows EXCEPT ![w] = Reserved(w)]
        /\ call' = [call EXCEPT ![q].pc = "reply", ![q].grant = Grant(w)]
        /\ UNCHANGED faults
     \/ /\ Fault
        /\ \/ rows' = [rows EXCEPT ![w] = Reserved(w)]
           \/ UNCHANGED rows
        /\ call' = [call EXCEPT ![q].pc = "reply", ![q].failed = TRUE]
  /\ UNCHANGED <<clock, bucket, metered, admitted, lost>>

(* Allow, after the reservation: the second critical section.              *)

\* Mutant: a grant of a window that is over funds the present one.
AnyWindow(q) == bucket[call[q].at].window # -1

SameWindow(q) == bucket[call[q].at].window = call[q].window

\* The window rotated, or the map was reset, while the call was in the database: the
\* grant is dropped and the request let through.
WindowGone(q) ==
  /\ ~SameWindow(q)
  /\ Admit(q, call[q].window)
  /\ UNCHANGED <<bucket, metered>>

StoreFailed(q) ==
  /\ SameWindow(q) /\ call[q].failed
  /\ bucket' = [bucket EXCEPT ![call[q].at].backoff = TRUE]
  /\ Admit(q, call[q].window)
  /\ UNCHANGED metered

\* A grant shorter than the slice is the last of the window.
Granted(q) ==
  LET r == call[q].at
      b == [bucket[r] EXCEPT !.held = @ \cup call[q].grant,
                             !.exhausted = @ \/ Cardinality(call[q].grant) < Slice]
  IN
  /\ SameWindow(q) /\ ~call[q].failed
  /\ \/ b.held # {} /\ Spend(q, r, b)
     \/ /\ b.held = {}
        /\ bucket' = [bucket EXCEPT ![r] = b]
        /\ Refuse(q, b.window)
        /\ UNCHANGED metered

Return(q) ==
  /\ call[q].pc = "reply"
  /\ WindowGone(q) \/ StoreFailed(q) \/ Granted(q)
  /\ UNCHANGED <<clock, rows, lost, faults>>

-----------------------------------------------------------------------------
(* Time, restarts and the pruner.                                          *)

\* A reservation is cut off by its timeout, which is far shorter than a window: it can
\* outlive the window it is for and not the next one.
Tick(r) ==
  /\ clock[r] < MaxWindow
  /\ \A p \in Replicas \ {r} : clock[r] < clock[p] + Skew
  /\ \A q \in Requests : call[q].at = r => call[q].window = clock[r]
  /\ clock' = [clock EXCEPT ![r] = @ + 1]
  /\ UNCHANGED <<bucket, rows, call, metered, admitted, lost, faults>>

BackoffEnds(r) ==
  /\ bucket[r].backoff
  /\ bucket' = [bucket EXCEPT ![r].backoff = FALSE]
  /\ UNCHANGED <<clock, rows, call, metered, admitted, lost, faults>>

\* The replica's map is gone, and with it what it counted.
Forget(r) ==
  /\ Fault
  /\ bucket' = [bucket EXCEPT ![r] = NoBucket]
  /\ lost' = [w \in Windows |-> IF bucket[r].window = w THEN lost[w] + 1 ELSE lost[w]]

\* sweep: another principal's hit finds the map full and empties it.
Sweep(r) ==
  /\ bucket[r].window = clock[r]
  /\ Forget(r)
  /\ UNCHANGED <<clock, rows, call, metered, admitted>>

\* The process restarts; its requests are gone.
Restart(r) ==
  /\ Forget(r)
  /\ call' = [q \in Requests |-> IF call[q].at = r THEN Idle ELSE call[q]]
  /\ UNCHANGED <<clock, rows, metered, admitted>>

\* Mutant: the pruner deletes every window but its own.
PruneClosed(r) ==
  /\ \E w \in Windows : w < clock[r] /\ rows[w] > 0
  /\ rows' = [w \in Windows |-> IF w < clock[r] THEN 0 ELSE rows[w]]
  /\ UNCHANGED <<clock, bucket, call, metered, admitted, lost, faults>>

\* Prune, on the leader's clock; more than one replica may take itself for it.
Prune(r) ==
  /\ \E w \in Windows : w < clock[r] - Retention /\ rows[w] > 0
  /\ rows' = [w \in Windows |-> IF w < clock[r] - Retention THEN 0 ELSE rows[w]]
  /\ UNCHANGED <<clock, bucket, call, metered, admitted, lost, faults>>

Next ==
  \/ \E q \in Requests : (\E r \in Replicas : Hit(q, r)) \/ Reserve(q) \/ Return(q)
  \/ \E r \in Replicas : Tick(r) \/ BackoffEnds(r) \/ Sweep(r) \/ Restart(r) \/ Prune(r)

Spec == Init /\ [][Next]_vars

-----------------------------------------------------------------------------
\* Every variable has its type.
TypeOK ==
  /\ clock \in [Replicas -> Windows]
  /\ bucket \in [Replicas -> Bucket]
  /\ rows \in [Windows -> 0..Limit]
  /\ call \in [Requests -> Call]
  /\ metered \in [Windows -> SUBSET Units]
  /\ admitted \in [Windows -> Nat]
  /\ lost \in [Windows -> Nat]
  /\ faults \in 0..MaxFaults

\* The units of window w that a replica can still hand out, and those that are on their
\* way to one.
HeldFor(r, w) == IF bucket[r].window = w THEN bucket[r].held ELSE {}
OnTheWay(q, w) ==
  IF call[q].pc = "reply" /\ ~call[q].failed /\ call[q].window = w THEN call[q].grant ELSE {}

\* No unit of a window's budget is handed out twice: not by two replicas that reserve at
\* the same time, not by a replica that reserved before its window closed, its map was
\* reset or its process restarted, not after the pruner deleted the row.  So what all
\* replicas admit against the shared budget of a window never exceeds it.
UnitsAreApart ==
  \A w \in Windows :
    /\ \A r \in Replicas :
         /\ HeldFor(r, w) \cap metered[w] = {}
         /\ \A p \in Replicas \ {r} : HeldFor(r, w) \cap HeldFor(p, w) = {}
         /\ \A q \in Requests : HeldFor(r, w) \cap OnTheWay(q, w) = {}
    /\ \A q \in Requests :
         /\ OnTheWay(q, w) \cap metered[w] = {}
         /\ \A k \in Requests \ {q} : OnTheWay(q, w) \cap OnTheWay(k, w) = {}

\* Whatever the store does, the replicas let no more requests through in a window than the
\* limit each, and the limit once more for every count of that window that a restart or a
\* full map lost: reservations that fail, are slow or come back into another window lift
\* no replica's ceiling (rate_limit.go:88-91).
ReplicaCeiling ==
  \A w \in Windows : admitted[w] <= Limit * (Cardinality(Replicas) + lost[w])

\* A request is refused for the shared budget only when all of it is reserved: a failed
\* or slow reservation and a closed window never make a replica refuse.
RefusedOnlyWhenReserved ==
  \A q \in Requests :
    call[q].pc = "refused" /\ (\A r \in Replicas : clock[r] - Retention <= call[q].window)
      => rows[call[q].window] = Limit

-----------------------------------------------------------------------------
\* A claim of the documentation that the code refutes.
\* rate_limit.go:53-63: what all replicas let through in a window is at most the limit, the
\* budget is shared and not multiplied.  Here while the store is up and no count is lost.
BudgetIsShared == faults = 0 => \A w \in Windows : admitted[w] <= Limit

=============================================================================
