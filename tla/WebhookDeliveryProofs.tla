------------------------- MODULE WebhookDeliveryProofs -------------------------
(***************************************************************************)
(* What the deliveries of WebhookDelivery keep, for any number of workers  *)
(* and deliveries, any lease and budgets and any fault: unless its lease   *)
(* ran out under its pass, no delivery is posted twice at once, a settled  *)
(* delivery stays settled, and the workers stay within the durable budget. *)
(*                                                                         *)
(* All three rest on one fact: a delivery a pass still has to handle, and  *)
(* whose lease runs, is retrying, has spent what its claim said, and is    *)
(* claimed by nobody else.  The UPDATEs of the pass are unconditional, so  *)
(* nothing but the lease makes it so.  That no lease runs out under its    *)
(* pass when a batch of timeouts fits it is the last theorem.              *)
(***************************************************************************)
EXTENDS WebhookDelivery, FiniteSetTheorems, TLAPS

\* The lease is longer than a full batch of posts that all time out.
Fits == Batch * Timeout < Lease

-----------------------------------------------------------------------------
(* The invariant.                                                          *)

\* The claims whose lease has not run out under the pass.
Fresh(x) == {c \in Claims(x) : c[1] \notin outlived}

\* The longest a pass may still take.
Left(x) == Timeout * Cardinality(x.todo) + (IF x.pc = "post" THEN Timeout - x.age ELSE 0)

\* What a worker does next with the claims S.
After(S) == IF S = {} THEN NoWork ELSE [NoWork EXCEPT !.pc = "next", !.todo = S]

\* A row with its columns, whatever its schedule is.
IsRow(r) ==
  /\ r = [status |-> r.status, attempts |-> r.attempts, redrives |-> r.redrives, due |-> r.due]
  /\ r.status \in {"pending", "success", "retrying", "failed"}
  /\ r.attempts \in Nat /\ r.redrives \in Nat

TableInv ==
  /\ \E n \in Nat : Delivered = 1..n
  /\ Delivered \subseteq Ids
  /\ rows = [d \in Delivered |-> rows[d]]
  /\ \A d \in Delivered : IsRow(rows[d])
  /\ inline \in [Ids -> Inline]
  /\ sent \in [Ids -> Nat]
  /\ \A d \in Ids \ Delivered : sent[d] = 0
  /\ faults \in Nat

\* A worker between passes has nothing claimed; a busy one has a claim at hand, which is
\* not among the others.
WorkOk(x) ==
  /\ x \in Work
  /\ IsFiniteSet(x.todo)
  /\ x.age <= Timeout
  /\ x.pc = "idle" => x.todo = {}
  /\ Busy(x) => x.one \in Ids \X Nat /\ x.one \notin x.todo

WorkInv == work \in [Workers -> {x \in Work : WorkOk(x)}]

\* A claim names a delivery that no request owns any more.
ExistInv ==
  \A w \in Workers : \A c \in Claims(work[w]) :
    c[1] \in Delivered /\ rows[c[1]].status # "pending"

\* What the row of a claim says, while its lease runs.
ClaimHolds(x, c) ==
  /\ rows[c[1]].status = "retrying"
  /\ rows[c[1]].redrives = c[2]
  /\ rows[c[1]].due \in Nat /\ rows[c[1]].due > 0
  /\ Fits => rows[c[1]].due > Left(x)

ClaimInv ==
  /\ ExistInv
  /\ \A w \in Workers : \A c \in Fresh(work[w]) : ClaimHolds(work[w], c)
  /\ \A v, w \in Workers : \A b \in Fresh(work[v]), c \in Fresh(work[w]) :
       b[1] = c[1] => v = w /\ b = c
  /\ Fits => outlived = {}

\* While a request is under way its delivery is pending and has been sent as often as the
\* request attempted it.
RequestInv ==
  \A d \in Delivered :
    /\ inline[d].pc # "none" => /\ rows[d].status = "pending"
                                /\ sent[d] = inline[d].attempt
                                /\ inline[d].attempt \in 1..InlineMax
                                /\ inline[d].pc = "wait" => inline[d].attempt < InlineMax
    /\ rows[d].status = "pending" => /\ rows[d].attempts = 0
                                     /\ rows[d].redrives = 0
                                     /\ sent[d] <= InlineMax

\* A post some worker started and has not recorded.
Handling(d) == {w \in Workers : Busy(work[w]) /\ work[w].one[1] = d}
InFlight(d) == IF Handling(d) = {} THEN 0 ELSE 1

\* A parked row counts every post that was started but the one in flight and those whose
\* outcome a fault lost.
BudgetInv ==
  \A d \in Delivered \ outlived : rows[d].status # "pending" =>
    /\ rows[d].redrives <= RedriveMax
    /\ rows[d].status = "retrying" => rows[d].redrives < RedriveMax
    /\ rows[d].attempts <= InlineMax + rows[d].redrives
    /\ rows[d].attempts + InFlight(d) <= sent[d]
    /\ sent[d] <= rows[d].attempts + InFlight(d) + faults

Inv == TableInv /\ WorkInv /\ ClaimInv /\ RequestInv /\ BudgetInv

-----------------------------------------------------------------------------
(* The rows the UPDATEs leave behind.                                      *)

\* The table after the UPDATE of the request that is done with d.
Finished(d, s, a, u) == [rows EXCEPT ![d].status = s, ![d].attempts = a, ![d].due = u]

\* The row a request leaves behind when it is done with a delivery.
LEMMA FinishedRow ==
  ASSUME TableInv, NEW d \in Delivered, NEW s, NEW a, NEW u
  PROVE  /\ Finished(d, s, a, u) = [e \in Delivered |-> Finished(d, s, a, u)[e]]
         /\ Finished(d, s, a, u)[d] = [status |-> s, attempts |-> a, redrives |-> rows[d].redrives, due |-> u]
         /\ \A e \in Delivered : e # d => Finished(d, s, a, u)[e] = rows[e]
<1> DEFINE t1 == [rows EXCEPT ![d].status = s]
           t2 == [t1 EXCEPT ![d].attempts = a]
           t3 == [t2 EXCEPT ![d].due = u]
           r1 == [rows[d] EXCEPT !.status = s]
<1>1. /\ t1 = [e \in Delivered |-> t1[e]] /\ \A e \in Delivered : e # d => t1[e] = rows[e]
      /\ t1[d] = [status |-> s, attempts |-> rows[d].attempts, redrives |-> rows[d].redrives, due |-> rows[d].due]
  <2>1. rows[d] = [status |-> rows[d].status, attempts |-> rows[d].attempts,
                   redrives |-> rows[d].redrives, due |-> rows[d].due]
    BY DEF TableInv, IsRow
  <2>2. r1 = [status |-> s, attempts |-> rows[d].attempts, redrives |-> rows[d].redrives, due |-> rows[d].due]
    BY <2>1
  <2>3. t1 = [rows EXCEPT ![d] = r1]
    OBVIOUS
  <2> HIDE DEF r1, t1
  <2>4. t1[d] = r1 /\ t1 = [e \in Delivered |-> t1[e]] /\ \A e \in Delivered : e # d => t1[e] = rows[e]
    BY <2>3 DEF TableInv
  <2> QED
    BY <2>2, <2>4
<1> HIDE DEF t1
<1>2. /\ t2 = [e \in Delivered |-> t2[e]] /\ \A e \in Delivered : e # d => t2[e] = rows[e]
      /\ t2[d] = [status |-> s, attempts |-> a, redrives |-> rows[d].redrives, due |-> rows[d].due]
  BY <1>1
<1> HIDE DEF t2
<1>3. /\ t3 = [e \in Delivered |-> t3[e]] /\ \A e \in Delivered : e # d => t3[e] = rows[e]
      /\ t3[d] = [status |-> s, attempts |-> a, redrives |-> rows[d].redrives, due |-> u]
  BY <1>2
<1>4. Finished(d, s, a, u) = t3
  BY DEF Finished, t1, t2
<1> HIDE DEF t3
<1> QED
  BY <1>3, <1>4

\* The row of a delivery whose endpoint is gone: it failed, and counts what it did before.
LEMMA SettledRow ==
  ASSUME TableInv, NEW d \in Delivered
  PROVE  /\ Settled(d, "failed") = Finished(d, "failed", rows[d].attempts, None)
         /\ Settled(d, "failed")[d].status = "failed"
<1>1. rows = [e \in Delivered |-> rows[e]] /\ IsRow(rows[d])
  BY DEF TableInv
<1>2. Settled(d, "failed") = Finished(d, "failed", rows[d].attempts, None)
  <2> DEFINE t1 == [rows EXCEPT ![d].status = "failed"]
             t2 == [t1 EXCEPT ![d].attempts = rows[d].attempts]
  <2>1. t1 = [e \in Delivered |-> t1[e]] /\ t1[d] = [rows[d] EXCEPT !.status = "failed"]
    BY <1>1
  <2>2. [rows[d] EXCEPT !.status = "failed"]
          = [status |-> "failed", attempts |-> rows[d].attempts,
             redrives |-> rows[d].redrives, due |-> rows[d].due]
    BY <1>1 DEF IsRow
  <2> HIDE DEF t1
  <2>3. t2 = t1
    BY <2>1, <2>2
  <2> QED
    BY <2>3 DEF Settled, Finished, t1
<1>3. Finished(d, "failed", rows[d].attempts, None)[d]
        = [status |-> "failed", attempts |-> rows[d].attempts, redrives |-> rows[d].redrives, due |-> None]
  BY FinishedRow
<1> QED
  BY <1>2, <1>3

\* What the outcome of w says of the delivery.
Verdict(w) == IF work[w].ok THEN "success"
              ELSE IF work[w].one[2] + 1 >= RedriveMax THEN "failed" ELSE "retrying"

\* The row a worker leaves behind: one more attempt, one more re-drive, and the verdict.
LEMMA OutcomeRow ==
  ASSUME TableInv, NEW w, NEW d \in Delivered, work[w].one[1] = d, work[w].ok \in BOOLEAN
  PROVE  /\ Outcome(w) = [e \in Delivered |-> Outcome(w)[e]]
         /\ \A e \in Delivered : e # d => Outcome(w)[e] = rows[e]
         /\ Outcome(w)[d].status = Verdict(w)
         /\ Outcome(w)[d].attempts = rows[d].attempts + 1
         /\ Outcome(w)[d].redrives = rows[d].redrives + 1
         /\ IsRow(Outcome(w)[d])
<1> DEFINE spent == work[w].one[2] + 1
           ends == work[w].ok \/ spent >= RedriveMax
           st == IF work[w].ok THEN "success" ELSE IF ends THEN "failed" ELSE "retrying"
           u == IF ends THEN None ELSE Backoff(spent)
           t1 == [rows EXCEPT ![d].attempts = @ + 1]
           t2 == [t1 EXCEPT ![d].redrives = @ + 1]
           t3 == [t2 EXCEPT ![d].status = st]
           t4 == [t3 EXCEPT ![d].due = u]
           r1 == [rows[d] EXCEPT !.attempts = rows[d].attempts + 1]
<1>1. /\ t1 = [e \in Delivered |-> t1[e]] /\ \A e \in Delivered : e # d => t1[e] = rows[e]
      /\ t1[d] = [status |-> rows[d].status, attempts |-> rows[d].attempts + 1,
                  redrives |-> rows[d].redrives, due |-> rows[d].due]
  <2>1. rows[d] = [status |-> rows[d].status, attempts |-> rows[d].attempts,
                   redrives |-> rows[d].redrives, due |-> rows[d].due]
    BY DEF TableInv, IsRow
  <2>2. r1 = [status |-> rows[d].status, attempts |-> rows[d].attempts + 1,
              redrives |-> rows[d].redrives, due |-> rows[d].due]
    BY <2>1
  <2>3. t1 = [rows EXCEPT ![d] = r1]
    OBVIOUS
  <2> HIDE DEF r1, t1
  <2>4. t1[d] = r1 /\ t1 = [e \in Delivered |-> t1[e]] /\ \A e \in Delivered : e # d => t1[e] = rows[e]
    BY <2>3 DEF TableInv
  <2> QED
    BY <2>2, <2>4
<1> HIDE DEF t1
<1>2. /\ t2 = [e \in Delivered |-> t2[e]] /\ \A e \in Delivered : e # d => t2[e] = rows[e]
      /\ t2[d] = [status |-> rows[d].status, attempts |-> rows[d].attempts + 1,
                  redrives |-> rows[d].redrives + 1, due |-> rows[d].due]
  BY <1>1
<1> HIDE DEF t2, st, u
<1>3. /\ t3 = [e \in Delivered |-> t3[e]] /\ \A e \in Delivered : e # d => t3[e] = rows[e]
      /\ t3[d] = [status |-> st, attempts |-> rows[d].attempts + 1,
                  redrives |-> rows[d].redrives + 1, due |-> rows[d].due]
  BY <1>2
<1> HIDE DEF t3
<1>4. /\ t4 = [e \in Delivered |-> t4[e]] /\ \A e \in Delivered : e # d => t4[e] = rows[e]
      /\ t4[d] = [status |-> st, attempts |-> rows[d].attempts + 1,
                  redrives |-> rows[d].redrives + 1, due |-> u]
  BY <1>3
<1>5. Outcome(w) = t4
  BY DEF Outcome, t1, t2, t3, st, u
<1> HIDE DEF t4
<1>6. st = Verdict(w) /\ st \in {"success", "failed", "retrying"}
  BY DEF Verdict, st
<1>7. IsRow(t4[d])
  BY <1>4, <1>6 DEF IsRow, TableInv
<1> QED
  BY <1>4, <1>5, <1>6, <1>7

-----------------------------------------------------------------------------
(* Workers and their claims.                                               *)

\* The time a pass may still take is a natural number.
LEMMA LeftType ==
  ASSUME NEW x, WorkOk(x)
  PROVE  /\ x.todo \subseteq Ids \X Nat
         /\ Cardinality(x.todo) \in Nat
         /\ Left(x) \in Nat
         /\ Timeout * Cardinality(x.todo) \in Nat
         /\ Timeout * Cardinality(x.todo) <= Left(x)
<1>1. Cardinality(x.todo) \in Nat
  BY FS_CardinalityType DEF WorkOk
<1>2. Timeout \in Nat /\ x.age \in Nat /\ x.age <= Timeout /\ x.todo \subseteq Ids \X Nat
  BY WorkerAssumption DEF WorkOk, Work
<1>3. Timeout * Cardinality(x.todo) \in Nat
  BY <1>1, <1>2
<1> QED
  BY <1>1, <1>2, <1>3 DEF Left

\* What is left of a pass claims only what the pass had claimed, and takes no longer.
LEMMA Continued ==
  ASSUME NEW x, WorkOk(x), NEW S, S \subseteq x.todo
  PROVE  /\ WorkOk(After(S))
         /\ ~Busy(After(S))
         /\ Claims(After(S)) = S
         /\ Left(After(S)) <= Left(x)
<1>1. IsFiniteSet(S) /\ Cardinality(S) \in Nat /\ Cardinality(S) <= Cardinality(x.todo)
  BY FS_Subset, FS_CardinalityType DEF WorkOk
<1>2. S \subseteq Ids \X Nat
  BY LeftType
<1>3. After(S) \in Work /\ After(S).todo = S /\ After(S).age = 0
      /\ After(S).pc = (IF S = {} THEN "idle" ELSE "next")
  BY <1>2 DEF After, NoWork, Work
<1>4. WorkOk(After(S)) /\ ~Busy(After(S)) /\ Claims(After(S)) = S
  BY <1>1, <1>3, WorkerAssumption DEF WorkOk, Busy, Claims
<1>5. Left(After(S)) = Timeout * Cardinality(S)
  <2>1. Timeout * Cardinality(S) \in Nat
    BY <1>1, WorkerAssumption
  <2> QED
    BY <2>1, <1>3 DEF Left
<1>6. Timeout * Cardinality(S) <= Timeout * Cardinality(x.todo)
  BY <1>1, LeftType, WorkerAssumption
<1>7. Timeout * Cardinality(S) \in Nat
  BY <1>1, WorkerAssumption
<1> QED
  BY <1>4, <1>5, <1>6, <1>7, LeftType

\* A step of one worker keeps the claims exact when it claims nothing new, takes no
\* longer and leaves alone the rows that stay claimed.
LEMMA ClaimsShrink ==
  ASSUME WorkInv, ClaimInv, NEW w \in Workers, NEW x, WorkOk(x),
         Claims(x) \subseteq Claims(work[w]), Left(x) <= Left(work[w]),
         work' = [work EXCEPT ![w] = x], Delivered \subseteq Delivered', outlived' = outlived,
         \A v \in Workers : \A c \in Claims(work'[v]) : rows'[c[1]].status # "pending",
         \A v \in Workers : \A c \in Claims(work'[v]) :
           c[1] \notin outlived => rows'[c[1]] = rows[c[1]]
  PROVE  WorkInv' /\ ClaimInv'
<1>1. /\ \A v \in Workers : WorkOk(work[v]) /\ WorkOk(work'[v])
      /\ work' \in [Workers -> {y \in Work : WorkOk(y)}]
  <2>1. x \in {y \in Work : WorkOk(y)}
    BY DEF WorkOk
  <2> QED
    BY <2>1 DEF WorkInv
<1>2. \A v \in Workers : Claims(work'[v]) \subseteq Claims(work[v])
  BY DEF WorkInv
<1>3. \A v \in Workers : Left(work'[v]) <= Left(work[v])
  <2> SUFFICES ASSUME NEW v \in Workers
               PROVE  Left(work'[v]) <= Left(work[v])
    OBVIOUS
  <2>1. Left(work[v]) \in Nat
    BY <1>1, LeftType
  <2>2. CASE v = w
    BY <2>2 DEF WorkInv
  <2>3. CASE v # w
    <3>1. work'[v] = work[v]
      BY <2>3 DEF WorkInv
    <3> QED
      BY <3>1, <2>1
  <2> QED
    BY <2>2, <2>3
<1>4. ASSUME NEW v \in Workers, NEW c \in Fresh(work[v])'
      PROVE  ClaimHolds(work[v], c)' /\ c \in Fresh(work[v])
  <2>1. c \in Fresh(work[v]) /\ c \in Claims(work'[v]) /\ c[1] \notin outlived
    BY <1>2 DEF Fresh
  <2>2. ClaimHolds(work[v], c) /\ rows'[c[1]] = rows[c[1]]
    BY <2>1 DEF ClaimInv
  <2>3. Left(work[v]) \in Nat /\ Left(work'[v]) \in Nat /\ Left(work'[v]) <= Left(work[v])
    BY <1>1, <1>3, LeftType
  <2>4. Fits => rows'[c[1]].due > Left(work'[v])
    BY <2>2, <2>3 DEF ClaimHolds
  <2> QED
    BY <2>1, <2>2, <2>4 DEF ClaimHolds, Left, Fits
<1>5. ExistInv'
  BY <1>2 DEF ClaimInv, ExistInv
<1>6. ClaimInv'
  <2>1. \A v \in Workers : \A c \in Fresh(work[v])' : ClaimHolds(work[v], c)'
    BY <1>4
  <2>2. \A u, v \in Workers : \A b \in Fresh(work[u])', c \in Fresh(work[v])' :
           b[1] = c[1] => u = v /\ b = c
    BY <1>4 DEF ClaimInv
  <2> QED
    BY <2>1, <2>2, <1>5 DEF ClaimInv, Fresh, Claims, Busy, Fits
<1> QED
  BY <1>1, <1>6 DEF WorkInv, WorkOk, Busy

\* As a step that leaves the table alone does.
LEMMA SameClaims ==
  ASSUME WorkInv, ClaimInv, NEW w \in Workers, NEW x, WorkOk(x),
         Claims(x) \subseteq Claims(work[w]), Left(x) <= Left(work[w]),
         work' = [work EXCEPT ![w] = x], rows' = rows, outlived' = outlived
  PROVE  WorkInv' /\ ClaimInv'
<1>1. \A v \in Workers : Claims(work'[v]) \subseteq Claims(work[v])
  BY DEF WorkInv
<1>2. \A v \in Workers : \A c \in Claims(work'[v]) : rows'[c[1]].status # "pending"
  BY <1>1 DEF ClaimInv, ExistInv
<1> QED
  BY <1>2, ClaimsShrink DEF Delivered

\* A step that leaves the workers alone, and the rows they claim, keeps the claims exact.
LEMMA ClaimsStay ==
  ASSUME WorkInv, ClaimInv, work' = work, Delivered \subseteq Delivered', outlived' = outlived,
         \A w \in Workers : \A c \in Claims(work[w]) : rows'[c[1]] = rows[c[1]]
  PROVE  WorkInv' /\ ClaimInv'
<1>1. \A w \in Workers : Fresh(work[w])' = Fresh(work[w]) /\ Fresh(work[w]) \subseteq Claims(work[w])
  BY DEF Fresh, Claims, Busy
<1>2. \A w \in Workers : \A c \in Fresh(work[w]) : ClaimHolds(work[w], c)'
  BY <1>1 DEF ClaimInv, ClaimHolds, Left, Fits
<1>3. ExistInv'
  BY DEF ClaimInv, ExistInv, Claims, Busy
<1> QED
  BY <1>1, <1>2, <1>3 DEF WorkInv, ClaimInv, Busy, WorkOk, Fits

\* Nothing due is claimed under a running lease.
LEMMA DueIsFree ==
  ASSUME ClaimInv, NEW v \in Workers, NEW c \in Fresh(work[v])
  PROVE  c[1] \notin DueNow
BY DEF ClaimInv, ClaimHolds, DueNow

\* A claim takes rows that are due and free, one claim each, for a lease.
LEMMA ClaimStep ==
  ASSUME TableInv, WorkInv, ClaimInv, NEW w \in Workers, Claim(w)
  PROVE  WorkInv' /\ ClaimInv'
<1>1. PICK S \in SUBSET DueNow :
        /\ Cardinality(S) = IF Cardinality(DueNow) < Batch THEN Cardinality(DueNow) ELSE Batch
        /\ rows' = [d \in Delivered |-> IF d \in S THEN [rows[d] EXCEPT !.due = Lease] ELSE rows[d]]
        /\ work' = [work EXCEPT ![w] = [NoWork EXCEPT !.pc = "next",
                                          !.todo = {<<d, rows[d].redrives>> : d \in S}]]
  BY DEF Claim
<1> DEFINE T == {<<d, rows[d].redrives>> : d \in S}
           x == [NoWork EXCEPT !.pc = "next", !.todo = T]
<1>2. S \subseteq Delivered /\ S \subseteq Ids /\ DueNow \subseteq Delivered
  BY DEF DueNow, TableInv
<1>3. IsFiniteSet(S) /\ IsFiniteSet(DueNow) /\ Cardinality(S) \in Nat /\ Cardinality(S) <= Batch
  <2>1. IsFiniteSet(Ids)
    BY FS_Interval, BoundAssumption DEF Ids
  <2>2. IsFiniteSet(S) /\ IsFiniteSet(DueNow)
    BY <1>2, <2>1, FS_Subset DEF TableInv
  <2>3. Cardinality(S) \in Nat /\ Cardinality(DueNow) \in Nat
    BY <2>2, FS_CardinalityType
  <2> QED
    BY <1>1, <2>2, <2>3, WorkerAssumption
<1>4. IsFiniteSet(T) /\ Cardinality(T) \in Nat /\ Cardinality(T) <= Batch
  <2> DEFINE f == [d \in S |-> <<d, rows[d].redrives>>]
  <2>1. f \in Surjection(S, T)
    BY DEF Surjection
  <2> HIDE DEF f, T
  <2>2. IsFiniteSet(T) /\ Cardinality(T) <= Cardinality(S)
    BY <2>1, <1>3, FS_Surjection
  <2> QED
    BY <2>2, <1>3, FS_CardinalityType, WorkerAssumption
<1>5. T \subseteq Ids \X Nat
  BY <1>2 DEF TableInv, IsRow
<1>6. \A c \in T : c[1] \in S /\ c = <<c[1], rows[c[1]].redrives>>
  OBVIOUS
<1>7. \A d \in Delivered : /\ rows'[d].status = rows[d].status
                           /\ rows'[d].redrives = rows[d].redrives
                           /\ d \in S => rows'[d].due = Lease
                           /\ d \notin S => rows'[d] = rows[d]
  BY <1>1 DEF TableInv, IsRow
<1>8. Delivered' = Delivered
  BY <1>1 DEF Delivered
<1> HIDE DEF T
<1>9. x \in Work /\ WorkOk(x) /\ Claims(x) = T /\ x.todo = T /\ x.pc = "next"
  <2>1. x \in Work /\ x.todo = T /\ x.age = 0 /\ x.pc = "next"
    BY <1>5 DEF NoWork, Work
  <2> QED
    BY <2>1, <1>4, WorkerAssumption DEF WorkOk, Claims, Busy
<1>10. Left(x) \in Nat /\ (Fits => Left(x) < Lease)
  <2>1. Left(x) = Timeout * Cardinality(T)
    <3>1. Timeout * Cardinality(T) \in Nat
      BY <1>4, WorkerAssumption
    <3> QED
      BY <1>9, <3>1 DEF Left
  <2>2. Timeout * Cardinality(T) <= Batch * Timeout
    BY <1>4, WorkerAssumption
  <2>3. Batch * Timeout \in Nat /\ Timeout * Cardinality(T) \in Nat /\ Lease \in Nat
    BY <1>4, WorkerAssumption
  <2> QED
    BY <2>1, <2>2, <2>3 DEF Fits
<1>11. work' = [work EXCEPT ![w] = x] /\ work[w].pc = "idle"
  BY <1>1 DEF Claim, T
<1> HIDE DEF x
<1>12. WorkInv'
  <2>1. work' \in [Workers -> {y \in Work : WorkOk(y)}]
    BY <1>9, <1>11 DEF WorkInv
  <2> QED
    BY <2>1 DEF WorkInv, WorkOk, Busy
<1>13. \A v \in Workers : v # w => work'[v] = work[v]
  BY <1>11 DEF WorkInv
<1>14. work'[w] = x
  BY <1>11 DEF WorkInv
<1>15. \A v \in Workers : \A c \in Fresh(work[v]) : c[1] \notin S
  BY DueIsFree
<1>16. /\ Fresh(work[w])' = {c \in T : c[1] \notin outlived}
       /\ \A v \in Workers : v # w => Fresh(work[v])' = Fresh(work[v])
  BY <1>9, <1>11, <1>13, <1>14 DEF Claim, Fresh, Claims, Busy
<1>17. ASSUME NEW v \in Workers, NEW c \in Fresh(work[v])'
       PROVE  ClaimHolds(work[v], c)'
  <2>1. CASE v = w
    <3>1. c \in T /\ c[1] \in S /\ c[1] \in Delivered /\ rows[c[1]].redrives = c[2]
      BY <2>1, <1>16, <1>6, <1>2
    <3>2. rows[c[1]].status = "retrying"
      BY <3>1 DEF DueNow
    <3>3. rows'[c[1]].due = Lease /\ rows'[c[1]].redrives = c[2] /\ rows'[c[1]].status = "retrying"
      BY <3>1, <3>2, <1>7
    <3>4. Lease \in Nat /\ Lease > 0
      BY WorkerAssumption
    <3> QED
      BY <3>1, <3>3, <3>4, <2>1, <1>10, <1>14 DEF ClaimHolds, Left, Fits
  <2>2. CASE v # w
    <3>1. work'[v] = work[v] /\ c \in Fresh(work[v]) /\ c[1] \in Delivered
      BY <2>2, <1>13, <1>16 DEF ClaimInv, ExistInv, Fresh
    <3>2. ClaimHolds(work[v], c) /\ rows'[c[1]] = rows[c[1]]
      BY <3>1, <1>15, <1>7 DEF ClaimInv
    <3> QED
      BY <3>1, <3>2 DEF ClaimHolds, Left, Fits
  <2> QED
    BY <2>1, <2>2
<1>18. ASSUME NEW u \in Workers, NEW v \in Workers, NEW b \in Fresh(work[u])',
              NEW c \in Fresh(work[v])', b[1] = c[1]
       PROVE  u = v /\ b = c
  <2>1. CASE u = w /\ v = w
    BY <2>1, <1>16, <1>6, <1>18
  <2>2. CASE u = w /\ v # w
    BY <2>2, <1>16, <1>6, <1>15, <1>18
  <2>3. CASE u # w /\ v = w
    BY <2>3, <1>16, <1>6, <1>15, <1>18
  <2>4. CASE u # w /\ v # w
    BY <2>4, <1>16, <1>18 DEF ClaimInv
  <2> QED
    BY <2>1, <2>2, <2>3, <2>4
<1>19. ExistInv'
  <2>1. \A v \in Workers : \A c \in Claims(work'[v]) :
          c[1] \in Delivered /\ rows[c[1]].status # "pending"
    <3> SUFFICES ASSUME NEW v \in Workers, NEW c \in Claims(work'[v])
                 PROVE  c[1] \in Delivered /\ rows[c[1]].status # "pending"
      OBVIOUS
    <3>1. CASE v = w
      BY <3>1, <1>2, <1>6, <1>9, <1>14 DEF DueNow
    <3>2. CASE v # w
      BY <3>2, <1>13 DEF ClaimInv, ExistInv
    <3> QED
      BY <3>1, <3>2
  <2> QED
    BY <2>1, <1>7, <1>8 DEF ExistInv, Claims, Busy
<1>20. \A v, u \in Workers : \A b \in Fresh(work[v])', c \in Fresh(work[u])' :
         b[1] = c[1] => v = u /\ b = c
  BY <1>18
<1>21. \A v \in Workers : \A c \in Fresh(work[v])' : ClaimHolds(work[v], c)'
  BY <1>17
<1>22. Fits => outlived' = {}
  BY DEF Claim, ClaimInv
<1> QED
  BY <1>12, <1>19, <1>20, <1>21, <1>22 DEF ClaimInv, Fits

\* Time passes for a claim as it does for the post that keeps its pass.
LEMMA TickClaims ==
  ASSUME TableInv, WorkInv, ClaimInv, Tick
  PROVE  WorkInv' /\ ClaimInv'
<1>1. /\ \A w \in Workers : work[w].pc \in {"idle", "post"} /\ work[w].age < Timeout
      /\ rows' = [d \in Delivered |-> IF rows[d].due > 0 THEN [rows[d] EXCEPT !.due = @ - 1] ELSE rows[d]]
      /\ work' = [w \in Workers |-> IF work[w].pc = "post" THEN [work[w] EXCEPT !.age = @ + 1] ELSE work[w]]
  BY DEF Tick
<1>2. Delivered' = Delivered
  BY <1>1 DEF Delivered
<1>3. \A d \in Delivered : /\ rows'[d].status = rows[d].status
                           /\ rows'[d].redrives = rows[d].redrives
                           /\ rows[d].due > 0 => rows'[d].due = rows[d].due - 1
  BY <1>1 DEF TableInv, IsRow
<1>4. ASSUME NEW w \in Workers
      PROVE  /\ work'[w] \in Work /\ WorkOk(work'[w])
             /\ Claims(work'[w]) = Claims(work[w])
             /\ work[w].pc = "post" => Left(work'[w]) = Left(work[w]) - 1
             /\ work[w].pc # "post" => Claims(work[w]) = {}
  <2>1. WorkOk(work[w]) /\ work[w] \in Work
    BY DEF WorkInv
  <2>2. CASE work[w].pc # "post"
    <3>1. work'[w] = work[w] /\ work[w].pc = "idle"
      BY <1>1, <2>2
    <3> QED
      BY <2>1, <2>2, <3>1 DEF WorkOk, Claims, Busy
  <2>3. CASE work[w].pc = "post"
    <3> DEFINE y == [work[w] EXCEPT !.age = @ + 1]
    <3>1. work'[w] = y /\ work[w].age < Timeout
      BY <1>1, <2>3
    <3>2. y \in Work /\ y.pc = "post" /\ y.todo = work[w].todo /\ y.one = work[w].one
          /\ y.age = work[w].age + 1
      BY <2>1, <2>3 DEF Work
    <3> HIDE DEF y
    <3>3. y.age <= Timeout /\ work[w].age \in Nat /\ Timeout \in Nat
      BY <2>1, <3>1, <3>2, WorkerAssumption DEF Work
    <3>4. WorkOk(y) /\ Claims(y) = Claims(work[w])
      BY <2>1, <2>3, <3>2, <3>3 DEF WorkOk, Claims, Busy
    <3>5. Left(y) = Left(work[w]) - 1
      <4>1. Timeout * Cardinality(work[w].todo) \in Nat
        BY <2>1, LeftType
      <4> QED
        BY <4>1, <3>2, <3>3, <2>3 DEF Left
    <3> QED
      BY <2>3, <3>1, <3>2, <3>4, <3>5
  <2> QED
    BY <2>2, <2>3
<1>5. WorkInv'
  <2>1. \A w \in Workers : work'[w] \in {y \in Work : WorkOk(y)}
    BY <1>4
  <2>2. work' \in [Workers -> {y \in Work : WorkOk(y)}]
    BY <1>1, <2>1
  <2> QED
    BY <2>2 DEF WorkInv, WorkOk, Busy
<1>6. \A w \in Workers : \A c \in Fresh(work[w])' :
        /\ c \in Fresh(work[w]) /\ c[1] \in Delivered
        /\ rows[c[1]].due # 1
        /\ Left(work'[w]) = Left(work[w]) - 1
  <2> SUFFICES ASSUME NEW w \in Workers, NEW c \in Fresh(work[w])'
               PROVE  /\ c \in Fresh(work[w]) /\ c[1] \in Delivered
                      /\ rows[c[1]].due # 1
                      /\ Left(work'[w]) = Left(work[w]) - 1
    OBVIOUS
  <2>1. c \in Claims(work'[w]) /\ c[1] \notin outlived'
    BY DEF Fresh, Claims, Busy
  <2>2. c \in Claims(work[w]) /\ c[1] \in Delivered /\ Left(work'[w]) = Left(work[w]) - 1
    BY <2>1, <1>4 DEF ClaimInv, ExistInv
  <2>3. c[1] \notin outlived /\ rows[c[1]].due # 1
    BY <2>1, <2>2 DEF Tick
  <2> QED
    BY <2>2, <2>3 DEF Fresh
<1>7. ASSUME NEW w \in Workers, NEW c \in Fresh(work[w])'
      PROVE  ClaimHolds(work[w], c)'
  <2>1. ClaimHolds(work[w], c) /\ c[1] \in Delivered /\ Left(work'[w]) = Left(work[w]) - 1
        /\ rows[c[1]].due # 1
    BY <1>6 DEF ClaimInv
  <2>2. Left(work[w]) \in Nat /\ Left(work'[w]) \in Nat
    BY <1>4, LeftType DEF WorkInv
  <2>3. rows'[c[1]].due \in Nat /\ rows'[c[1]].due > 0
        /\ (Fits => rows'[c[1]].due > Left(work'[w]))
    BY <2>1, <2>2, <1>3 DEF ClaimHolds
  <2> QED
    BY <2>1, <2>3, <1>3 DEF ClaimHolds, Left, Fits
<1>8. \A u, v \in Workers : \A b \in Fresh(work[u])', c \in Fresh(work[v])' :
        b[1] = c[1] => u = v /\ b = c
  BY <1>6 DEF ClaimInv
<1>9. ExistInv'
  <2>1. \A w \in Workers : \A c \in Claims(work'[w]) :
          c[1] \in Delivered /\ rows[c[1]].status # "pending"
    BY <1>4 DEF ClaimInv, ExistInv
  <2> QED
    BY <2>1, <1>2, <1>3 DEF ExistInv, Claims, Busy
<1>10. ASSUME Fits PROVE outlived' = {}
  <2> SUFFICES ASSUME NEW d \in Delivered, rows[d].due = 1,
                      NEW w \in Workers, NEW c \in Claims(work[w]), c[1] = d
               PROVE  FALSE
    BY <1>10 DEF Tick, ClaimInv
  <2>1. ClaimHolds(work[w], c)
    BY <1>10 DEF ClaimInv, Fresh
  <2>2. Left(work[w]) = Left(work'[w]) + 1 /\ Left(work'[w]) \in Nat /\ Left(work[w]) \in Nat
    BY <1>4, LeftType DEF WorkInv
  <2> QED
    BY <1>10, <2>1, <2>2 DEF ClaimHolds
<1>11. \A w \in Workers : \A c \in Fresh(work[w])' : ClaimHolds(work[w], c)'
  BY <1>7
<1> QED
  BY <1>5, <1>8, <1>9, <1>10, <1>11 DEF ClaimInv, Fits

\* The next claim is abandoned, sent or skipped: it leaves the pass, or is the one at hand.
LEMMA AttemptClaims ==
  ASSUME TableInv, WorkInv, ClaimInv, NEW w \in Workers, NEW one \in work[w].todo,
         Abandon(w, one) \/ Send(w, one) \/ Skip(w, one), work[w].pc = "next", outlived' = outlived
  PROVE  WorkInv' /\ ClaimInv'
<1>1. WorkOk(work[w]) /\ work[w] \in Work /\ Claims(work[w]) = work[w].todo /\ one \in Ids \X Nat
  BY LeftType DEF WorkInv, Claims, Busy
<1>2. one \in Claims(work[w]) /\ one[1] \in Delivered /\ outlived' = outlived
      /\ (one[1] \notin outlived => one \in Fresh(work[w]))
  BY <1>1 DEF ClaimInv, ExistInv, Fresh
<1> DEFINE S == work[w].todo \ {one}
           y == [pc |-> "post", todo |-> S, one |-> one, age |-> 0, ok |-> FALSE]
<1>3. S \subseteq work[w].todo /\ one \notin S
  OBVIOUS
<1> HIDE DEF S
<1>4. CASE Skip(w, one)
  <2>1. work' = [work EXCEPT ![w] = After(S)] /\ rows' = rows
    BY <1>4 DEF Skip, Continue, After, S
  <2>2. Claims(After(S)) \subseteq Claims(work[w]) /\ Left(After(S)) <= Left(work[w])
    BY <1>1, <1>3, Continued
  <2>3. WorkOk(After(S))
    BY <1>1, <1>3, Continued
  <2> QED
    BY <2>1, <2>2, <2>3, <1>2, SameClaims
<1>5. CASE Abandon(w, one)
  <2>1. work' = [work EXCEPT ![w] = After(S)] /\ rows' = Settled(one[1], "failed")
    BY <1>5 DEF Abandon, Continue, After, S
  <2>2. Claims(After(S)) = S /\ Left(After(S)) <= Left(work[w]) /\ WorkOk(After(S))
    BY <1>1, <1>3, Continued
  <2>3. Delivered' = Delivered
    BY <2>1 DEF Delivered, Settled
  <2>4. \A d \in Delivered : d # one[1] => rows'[d] = rows[d]
    BY <2>1 DEF Settled, TableInv
  <2>5. \A v \in Workers : \A c \in Claims(work'[v]) : c \in Claims(work[v]) /\ (v = w => c # one)
    BY <2>1, <2>2, <1>1, <1>3 DEF WorkInv
  <2>6. \A v \in Workers : \A c \in Claims(work'[v]) :
          c[1] \in Delivered /\ (c[1] \notin outlived => c[1] # one[1])
    BY <2>5, <1>2 DEF ClaimInv, ExistInv, Fresh
  <2>7. rows'[one[1]].status = "failed"
    <3>1. /\ Settled(one[1], "failed") = Finished(one[1], "failed", rows[one[1]].attempts, None)
          /\ Settled(one[1], "failed")[one[1]].status = "failed"
      BY <1>2, SettledRow
    <3> QED
      BY <2>1, <3>1
  <2>8. \A v \in Workers : \A c \in Claims(work'[v]) : rows'[c[1]].status # "pending"
    BY <2>4, <2>5, <2>6, <2>7 DEF ClaimInv, ExistInv
  <2>9. \A v \in Workers : \A c \in Claims(work'[v]) :
          c[1] \notin outlived => rows'[c[1]] = rows[c[1]]
    BY <2>4, <2>6
  <2>10. Claims(After(S)) \subseteq Claims(work[w])
    BY <2>2, <1>1, <1>3
  <2> QED
    BY <2>1, <2>2, <2>3, <2>8, <2>9, <2>10, <1>2, ClaimsShrink
<1>6. CASE Send(w, one)
  <2>1. work' = [work EXCEPT ![w] = y] /\ rows' = rows
    BY <1>6 DEF Send, S
  <2>2. IsFiniteSet(S) /\ Cardinality(S) = Cardinality(work[w].todo) - 1 /\ Cardinality(work[w].todo) \in Nat
    BY <1>1, LeftType, FS_RemoveElement DEF WorkOk, S
  <2>3. y \in Work /\ y.pc = "post" /\ y.todo = S /\ y.one = one /\ y.age = 0
    BY <1>1, <1>3 DEF Work
  <2> HIDE DEF y
  <2>4. WorkOk(y) /\ Claims(y) = Claims(work[w])
    <3>1. Claims(y) = S \cup {one}
      BY <2>3 DEF Claims, Busy
    <3> QED
      BY <3>1, <2>2, <2>3, <1>1, <1>3, WorkerAssumption DEF WorkOk, Busy, S
  <2>5. Left(y) <= Left(work[w])
    <3>1. Timeout * Cardinality(work[w].todo) = Timeout * Cardinality(S) + Timeout
          /\ Timeout * Cardinality(S) \in Nat
      <4>1. Cardinality(S) \in Nat /\ Cardinality(work[w].todo) = Cardinality(S) + 1
        BY <2>2, FS_CardinalityType
      <4> QED
        BY <4>1, WorkerAssumption
    <3>2. Left(y) = Timeout * Cardinality(S) + Timeout
      BY <2>3, WorkerAssumption DEF Left
    <3> QED
      BY <3>1, <3>2, <1>1, LeftType
  <2> QED
    BY <2>1, <2>4, <2>5, <1>2, SameClaims
<1> QED
  BY <1>4, <1>5, <1>6

\* The endpoint answered or did not: the claim at hand waits to be recorded.
LEMMA AnswerClaims ==
  ASSUME WorkInv, ClaimInv, NEW w \in Workers, NEW ok \in BOOLEAN, Answer(w, ok)
  PROVE  WorkInv' /\ ClaimInv'
<1> DEFINE y == [work[w] EXCEPT !.pc = "record", !.age = 0, !.ok = ok]
<1>1. WorkOk(work[w]) /\ work[w] \in Work
  BY DEF WorkInv
<1>2. work' = [work EXCEPT ![w] = y] /\ rows' = rows /\ outlived' = outlived /\ work[w].pc = "post"
  BY DEF Answer
<1>3. y \in Work /\ y.pc = "record" /\ y.todo = work[w].todo /\ y.one = work[w].one /\ y.age = 0
  BY <1>1 DEF Work
<1> HIDE DEF y
<1>4. WorkOk(y) /\ Claims(y) = Claims(work[w])
  BY <1>1, <1>2, <1>3, WorkerAssumption DEF WorkOk, Busy, Claims
<1>5. Left(y) <= Left(work[w])
  <2>1. Left(y) = Timeout * Cardinality(work[w].todo)
    BY <1>3, <1>1, LeftType DEF Left
  <2> QED
    BY <2>1, <1>1, LeftType
<1> QED
  BY <1>2, <1>4, <1>5, SameClaims

\* The outcome is written, or the write fails: the claim at hand is given up.
LEMMA RecordClaims ==
  ASSUME TableInv, WorkInv, ClaimInv, NEW w \in Workers, Record(w)
  PROVE  WorkInv' /\ ClaimInv'
<1> DEFINE S == work[w].todo
<1>1. WorkOk(work[w]) /\ work[w] \in Work /\ work[w].pc = "record"
  BY DEF WorkInv, Record
<1>2. work[w].one \notin S /\ Claims(work[w]) = S \cup {work[w].one}
  BY <1>1 DEF WorkOk, Busy, Claims
<1>3. work' = [work EXCEPT ![w] = After(S)] /\ (rows' = rows \/ rows' = Outcome(w))
  BY DEF Record, Continue, After
<1>4. Claims(After(S)) = S /\ Left(After(S)) <= Left(work[w]) /\ WorkOk(After(S))
  BY <1>1, Continued
<1>5. Delivered' = Delivered
  BY <1>3 DEF Outcome, Delivered
<1>6. \A d \in Delivered : d # work[w].one[1] => rows'[d] = rows[d]
  BY <1>3 DEF Outcome, TableInv
<1>7. \A v \in Workers : \A c \in Claims(work'[v]) :
        c \in Claims(work[v]) /\ (v = w => c # work[w].one)
  BY <1>2, <1>3, <1>4 DEF WorkInv
<1>8. \A v \in Workers : \A c \in Claims(work'[v]) :
        c[1] \in Delivered /\ (c[1] \notin outlived => c[1] # work[w].one[1])
  BY <1>2, <1>7 DEF ClaimInv, ExistInv, Fresh
<1>9. rows'[work[w].one[1]].status # "pending"
  <2>1. work[w].one \in Claims(work[w]) /\ work[w].one[1] \in Delivered /\ work[w].ok \in BOOLEAN
        /\ rows[work[w].one[1]].status # "pending"
    BY <1>1, <1>2 DEF ClaimInv, ExistInv, Work
  <2>2. Outcome(w)[work[w].one[1]].status = Verdict(w)
    BY <2>1, OutcomeRow
  <2> QED
    BY <1>3, <2>1, <2>2 DEF Verdict
<1>10. \A v \in Workers : \A c \in Claims(work'[v]) : rows'[c[1]].status # "pending"
  BY <1>6, <1>7, <1>8, <1>9 DEF ClaimInv, ExistInv
<1>11. \A v \in Workers : \A c \in Claims(work'[v]) :
         c[1] \notin outlived => rows'[c[1]] = rows[c[1]]
  BY <1>6, <1>8
<1>12. outlived' = outlived
  BY DEF Record
<1> QED
  BY <1>2, <1>3, <1>4, <1>5, <1>10, <1>11, <1>12, ClaimsShrink

\* A pass that stops gives all its claims up.
LEMMA CrashClaims ==
  ASSUME WorkInv, ClaimInv, NEW w \in Workers, Crash(w)
  PROVE  WorkInv' /\ ClaimInv'
<1>1. WorkOk(work[w]) /\ After({}) = NoWork /\ {} \subseteq work[w].todo
  BY DEF WorkInv, After
<1>2. WorkOk(NoWork) /\ Claims(NoWork) = {} /\ Left(NoWork) <= Left(work[w])
  BY <1>1, Continued
<1> QED
  BY <1>2, SameClaims DEF Crash

-----------------------------------------------------------------------------
(* The table and the budgets.                                              *)

\* A post in flight counts one.
LEMMA InFlightType == \A d : InFlight(d) \in {0, 1}
BY DEF InFlight

\* A step that at most reschedules rows keeps the table and the budgets, when a post it
\* forgets is paid for by a fault.
LEMMA Rescheduled ==
  ASSUME TableInv, RequestInv, BudgetInv,
         Delivered' = Delivered, rows' = [d \in Delivered |-> rows'[d]],
         \A d \in Delivered : /\ IsRow(rows'[d])
                              /\ rows'[d].status = rows[d].status
                              /\ rows'[d].attempts = rows[d].attempts
                              /\ rows'[d].redrives = rows[d].redrives,
         inline' = inline, sent' = sent, faults' \in Nat, outlived \subseteq outlived',
         \A d \in Delivered : /\ InFlight(d)' <= InFlight(d)
                              /\ InFlight(d) + faults <= InFlight(d)' + faults'
  PROVE  TableInv' /\ RequestInv' /\ BudgetInv'
<1>1. TableInv'
  BY DEF TableInv, IsRow
<1>2. RequestInv'
  BY DEF RequestInv
<1>3. BudgetInv'
  <2> SUFFICES ASSUME NEW d \in Delivered \ outlived, rows[d].status # "pending"
               PROVE  /\ rows[d].redrives <= RedriveMax
                      /\ rows[d].status = "retrying" => rows[d].redrives < RedriveMax
                      /\ rows[d].attempts <= InlineMax + rows[d].redrives
                      /\ rows[d].attempts + InFlight(d)' <= sent[d]
                      /\ sent[d] <= rows[d].attempts + InFlight(d)' + faults'
    BY DEF BudgetInv
  <2>1. InFlight(d) \in {0, 1} /\ InFlight(d)' \in {0, 1}
    BY DEF InFlight
  <2>2. sent[d] \in Nat /\ rows[d].attempts \in Nat /\ faults \in Nat
    BY DEF TableInv, IsRow
  <2> QED
    BY <2>1, <2>2 DEF BudgetInv
<1> QED
  BY <1>1, <1>2, <1>3

\* A row that changes no column changes its schedule at most.
LEMMA SameRows ==
  ASSUME TableInv, rows' = rows
  PROVE  /\ Delivered' = Delivered /\ rows' = [d \in Delivered |-> rows'[d]]
         /\ \A d \in Delivered : /\ IsRow(rows'[d])
                                 /\ rows'[d].status = rows[d].status
                                 /\ rows'[d].attempts = rows[d].attempts
                                 /\ rows'[d].redrives = rows[d].redrives
BY DEF TableInv, Delivered

\* A delivery is opened by the request that sends it for the first time.
LEMMA OpenBudget ==
  ASSUME Inv, Open
  PROVE  /\ TableInv' /\ RequestInv' /\ BudgetInv'
         /\ Delivered \subseteq Delivered' /\ \A d \in Delivered : rows'[d] = rows[d]
<1> DEFINE d0 == Cardinality(Delivered) + 1
           r0 == [status |-> "pending", attempts |-> 0, redrives |-> 0, due |-> None]
<1>1. PICK n \in Nat : Delivered = 1..n
  BY DEF Inv, TableInv
<1>2. d0 = n + 1 /\ d0 \notin Delivered /\ Delivered \cup {d0} = 1..(n + 1)
  <2>1. Cardinality(1..n) = n
    BY FS_Interval
  <2> QED
    BY <1>1, <2>1
<1>3. d0 \in Ids /\ sent[d0] = 0
  BY <1>2 DEF Open, Inv, TableInv
<1>4. /\ rows' = [e \in Delivered \cup {d0} |-> IF e = d0 THEN r0 ELSE rows[e]]
      /\ inline' = [inline EXCEPT ![d0] = [pc |-> "post", attempt |-> 1, ok |-> FALSE]]
      /\ sent' = [sent EXCEPT ![d0] = @ + 1]
      /\ work' = work /\ faults' = faults /\ outlived' = outlived
  BY DEF Open
<1>5. Delivered' = Delivered \cup {d0}
  BY <1>4 DEF Delivered
<1>6. IsRow(r0)
  BY DEF IsRow
<1> HIDE DEF d0, r0
<1>7. TableInv'
  <2>1. \E k \in Nat : Delivered' = 1..k
    BY <1>2, <1>5
  <2>2. Delivered' \subseteq Ids
    BY <1>3, <1>5 DEF Inv, TableInv
  <2>3. rows' = [d \in Delivered' |-> rows'[d]] /\ \A d \in Delivered' : IsRow(rows'[d])
    BY <1>4, <1>5, <1>6 DEF Inv, TableInv
  <2>4. inline' \in [Ids -> Inline] /\ sent' \in [Ids -> Nat] /\ faults' \in Nat
    <3>1. [pc |-> "post", attempt |-> 1, ok |-> FALSE] \in Inline
      BY DEF Inline
    <3> QED
      BY <3>1, <1>3, <1>4 DEF Inv, TableInv
  <2>5. \A d \in Ids \ Delivered' : sent'[d] = 0
    BY <1>3, <1>4, <1>5 DEF Inv, TableInv
  <2> QED
    BY <2>1, <2>2, <2>3, <2>4, <2>5 DEF TableInv, IsRow
<1>8. /\ \A d \in Delivered : /\ rows'[d] = rows[d] /\ inline'[d] = inline[d]
                              /\ sent'[d] = sent[d] /\ InFlight(d)' = InFlight(d)
      /\ rows'[d0] = r0 /\ sent'[d0] = 1
      /\ inline'[d0] = [pc |-> "post", attempt |-> 1, ok |-> FALSE]
  BY <1>2, <1>3, <1>4 DEF Inv, TableInv, InFlight, Handling, Busy
<1>9. RequestInv'
  BY <1>5, <1>8, WorkerAssumption DEF Inv, RequestInv, r0
<1>10. BudgetInv'
  <2> SUFFICES ASSUME NEW d \in Delivered' \ outlived, rows'[d].status # "pending"
               PROVE  /\ rows'[d].redrives <= RedriveMax
                      /\ rows'[d].status = "retrying" => rows'[d].redrives < RedriveMax
                      /\ rows'[d].attempts <= InlineMax + rows'[d].redrives
                      /\ rows'[d].attempts + InFlight(d)' <= sent'[d]
                      /\ sent'[d] <= rows'[d].attempts + InFlight(d)' + faults'
    BY <1>4 DEF BudgetInv
  <2>1. d \in Delivered
    BY <1>5, <1>8 DEF r0
  <2> QED
    BY <2>1, <1>4, <1>8 DEF Inv, BudgetInv
<1> QED
  BY <1>5, <1>7, <1>8, <1>9, <1>10

\* The request's own attempts: the row stays pending and counts nothing yet.
LEMMA InlineBudget ==
  ASSUME Inv, NEW d \in Delivered,
         (\E ok \in BOOLEAN : InlineAnswer(d, ok)) \/ InlineRetry(d) \/ Cancel(d)
  PROVE  TableInv' /\ RequestInv' /\ BudgetInv'
<1>1. /\ rows' = rows /\ faults' = faults /\ work' = work /\ outlived' = outlived /\ d \in Ids
      /\ inline[d].pc # "none" /\ inline[d] \in Inline /\ Delivered' = Delivered
  BY DEF InlineAnswer, InlineRetry, Cancel, Inv, TableInv, Delivered
<1>2. /\ rows[d].status = "pending" /\ sent[d] = inline[d].attempt
      /\ inline[d].attempt \in 1..InlineMax
      /\ inline[d].pc = "wait" => inline[d].attempt < InlineMax
  BY <1>1 DEF Inv, RequestInv
<1>3. PICK x \in Inline, k \in Nat :
        /\ inline' = [inline EXCEPT ![d] = x] /\ sent' = [sent EXCEPT ![d] = k]
        /\ k <= InlineMax
        /\ x.pc # "none" => /\ k = x.attempt /\ x.attempt \in 1..InlineMax
                            /\ x.pc = "wait" => x.attempt < InlineMax
  <2>1. ASSUME NEW ok \in BOOLEAN, InlineAnswer(d, ok)
        PROVE  \E x \in Inline, k \in Nat :
                 /\ inline' = [inline EXCEPT ![d] = x] /\ sent' = [sent EXCEPT ![d] = k]
                 /\ k <= InlineMax
                 /\ x.pc # "none" => /\ k = x.attempt /\ x.attempt \in 1..InlineMax
                                     /\ x.pc = "wait" => x.attempt < InlineMax
    <3> DEFINE x == [inline[d] EXCEPT !.ok = ok,
                                      !.pc = IF ok \/ inline[d].attempt = InlineMax THEN "finish"
                                             ELSE "wait"]
    <3>1. x \in Inline /\ x.attempt = inline[d].attempt /\ (x.pc = "wait" => x.attempt # InlineMax)
      BY <1>1 DEF Inline
    <3>2. inline' = [inline EXCEPT ![d] = x] /\ sent' = [sent EXCEPT ![d] = sent[d]]
      BY <2>1, <1>1 DEF InlineAnswer, Inv, TableInv
    <3>3. sent[d] \in Nat /\ sent[d] <= InlineMax
      BY <1>1, <1>2, WorkerAssumption DEF Inv, TableInv
    <3> HIDE DEF x
    <3>4. x.attempt = sent[d] /\ x.attempt \in 1..InlineMax
          /\ (x.pc = "wait" => x.attempt < InlineMax)
      BY <3>1, <1>2, WorkerAssumption
    <3> QED
      BY <3>1, <3>2, <3>3, <3>4
  <2>2. CASE InlineRetry(d)
    <3> DEFINE x == [pc |-> "post", attempt |-> inline[d].attempt + 1, ok |-> inline[d].ok]
    <3>1. x \in Inline /\ x.attempt = inline[d].attempt + 1 /\ x.pc = "post"
      BY <1>1 DEF Inline
    <3>2. inline' = [inline EXCEPT ![d] = x] /\ sent' = [sent EXCEPT ![d] = sent[d] + 1]
      <4>1. inline \in [Ids -> Inline] /\ sent \in [Ids -> Nat]
        BY DEF Inv, TableInv
      <4> DEFINE y == [inline[d] EXCEPT !.pc = "post"]
      <4>2. y = [pc |-> "post", attempt |-> inline[d].attempt, ok |-> inline[d].ok]
        BY <1>1 DEF Inline
      <4>3. [y EXCEPT !.attempt = inline[d].attempt + 1] = x
        <5> HIDE DEF y
        <5> QED
          BY <4>2
      <4>4. inline' = [inline EXCEPT ![d].pc = "post", ![d].attempt = @ + 1]
        BY <2>2 DEF InlineRetry
      <4>5. inline' = [inline EXCEPT ![d] = x]
        BY <4>1, <4>3, <4>4, <1>1
      <4> QED
        BY <2>2, <4>1, <4>5, <1>1 DEF InlineRetry
    <3>3. sent[d] \in Nat /\ inline[d].attempt < InlineMax
      BY <2>2, <1>1, <1>2 DEF Inv, TableInv, InlineRetry
    <3> HIDE DEF x
    <3>4. sent[d] + 1 \in Nat /\ sent[d] + 1 <= InlineMax /\ x.attempt = sent[d] + 1
          /\ x.attempt \in 1..InlineMax
      BY <3>1, <3>3, <1>2, WorkerAssumption
    <3> QED
      BY <3>1, <3>2, <3>4
  <2>3. CASE Cancel(d)
    <3>1. Ended \in Inline /\ Ended.pc = "none"
      BY DEF Ended, Inline
    <3>2. inline' = [inline EXCEPT ![d] = Ended] /\ sent' = [sent EXCEPT ![d] = sent[d]]
      BY <2>3, <1>1 DEF Cancel, Inv, TableInv
    <3>3. sent[d] \in Nat /\ sent[d] <= InlineMax
      BY <1>1, <1>2, WorkerAssumption DEF Inv, TableInv
    <3> QED
      BY <3>1, <3>2, <3>3
  <2> QED
    BY <2>1, <2>2, <2>3
<1>4. TableInv'
  BY <1>1, <1>3 DEF Inv, TableInv, IsRow
<1>5. /\ inline'[d] = x /\ sent'[d] = k
      /\ \A e \in Delivered : /\ e # d => inline'[e] = inline[e] /\ sent'[e] = sent[e]
                              /\ InFlight(e)' = InFlight(e)
  BY <1>1, <1>3 DEF Inv, TableInv, InFlight, Handling, Busy
<1>6. RequestInv'
  BY <1>1, <1>2, <1>3, <1>5 DEF Inv, RequestInv
<1>7. BudgetInv'
  <2>1. \A e \in Delivered : rows[e].status # "pending" => e # d
    BY <1>2
  <2> QED
    BY <1>1, <1>5, <2>1 DEF Inv, BudgetInv
<1> QED
  BY <1>4, <1>6, <1>7

\* A worker handles what it has claimed, and while the lease runs alone and only once.
LEMMA HandlerClaims ==
  ASSUME ClaimInv, NEW d, NEW w \in Handling(d)
  PROVE  /\ w \in Workers /\ work[w].one \in Claims(work[w]) /\ work[w].one[1] = d
         /\ d \in Delivered /\ rows[d].status # "pending"
         /\ InFlight(d) = 1
         /\ d \notin outlived => /\ rows[d].status = "retrying"
                                 /\ rows[d].redrives = work[w].one[2]
                                 /\ Handling(d) = {w}
<1>1. \A v \in Handling(d) : v \in Workers /\ work[v].one \in Claims(work[v]) /\ work[v].one[1] = d
  BY DEF Handling, Claims
<1>2. ASSUME d \notin outlived
      PROVE  /\ rows[d].status = "retrying"
             /\ rows[d].redrives = work[w].one[2]
             /\ Handling(d) = {w}
  <2>1. \A v \in Handling(d) : work[v].one \in Fresh(work[v])
    BY <1>1, <1>2 DEF Fresh
  <2>2. \A v \in Handling(d) : v = w
    BY <1>1, <2>1 DEF ClaimInv
  <2>3. ClaimHolds(work[w], work[w].one)
    BY <1>1, <2>1 DEF ClaimInv
  <2> QED
    BY <1>1, <2>2, <2>3 DEF ClaimHolds
<1> QED
  BY <1>1, <1>2 DEF ClaimInv, ExistInv, InFlight

\* What a pass has yet to attempt under its lease is in nobody's flight.
LEMMA TodoIsNotInFlight ==
  ASSUME WorkInv, ClaimInv, NEW w \in Workers, NEW c \in work[w].todo, c[1] \notin outlived
  PROVE  Handling(c[1]) = {} /\ InFlight(c[1]) = 0
<1>1. c \in Fresh(work[w]) /\ WorkOk(work[w])
  BY DEF Fresh, Claims, WorkInv
<1>2. ASSUME NEW v \in Handling(c[1])
      PROVE  FALSE
  <2>1. v \in Workers /\ work[v].one \in Fresh(work[v]) /\ work[v].one[1] = c[1] /\ Busy(work[v])
    BY HandlerClaims DEF Handling, Fresh
  <2>2. v = w /\ work[w].one = c
    BY <1>1, <2>1 DEF ClaimInv
  <2> QED
    BY <1>1, <2>1, <2>2 DEF WorkOk
<1> QED
  BY <1>2 DEF InFlight

\* The outcome of the request: settled or parked, it counts the request's attempts.
LEMMA FinishBudget ==
  ASSUME Inv, NEW d \in Delivered, Finish(d)
  PROVE  /\ TableInv' /\ RequestInv' /\ BudgetInv'
         /\ Delivered' = Delivered /\ rows[d].status = "pending"
         /\ \A e \in Delivered : e # d => rows'[e] = rows[e]
<1> DEFINE s == IF inline[d].ok THEN "success" ELSE IF RedriveDelay = 0 THEN "failed" ELSE "retrying"
           u == IF s = "retrying" THEN RedriveDelay ELSE None
<1>1. /\ rows' = [rows EXCEPT ![d].status = s, ![d].attempts = inline[d].attempt, ![d].due = u]
      /\ inline' = [inline EXCEPT ![d] = Ended] /\ inline[d].pc = "finish"
      /\ work' = work /\ sent' = sent /\ faults' = faults /\ outlived' = outlived
  BY DEF Finish
<1>2. d \in Ids /\ rows[d].status = "pending" /\ rows[d].redrives = 0
      /\ sent[d] = inline[d].attempt /\ inline[d].attempt \in 1..InlineMax
  BY <1>1 DEF Inv, TableInv, RequestInv
<1>3. s \in {"success", "failed", "retrying"}
  OBVIOUS
<1> HIDE DEF s, u
<1>4. /\ rows' = [e \in Delivered |-> rows'[e]]
      /\ rows'[d] = [status |-> s, attempts |-> inline[d].attempt, redrives |-> 0, due |-> u]
      /\ \A e \in Delivered : e # d => rows'[e] = rows[e]
  <2>1. TableInv
    BY DEF Inv
  <2>2. /\ rows' = [e \in Delivered |-> rows'[e]]
        /\ rows'[d] = [status |-> s, attempts |-> inline[d].attempt,
                       redrives |-> rows[d].redrives, due |-> u]
        /\ \A e \in Delivered : e # d => rows'[e] = rows[e]
    <3>1. rows' = Finished(d, s, inline[d].attempt, u)
      BY <1>1 DEF Finished
    <3> QED
      BY <2>1, <3>1, FinishedRow
  <2> QED
    BY <2>2, <1>2
<1>5. Delivered' = Delivered
  BY <1>4 DEF Delivered
<1>6. IsRow(rows'[d])
  BY <1>2, <1>3, <1>4 DEF IsRow
<1>7. \A e \in Delivered : inline'[e] = (IF e = d THEN Ended ELSE inline[e])
  BY <1>1 DEF Inv, TableInv
<1>8. TableInv'
  <2>1. Ended \in Inline
    BY DEF Ended, Inline
  <2>2. inline' \in [Ids -> Inline] /\ sent' \in [Ids -> Nat] /\ faults' \in Nat
    BY <2>1, <1>1, <1>2 DEF Inv, TableInv
  <2>3. \A e \in Delivered : IsRow(rows'[e])
    BY <1>4, <1>6 DEF Inv, TableInv
  <2> QED
    BY <2>2, <2>3, <1>1, <1>4, <1>5 DEF Inv, TableInv, IsRow
<1>9. RequestInv'
  <2>1. inline'[d].pc = "none" /\ rows'[d].status # "pending"
    BY <1>3, <1>4, <1>7 DEF Ended
  <2>2. \A e \in Delivered : e # d => rows'[e] = rows[e] /\ inline'[e] = inline[e]
    BY <1>4, <1>7
  <2> QED
    <3>1. sent' = sent /\ Delivered' = Delivered /\ RequestInv
      BY <1>1, <1>5 DEF Inv
    <3> SUFFICES ASSUME NEW e \in Delivered
                 PROVE  /\ inline'[e].pc # "none" => /\ rows'[e].status = "pending"
                                                     /\ sent[e] = inline'[e].attempt
                                                     /\ inline'[e].attempt \in 1..InlineMax
                                                     /\ inline'[e].pc = "wait" => inline'[e].attempt < InlineMax
                        /\ rows'[e].status = "pending" => /\ rows'[e].attempts = 0
                                                          /\ rows'[e].redrives = 0
                                                          /\ sent[e] <= InlineMax
      BY <3>1 DEF RequestInv
    <3>2. CASE e = d
      BY <2>1, <3>2
    <3>3. CASE e # d
      BY <2>2, <3>1, <3>3 DEF RequestInv
    <3> QED
      BY <3>2, <3>3
<1>10. \A e \in Delivered : InFlight(e)' = InFlight(e)
  BY <1>1 DEF InFlight, Handling, Busy
<1>11. InFlight(d) = 0
  BY <1>2, HandlerClaims DEF InFlight, Inv
<1>12. BudgetInv'
  <2> SUFFICES ASSUME NEW e \in Delivered \ outlived, rows'[e].status # "pending"
               PROVE  /\ rows'[e].redrives <= RedriveMax
                      /\ rows'[e].status = "retrying" => rows'[e].redrives < RedriveMax
                      /\ rows'[e].attempts <= InlineMax + rows'[e].redrives
                      /\ rows'[e].attempts + InFlight(e)' <= sent'[e]
                      /\ sent'[e] <= rows'[e].attempts + InFlight(e)' + faults'
    BY <1>1, <1>5 DEF BudgetInv
  <2>1. CASE e = d
    <3>1. faults \in Nat
      BY DEF Inv, TableInv
    <3> QED
      BY <3>1, <2>1, <1>1, <1>2, <1>4, <1>10, <1>11, WorkerAssumption
  <2>2. CASE e # d
    BY <2>2, <1>1, <1>4, <1>10 DEF Inv, BudgetInv
  <2> QED
    BY <2>1, <2>2
<1> QED
  BY <1>2, <1>4, <1>5, <1>8, <1>9, <1>12

\* A step of one worker changes who handles only what that worker handles.
LEMMA OthersInFlight ==
  ASSUME WorkInv, NEW w \in Workers, NEW x, work' = [work EXCEPT ![w] = x]
  PROVE  /\ Busy(x) => \A e : e # x.one[1] => Handling(e)' \subseteq Handling(e)
         /\ ~Busy(x) => \A e : Handling(e)' = Handling(e) \ {w}
         /\ ~Busy(work[w]) => \A e : Handling(e) \subseteq Handling(e)'
         /\ Busy(work[w]) => \A e : e # work[w].one[1] => Handling(e) \subseteq Handling(e)'
<1>1. work'[w] = x /\ \A v \in Workers : v # w => work'[v] = work[v]
  BY DEF WorkInv
<1> QED
  BY <1>1 DEF Handling, Busy

\* A new schedule changes no other column.
LEMMA Rescheduling ==
  ASSUME NEW r, IsRow(r), NEW u, NEW q, q = r \/ q = [r EXCEPT !.due = u]
  PROVE  IsRow(q) /\ q.status = r.status /\ q.attempts = r.attempts /\ q.redrives = r.redrives
<1> SUFFICES ASSUME q = [r EXCEPT !.due = u]
             PROVE  IsRow(q) /\ q.status = r.status /\ q.attempts = r.attempts /\ q.redrives = r.redrives
  OBVIOUS
<1>1. q = [status |-> r.status, attempts |-> r.attempts, redrives |-> r.redrives, due |-> u]
  BY DEF IsRow
<1> QED
  BY <1>1 DEF IsRow

\* Time and claims only reschedule.
LEMMA ClaimTickBudget ==
  ASSUME Inv, Tick \/ \E w \in Workers : Claim(w)
  PROVE  TableInv' /\ RequestInv' /\ BudgetInv'
<1>1. CASE Tick
  <2>1. /\ rows' = [d \in Delivered |-> IF rows[d].due > 0 THEN [rows[d] EXCEPT !.due = @ - 1] ELSE rows[d]]
        /\ work' = [w \in Workers |-> IF work[w].pc = "post" THEN [work[w] EXCEPT !.age = @ + 1] ELSE work[w]]
        /\ inline' = inline /\ sent' = sent /\ faults' = faults /\ outlived \subseteq outlived'
    BY <1>1 DEF Tick
  <2>2. \A d \in Delivered : /\ IsRow(rows'[d])
                             /\ rows'[d].status = rows[d].status
                             /\ rows'[d].attempts = rows[d].attempts
                             /\ rows'[d].redrives = rows[d].redrives
    <3> SUFFICES ASSUME NEW d \in Delivered
                 PROVE  /\ IsRow(rows'[d])
                        /\ rows'[d].status = rows[d].status
                        /\ rows'[d].attempts = rows[d].attempts
                        /\ rows'[d].redrives = rows[d].redrives
      OBVIOUS
    <3>1. rows'[d] = rows[d] \/ rows'[d] = [rows[d] EXCEPT !.due = rows[d].due - 1]
      BY <2>1
    <3>2. IsRow(rows[d])
      BY DEF Inv, TableInv
    <3> QED
      BY <3>1, <3>2, Rescheduling
  <2>3. \A w \in Workers : work'[w].pc = work[w].pc /\ work'[w].one = work[w].one
    BY <2>1 DEF Inv, WorkInv, Work
  <2>4. \A d \in Delivered : InFlight(d)' = InFlight(d)
    BY <2>3 DEF InFlight, Handling, Busy
  <2> QED
    <3>1. Delivered' = Delivered /\ rows' = [d \in Delivered |-> rows'[d]] /\ faults' \in Nat
      BY <2>1 DEF Delivered, Inv, TableInv
    <3>2. \A d \in Delivered : /\ InFlight(d)' <= InFlight(d)
                               /\ InFlight(d) + faults <= InFlight(d)' + faults'
      BY <2>1, <2>4, <3>1, InFlightType
    <3> QED
      BY <2>1, <2>2, <3>1, <3>2, Rescheduled DEF Inv
<1>2. ASSUME NEW w \in Workers, Claim(w)
      PROVE  TableInv' /\ RequestInv' /\ BudgetInv'
  <2>1. PICK S, T :
          /\ rows' = [d \in Delivered |-> IF d \in S THEN [rows[d] EXCEPT !.due = Lease] ELSE rows[d]]
          /\ work' = [work EXCEPT ![w] = [NoWork EXCEPT !.pc = "next", !.todo = T]]
          /\ work[w].pc = "idle" /\ inline' = inline /\ sent' = sent /\ faults' = faults
          /\ outlived' = outlived
    BY <1>2 DEF Claim
  <2>2. \A d \in Delivered : /\ IsRow(rows'[d])
                             /\ rows'[d].status = rows[d].status
                             /\ rows'[d].attempts = rows[d].attempts
                             /\ rows'[d].redrives = rows[d].redrives
    BY <2>1 DEF Inv, TableInv, IsRow
  <2> DEFINE x == [NoWork EXCEPT !.pc = "next", !.todo = T]
  <2>3. ~Busy(x) /\ ~Busy(work[w])
    BY <2>1 DEF Busy, NoWork
  <2>4. work' = [work EXCEPT ![w] = x]
    BY <2>1
  <2> HIDE DEF x
  <2>5. \A d \in Delivered : InFlight(d)' = InFlight(d)
    BY <2>3, <2>4, OthersInFlight DEF Inv, InFlight
  <2>6. Delivered' = Delivered /\ rows' = [d \in Delivered |-> rows'[d]] /\ faults' \in Nat
    BY <2>1 DEF Delivered, Inv, TableInv
  <2>7. \A d \in Delivered : /\ InFlight(d)' <= InFlight(d)
                             /\ InFlight(d) + faults <= InFlight(d)' + faults'
    BY <2>1, <2>5, <2>6, InFlightType
  <2> QED
    BY <2>1, <2>2, <2>6, <2>7, Rescheduled DEF Inv
<1> QED
  BY <1>1, <1>2

\* The outcome counts the post that was in flight; a write that fails leaves it to a fault.
LEMMA RecordBudget ==
  ASSUME Inv, NEW w \in Workers, Record(w)
  PROVE  /\ TableInv' /\ RequestInv' /\ BudgetInv'
         /\ \A e \in Delivered \ outlived :
              rows'[e].status # rows[e].status => rows[e].status = "retrying"
<1>d. PICK d : d = work[w].one[1]
  OBVIOUS
<1> DEFINE x == After(work[w].todo)
<1>1. /\ work[w].pc = "record" /\ Busy(work[w]) /\ WorkOk(work[w]) /\ work[w].ok \in BOOLEAN
      /\ work' = [work EXCEPT ![w] = x] /\ inline' = inline /\ sent' = sent /\ w \in Handling(d)
      /\ outlived' = outlived
  BY <1>d DEF Record, Continue, After, Inv, WorkInv, Work, Busy, Handling
<1>2. /\ d \in Delivered /\ rows[d].status # "pending" /\ InFlight(d) = 1
      /\ d \notin outlived => /\ rows[d].status = "retrying" /\ rows[d].redrives = work[w].one[2]
                              /\ Handling(d) = {w}
  BY <1>d, <1>1, HandlerClaims DEF Inv
<1>3. ~Busy(x)
  BY <1>1, Continued
<1> HIDE DEF x
<1>4. /\ d \notin outlived => InFlight(d)' = 0
      /\ InFlight(d)' <= 1
      /\ \A e \in Delivered : e # d => InFlight(e)' = InFlight(e)
  <2>1. \A e : Handling(e)' = Handling(e) \ {w}
    BY <1>1, <1>3, OthersInFlight DEF Inv
  <2>2. \A e : e # d => w \notin Handling(e)
    BY <1>d DEF Handling
  <2> QED
    BY <1>2, <2>1, <2>2 DEF InFlight
<1>5. CASE rows' = rows /\ Fault
  <2>1. faults' = faults + 1 /\ faults \in Nat
    BY <1>5 DEF Fault, Inv, TableInv
  <2>2. \A e \in Delivered : /\ InFlight(e)' <= InFlight(e)
                             /\ InFlight(e) + faults <= InFlight(e)' + faults'
    BY <2>1, <1>2, <1>4, InFlightType DEF InFlight
  <2> QED
    BY <1>1, <1>5, <2>1, <2>2, SameRows, Rescheduled DEF Inv
<1>6. CASE rows' = Outcome(w) /\ faults' = faults
  <2>1. /\ rows' = [e \in Delivered |-> rows'[e]]
        /\ \A e \in Delivered : e # d => rows'[e] = rows[e]
        /\ rows'[d].status = Verdict(w)
        /\ rows'[d].attempts = rows[d].attempts + 1
        /\ rows'[d].redrives = rows[d].redrives + 1
        /\ IsRow(rows'[d])
    BY <1>d, <1>1, <1>2, <1>6, OutcomeRow DEF Inv
  <2>2. Delivered' = Delivered
    BY <2>1 DEF Delivered
  <2>3. TableInv'
    BY <1>1, <1>6, <2>1, <2>2 DEF Inv, TableInv, IsRow
  <2>4. Verdict(w) \in {"success", "failed", "retrying"}
    BY DEF Verdict
  <2>5. RequestInv'
    <3>1. inline[d].pc = "none"
      BY <1>2 DEF Inv, RequestInv
    <3> QED
      BY <3>1, <1>1, <2>1, <2>2, <2>4 DEF Inv, RequestInv
  <2>6. BudgetInv'
    <3> SUFFICES ASSUME NEW e \in Delivered \ outlived, rows'[e].status # "pending"
                 PROVE  /\ rows'[e].redrives <= RedriveMax
                        /\ rows'[e].status = "retrying" => rows'[e].redrives < RedriveMax
                        /\ rows'[e].attempts <= InlineMax + rows'[e].redrives
                        /\ rows'[e].attempts + InFlight(e)' <= sent'[e]
                        /\ sent'[e] <= rows'[e].attempts + InFlight(e)' + faults'
      BY <1>1, <2>2 DEF BudgetInv
    <3>1. CASE e # d
      BY <3>1, <1>1, <1>4, <1>6, <2>1 DEF Inv, BudgetInv
    <3>2. CASE e = d
      <4>1. /\ rows[d].redrives < RedriveMax
            /\ rows[d].attempts <= InlineMax + rows[d].redrives
            /\ rows[d].attempts + 1 <= sent[d]
            /\ sent[d] <= rows[d].attempts + 1 + faults
        BY <3>2, <1>2 DEF Inv, BudgetInv
      <4>2. /\ rows[d].redrives \in Nat /\ rows[d].attempts \in Nat /\ sent[d] \in Nat /\ faults \in Nat
            /\ InlineMax \in Nat /\ RedriveMax \in Nat
        BY <1>2, WorkerAssumption DEF Inv, TableInv, IsRow
      <4>3. Verdict(w) = "retrying" => rows[d].redrives + 1 < RedriveMax
        BY <3>2, <1>2, <4>2 DEF Verdict
      <4> QED
        BY <3>2, <4>1, <4>2, <4>3, <1>1, <1>4, <1>6, <2>1
    <3> QED
      BY <3>1, <3>2
  <2> QED
    BY <2>1, <2>3, <2>5, <2>6, <1>2
<1> QED
  BY <1>5, <1>6 DEF Record

\* The next claim: abandoned or skipped it counts nothing, sent it is in flight.
LEMMA AttemptBudget ==
  ASSUME Inv, NEW w \in Workers, work[w].pc = "next", inline' = inline, outlived' = outlived,
         NEW one \in work[w].todo, Abandon(w, one) \/ Send(w, one) \/ Skip(w, one)
  PROVE  /\ TableInv' /\ RequestInv' /\ BudgetInv'
         /\ \A e \in Delivered \ outlived :
              rows'[e].status # rows[e].status => rows[e].status = "retrying"
<1>1. PICK d : d = one[1]
  OBVIOUS
<1>2. /\ d \in Delivered /\ d \in Ids /\ rows[d].status # "pending" /\ outlived' = outlived
      /\ d \notin outlived => /\ rows[d].status = "retrying"
                              /\ Handling(d) = {} /\ InFlight(d) = 0
  <2>1. one \in Claims(work[w])
    BY DEF Claims
  <2>2. d \in Delivered /\ rows[d].status # "pending"
    BY <1>1, <2>1 DEF Inv, ClaimInv, ExistInv
  <2>3. d \notin outlived => rows[d].status = "retrying"
    BY <1>1, <2>1 DEF Inv, ClaimInv, ClaimHolds, Fresh
  <2> QED
    BY <1>1, <2>2, <2>3, TodoIsNotInFlight DEF Inv, TableInv
<1>3. ~Busy(work[w]) /\ WorkOk(work[w]) /\ work[w].todo \ {one} \subseteq work[w].todo
  BY DEF Busy, Inv, WorkInv
<1> DEFINE x == After(work[w].todo \ {one})
<1>4. ~Busy(x)
  BY <1>3, Continued
<1> HIDE DEF x
<1>5. ASSUME work' = [work EXCEPT ![w] = x]
      PROVE  \A e \in Delivered : InFlight(e)' = InFlight(e)
  BY <1>3, <1>4, <1>5, OthersInFlight DEF Inv, InFlight
<1>6. CASE Skip(w, one)
  <2>1. work' = [work EXCEPT ![w] = x] /\ rows' = rows /\ sent' = sent
        /\ faults' = faults + 1 /\ faults \in Nat
    BY <1>6 DEF Skip, Fault, Continue, After, x, Inv, TableInv
  <2>2. \A e \in Delivered : /\ InFlight(e)' <= InFlight(e)
                             /\ InFlight(e) + faults <= InFlight(e)' + faults'
    BY <2>1, <1>5, InFlightType
  <2> QED
    BY <2>1, <2>2, SameRows, Rescheduled DEF Inv
<1>7. CASE Abandon(w, one)
  <2>1. work' = [work EXCEPT ![w] = x] /\ rows' = Settled(d, "failed") /\ sent' = sent
        /\ faults' = faults /\ faults \in Nat
    BY <1>1, <1>7 DEF Abandon, Continue, After, x, Inv, TableInv
  <2>2. /\ rows' = [e \in Delivered |-> rows'[e]]
        /\ \A e \in Delivered : e # d => rows'[e] = rows[e]
        /\ rows'[d].status = "failed" /\ rows'[d].attempts = rows[d].attempts
        /\ rows'[d].redrives = rows[d].redrives /\ IsRow(rows'[d])
    <3>1. rows = [e \in Delivered |-> rows[e]] /\ IsRow(rows[d])
      BY <1>2 DEF Inv, TableInv
    <3>2. Settled(d, "failed") = Finished(d, "failed", rows[d].attempts, None)
      BY <1>2, SettledRow DEF Inv
    <3>3. /\ rows' = [e \in Delivered |-> rows'[e]]
          /\ \A e \in Delivered : e # d => rows'[e] = rows[e]
          /\ rows'[d] = [status |-> "failed", attempts |-> rows[d].attempts,
                         redrives |-> rows[d].redrives, due |-> None]
      BY <1>2, <2>1, <3>2, FinishedRow DEF Inv
    <3> QED
      BY <3>1, <3>3 DEF IsRow
  <2>3. Delivered' = Delivered
    BY <2>2 DEF Delivered
  <2>4. TableInv'
    BY <2>1, <2>2, <2>3 DEF Inv, TableInv, IsRow
  <2>5. RequestInv'
    <3>1. inline[d].pc = "none"
      BY <1>2 DEF Inv, RequestInv
    <3> QED
      BY <3>1, <2>1, <2>2, <2>3 DEF Inv, RequestInv
  <2>6. BudgetInv'
    <3> SUFFICES ASSUME NEW e \in Delivered \ outlived, rows'[e].status # "pending"
                 PROVE  /\ rows'[e].redrives <= RedriveMax
                        /\ rows'[e].status = "retrying" => rows'[e].redrives < RedriveMax
                        /\ rows'[e].attempts <= InlineMax + rows'[e].redrives
                        /\ rows'[e].attempts + InFlight(e)' <= sent'[e]
                        /\ sent'[e] <= rows'[e].attempts + InFlight(e)' + faults'
      BY <1>2, <2>3 DEF BudgetInv
    <3>1. CASE e # d
      BY <3>1, <2>1, <2>2, <1>5 DEF Inv, BudgetInv
    <3>2. CASE e = d
      BY <3>2, <2>1, <2>2, <1>2, <1>5 DEF Inv, BudgetInv
    <3> QED
      BY <3>1, <3>2
  <2> QED
    BY <2>2, <2>4, <2>5, <2>6, <1>2
<1>8. CASE Send(w, one)
  <2> DEFINE y == [pc |-> "post", todo |-> work[w].todo \ {one}, one |-> one, age |-> 0, ok |-> FALSE]
  <2>1. /\ work' = [work EXCEPT ![w] = y] /\ rows' = rows /\ faults' = faults
        /\ sent' = [sent EXCEPT ![d] = @ + 1] /\ Delivered' = Delivered
    BY <1>1, <1>8 DEF Send, Delivered
  <2>2. Busy(y) /\ y.one = one
    BY DEF Busy
  <2> HIDE DEF y
  <2>3. \A e : e # d => Handling(e)' = Handling(e)
    <3>1. /\ \A e : e # d => Handling(e)' \subseteq Handling(e)
          /\ \A e : Handling(e) \subseteq Handling(e)'
      BY <1>1, <1>3, <2>1, <2>2, OthersInFlight DEF Inv
    <3> QED
      BY <3>1
  <2>4. w \in Handling(d)'
    BY <1>1, <2>1, <2>2 DEF Handling, Busy, Inv, WorkInv
  <2>5. InFlight(d)' = 1 /\ \A e : e # d => InFlight(e)' = InFlight(e)
    BY <2>3, <2>4 DEF InFlight
  <2>6. sent[d] \in Nat /\ sent'[d] = sent[d] + 1 /\ sent' \in [Ids -> Nat]
        /\ \A e \in Ids : e # d => sent'[e] = sent[e]
    BY <1>2, <2>1 DEF Inv, TableInv
  <2>7. TableInv'
    BY <1>2, <2>1, <2>6 DEF Inv, TableInv, IsRow
  <2>8. RequestInv'
    <3>1. inline[d].pc = "none" /\ \A e \in Delivered : e \in Ids
      BY <1>2 DEF Inv, RequestInv, TableInv
    <3> QED
      BY <3>1, <1>2, <2>1, <2>6 DEF Inv, RequestInv
  <2>9. BudgetInv'
    <3> SUFFICES ASSUME NEW e \in Delivered \ outlived, rows[e].status # "pending"
                 PROVE  /\ rows[e].redrives <= RedriveMax
                        /\ rows[e].status = "retrying" => rows[e].redrives < RedriveMax
                        /\ rows[e].attempts <= InlineMax + rows[e].redrives
                        /\ rows[e].attempts + InFlight(e)' <= sent'[e]
                        /\ sent'[e] <= rows[e].attempts + InFlight(e)' + faults
      BY <1>2, <2>1 DEF BudgetInv
    <3>1. CASE e # d
      BY <3>1, <2>5, <2>6 DEF Inv, BudgetInv, TableInv
    <3>2. CASE e = d
      <4>1. rows[d].attempts \in Nat /\ faults \in Nat
        BY <1>2 DEF Inv, TableInv, IsRow
      <4> QED
        BY <3>2, <4>1, <1>2, <2>5, <2>6 DEF Inv, BudgetInv
    <3> QED
      BY <3>1, <3>2
  <2> QED
    BY <2>1, <2>7, <2>8, <2>9
<1> QED
  BY <1>6, <1>7, <1>8

\* An answer leaves the post in flight until it is recorded; a crash forgets it, for a
\* fault; the endpoint's own changes count nothing.
LEMMA OtherBudget ==
  ASSUME Inv,
         \/ \E w \in Workers : Crash(w) \/ \E ok \in BOOLEAN : Answer(w, ok)
         \/ \E s \in {"active", "disabled", "deleted"} : SetEndpoint(s)
         \/ UNCHANGED vars
  PROVE  TableInv' /\ RequestInv' /\ BudgetInv'
<1>1. rows' = rows /\ inline' = inline /\ sent' = sent /\ faults \in Nat /\ outlived' = outlived
  BY DEF Crash, Answer, SetEndpoint, vars, Inv, TableInv
<1>2. /\ faults' \in Nat
      /\ \A e \in Delivered : /\ InFlight(e)' <= InFlight(e)
                              /\ InFlight(e) + faults <= InFlight(e)' + faults'
  <2>1. ASSUME NEW w \in Workers, Crash(w)
        PROVE  /\ faults' \in Nat
               /\ \A e \in Delivered : /\ InFlight(e)' <= InFlight(e)
                                       /\ InFlight(e) + faults <= InFlight(e)' + faults'
    <3>1. work' = [work EXCEPT ![w] = NoWork] /\ ~Busy(NoWork) /\ faults' = faults + 1
      BY <2>1 DEF Crash, Fault, Busy, NoWork
    <3>2. \A e : Handling(e)' = Handling(e) \ {w}
      BY <3>1, OthersInFlight DEF Inv
    <3>3. \A e : InFlight(e)' \in {0, 1} /\ (InFlight(e) = 0 => InFlight(e)' = 0)
      BY <3>2 DEF InFlight
    <3> QED
      BY <1>1, <3>1, <3>3, InFlightType
  <2>2. ASSUME \A v \in Workers : work'[v].one = work[v].one /\ (Busy(work'[v]) <=> Busy(work[v])),
               faults' = faults
        PROVE  /\ faults' \in Nat
               /\ \A e \in Delivered : /\ InFlight(e)' <= InFlight(e)
                                       /\ InFlight(e) + faults <= InFlight(e)' + faults'
    <3>1. \A e : InFlight(e)' = InFlight(e)
      BY <2>2 DEF InFlight, Handling, Busy
    <3> QED
      BY <1>1, <2>2, <3>1, InFlightType
  <2>3. ASSUME NEW w \in Workers, NEW ok \in BOOLEAN, Answer(w, ok)
        PROVE  /\ \A v \in Workers : work'[v].one = work[v].one /\ (Busy(work'[v]) <=> Busy(work[v]))
               /\ faults' = faults
    <3> DEFINE y == [work[w] EXCEPT !.pc = "record", !.age = 0, !.ok = ok]
    <3>1. work[w] \in Work /\ work[w].pc = "post" /\ work' = [work EXCEPT ![w] = y] /\ faults' = faults
      BY <2>3 DEF Answer, Inv, WorkInv
    <3>2. y.pc = "record" /\ y.one = work[w].one
      BY <3>1 DEF Work
    <3> HIDE DEF y
    <3> QED
      BY <3>1, <3>2 DEF Busy, Inv, WorkInv
  <2>4. CASE UNCHANGED <<work, faults>>
    BY <2>2, <2>4 DEF Busy
  <2> QED
    BY <2>1, <2>2, <2>3, <2>4 DEF SetEndpoint, vars
<1> QED
  BY <1>1, <1>2, SameRows, Rescheduled DEF Inv

-----------------------------------------------------------------------------
(* The theorems.                                                           *)

\* The first state keeps the invariant.
LEMMA InvInit == Init => Inv
<1> SUFFICES ASSUME Init PROVE Inv
  OBVIOUS
<1>1. Delivered = {} /\ Delivered = 1..0
  BY DEF Init, Delivered
<1>2. TableInv
  <2>1. Ended \in Inline
    BY DEF Ended, Inline
  <2> QED
    BY <1>1, <2>1 DEF Init, TableInv
<1>3. WorkInv /\ \A w \in Workers : Claims(work[w]) = {}
  <2>1. NoWork \in Work /\ WorkOk(NoWork) /\ Claims(NoWork) = {}
    BY FS_EmptySet, WorkerAssumption DEF NoWork, Work, WorkOk, Busy, Claims
  <2> QED
    BY <2>1 DEF Init, WorkInv
<1>4. ClaimInv
  BY <1>3 DEF Init, ClaimInv, ExistInv, Fresh
<1> QED
  BY <1>1, <1>2, <1>3, <1>4 DEF Inv, RequestInv, BudgetInv

\* Every step keeps the claims exact and the budgets, and reopens or changes no settled
\* delivery.
LEMMA InvStep ==
  ASSUME Inv, [Next]_vars
  PROVE  /\ Inv'
         /\ \A d \in Delivered \ outlived :
              rows[d].status \in {"success", "failed"} => rows'[d].status = rows[d].status
<1> USE DEF Inv
<1>1. CASE Open
  <2>1. /\ TableInv' /\ RequestInv' /\ BudgetInv'
        /\ Delivered \subseteq Delivered' /\ \A d \in Delivered : rows'[d] = rows[d]
    BY <1>1, OpenBudget
  <2>2. \A w \in Workers : \A c \in Claims(work[w]) : rows'[c[1]] = rows[c[1]]
    BY <2>1 DEF ClaimInv, ExistInv
  <2> QED
    BY <1>1, <2>1, <2>2, ClaimsStay DEF Open
<1>2. ASSUME NEW d \in Delivered, (\E ok \in BOOLEAN : InlineAnswer(d, ok)) \/ InlineRetry(d) \/ Cancel(d)
      PROVE  Inv' /\ rows' = rows
  <2>1. work' = work /\ rows' = rows /\ Delivered' = Delivered /\ outlived' = outlived
    BY <1>2 DEF InlineAnswer, InlineRetry, Cancel, Delivered
  <2> QED
    BY <1>2, <2>1, InlineBudget, ClaimsStay
<1>3. ASSUME NEW d \in Delivered, Finish(d)
      PROVE  /\ Inv' /\ rows[d].status = "pending"
             /\ \A e \in Delivered : e # d => rows'[e] = rows[e]
  <2>1. /\ TableInv' /\ RequestInv' /\ BudgetInv'
        /\ Delivered' = Delivered /\ rows[d].status = "pending"
        /\ \A e \in Delivered : e # d => rows'[e] = rows[e]
    BY <1>3, FinishBudget
  <2>2. \A w \in Workers : \A c \in Claims(work[w]) : rows'[c[1]] = rows[c[1]]
    BY <2>1 DEF ClaimInv, ExistInv
  <2>3. work' = work /\ outlived' = outlived
    BY <1>3 DEF Finish
  <2> QED
    BY <2>1, <2>2, <2>3, ClaimsStay
<1>4. ASSUME NEW w \in Workers, Claim(w)
      PROVE  Inv' /\ \A d \in Delivered : rows'[d].status = rows[d].status
  <2>1. \A d \in Delivered : rows'[d].status = rows[d].status
    BY <1>4 DEF Claim, TableInv, IsRow
  <2> QED
    BY <1>4, <2>1, ClaimStep, ClaimTickBudget
<1>5. CASE Tick
  <2>1. \A d \in Delivered : rows'[d].status = rows[d].status
    <3> SUFFICES ASSUME NEW d \in Delivered PROVE rows'[d].status = rows[d].status
      OBVIOUS
    <3>1. rows'[d] = rows[d] \/ rows'[d] = [rows[d] EXCEPT !.due = rows[d].due - 1]
      BY <1>5 DEF Tick
    <3>2. IsRow(rows[d])
      BY DEF TableInv
    <3> QED
      BY <3>1, <3>2, Rescheduling
  <2> QED
    BY <1>5, <2>1, TickClaims, ClaimTickBudget
<1>6. ASSUME NEW w \in Workers, AttemptOne(w)
      PROVE  /\ Inv'
             /\ \A d \in Delivered \ outlived :
                  rows'[d].status # rows[d].status => rows[d].status = "retrying"
  <2>1. PICK one \in work[w].todo : Abandon(w, one) \/ Send(w, one) \/ Skip(w, one)
    BY <1>6 DEF AttemptOne
  <2>2. work[w].pc = "next" /\ inline' = inline /\ outlived' = outlived
    BY <1>6 DEF AttemptOne
  <2> QED
    BY <2>1, <2>2, AttemptClaims, AttemptBudget
<1>7. ASSUME NEW w \in Workers, NEW ok \in BOOLEAN, Answer(w, ok)
      PROVE  Inv' /\ rows' = rows
  BY <1>7, AnswerClaims, OtherBudget DEF Answer
<1>8. ASSUME NEW w \in Workers, Record(w)
      PROVE  /\ Inv'
             /\ \A d \in Delivered \ outlived :
                  rows'[d].status # rows[d].status => rows[d].status = "retrying"
  BY <1>8, RecordClaims, RecordBudget
<1>9. ASSUME NEW w \in Workers, Crash(w)
      PROVE  Inv' /\ rows' = rows
  BY <1>9, CrashClaims, OtherBudget DEF Crash
<1>10. CASE (\E s \in {"active", "disabled", "deleted"} : SetEndpoint(s)) \/ UNCHANGED vars
  <2>1. rows' = rows /\ work' = work /\ Delivered' = Delivered /\ outlived' = outlived
    BY <1>10 DEF SetEndpoint, vars, Delivered
  <2> QED
    BY <1>10, <2>1, OtherBudget, ClaimsStay
<1> QED
  <2>1. Next \/ UNCHANGED vars
    OBVIOUS
  <2>2. CASE Open \/ Tick \/ (\E s \in {"active", "disabled", "deleted"} : SetEndpoint(s)) \/ UNCHANGED vars
    BY <2>2, <1>1, <1>5, <1>10, OpenBudget DEF SetEndpoint, vars
  <2>3. ASSUME NEW d \in Delivered, (\E ok \in BOOLEAN : InlineAnswer(d, ok)) \/ InlineRetry(d) \/ Finish(d) \/ Cancel(d)
        PROVE  /\ Inv'
               /\ \A e \in Delivered \ outlived :
                    rows[e].status \in {"success", "failed"} => rows'[e].status = rows[e].status
    BY <2>3, <1>2, <1>3
  <2>4. ASSUME NEW w \in Workers, Claim(w) \/ Worker(w) \/ Crash(w)
        PROVE  /\ Inv'
               /\ \A e \in Delivered \ outlived :
                    rows[e].status \in {"success", "failed"} => rows'[e].status = rows[e].status
    BY <2>4, <1>4, <1>6, <1>7, <1>8, <1>9 DEF Worker
  <2> QED
    BY <2>1, <2>2, <2>3, <2>4 DEF Next

\* The invariant holds in every state.
LEMMA InvHolds == Spec => []Inv
<1>1. Inv /\ [Next]_vars => Inv'
  BY InvStep
<1> QED
  BY <1>1, InvInit, PTL DEF Spec

\* A delivery has one owner while the lease of its claim runs, so what posts it is one
\* worker, and no request: for any lease.
THEOREM OnePostHolds == Spec => []OnePostAtATime
<1>1. Inv => OnePostAtATime
  <2> SUFFICES ASSUME Inv, NEW d \in Delivered \ outlived
               PROVE  /\ Cardinality(Posting(d)) <= 1
                      /\ Posting(d) # {} => inline[d].pc = "none"
    BY DEF OnePostAtATime
  <2>1. CASE Posting(d) = {}
    BY <2>1, FS_EmptySet
  <2>2. ASSUME NEW w \in Posting(d)
        PROVE  /\ Cardinality(Posting(d)) <= 1
               /\ inline[d].pc = "none"
    <3>1. Posting(d) \subseteq Handling(d)
      BY DEF Posting, Handling, Busy
    <3>2. Handling(d) = {w} /\ rows[d].status = "retrying"
      BY <3>1, HandlerClaims DEF Inv
    <3>3. Posting(d) = {w}
      BY <3>1, <3>2
    <3>4. inline[d].pc = "none"
      BY <3>2 DEF Inv, RequestInv
    <3>5. Cardinality(Posting(d)) = 1
      BY <3>3, FS_Singleton
    <3> QED
      BY <3>4, <3>5
  <2> QED
    BY <2>1, <2>2
<1> QED
  BY <1>1, InvHolds, PTL

\* Whatever crashes and failed writes lose, the workers spend at most the durable budget of
\* a delivery whose lease never ran out under its pass, and its row claims no attempt that
\* was not sent: for any lease.
THEOREM BudgetHolds == Spec => []WithinBudget
<1>1. Inv => WithinBudget
  <2> SUFFICES ASSUME Inv, NEW d \in Delivered \ outlived
               PROVE  /\ rows[d].redrives <= RedriveMax
                      /\ rows[d].redrives = RedriveMax => rows[d].status \in {"success", "failed"}
                      /\ sent[d] <= InlineMax + RedriveMax + faults
                      /\ rows[d].attempts <= sent[d]
    BY DEF WithinBudget
  <2>1. /\ rows[d].redrives \in Nat /\ rows[d].attempts \in Nat /\ sent[d] \in Nat /\ faults \in Nat
        /\ rows[d].status \in {"pending", "success", "retrying", "failed"} /\ InFlight(d) \in {0, 1}
    BY InFlightType DEF Inv, TableInv, IsRow
  <2>2. CASE rows[d].status = "pending"
    BY <2>1, <2>2, WorkerAssumption DEF Inv, RequestInv
  <2>3. CASE rows[d].status # "pending"
    <3>1. InFlight(d) = 1 => rows[d].status = "retrying"
      BY HandlerClaims DEF Inv, InFlight
    <3> QED
      BY <2>1, <2>3, <3>1, WorkerAssumption DEF Inv, BudgetInv
  <2> QED
    BY <2>2, <2>3
<1> QED
  BY <1>1, InvHolds, PTL

\* What became of a delivery stays so, unless its lease ran out under a pass: the workers'
\* unconditional UPDATEs otherwise reach only rows they hold, and the request's only a row
\* that is pending.
THEOREM TerminalHolds == Spec => TerminalIsFinal
<1>1. Inv /\ [Next]_vars =>
        [\A d \in Delivered \ outlived :
           rows[d].status \in {"success", "failed"} => rows'[d].status = rows[d].status]_vars
  BY InvStep
<1> QED
  BY <1>1, InvHolds, PTL DEF Spec, TerminalIsFinal

\* No lease runs out under its pass, for any batch whose posts may all time out within it.
THEOREM LeaseFits == ASSUME Fits PROVE Spec => []NoneOutlived
<1>1. Inv => NoneOutlived
  BY DEF Inv, ClaimInv, NoneOutlived
<1> QED
  BY <1>1, InvHolds, PTL

\* So under such a lease no delivery is ever posted twice at once, with or without an
\* election.
THEOREM NeverTwice == ASSUME Fits PROVE Spec => []NoDoublePost
<1>1. OnePostAtATime /\ NoneOutlived => NoDoublePost
  BY DEF OnePostAtATime, NoneOutlived, NoDoublePost
<1> QED
  BY <1>1, OnePostHolds, LeaseFits, PTL

=============================================================================
