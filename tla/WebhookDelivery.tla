---------------------------- MODULE WebhookDelivery ----------------------------
(***************************************************************************)
(* The deliveries of one webhook endpoint: the inline attempts of          *)
(* internal/webhook/webhook.go, the re-drive loop of redrive.go and the    *)
(* queries of webhook.sql.                                                 *)
(*                                                                         *)
(* A request that changed a secret opens a delivery, posts it a few times  *)
(* and hands it over: the row's state is the only link between the two     *)
(* halves.  Workers are re-drive passes, of one replica after another or   *)
(* of two at once.  Time is relative: due counts down to next_attempt_at   *)
(* and age counts up from the start of a post, so it needs no bound.       *)
(***************************************************************************)
EXTENDS Integers, FiniteSets

CONSTANTS
  Workers,       \* re-drive passes that may be under way at once
  InlineMax,     \* attempts of the request itself
  RedriveDelay,  \* delay of the first re-drive; 0 is no re-drive
  RedriveMax,    \* attempts of the workers
  Base, Cap,     \* backoff: doubled from Base, at most Cap
  Batch,         \* deliveries one pass claims
  Lease,         \* how long a claimed delivery is not due
  Timeout,       \* the longest a post takes
  MaxDeliveries, \* bound: deliveries
  MaxFaults      \* bound: crashes, failed writes, unreadable signing keys

ASSUME WorkerAssumption ==
  /\ InlineMax \in Nat \ {0} /\ RedriveMax \in Nat \ {0} /\ RedriveDelay \in Nat
  /\ Base \in Nat \ {0} /\ Cap \in Nat /\ Cap >= Base
  /\ Batch \in Nat \ {0} /\ Timeout \in Nat \ {0}
  /\ Lease \in Nat /\ Lease > Timeout  \* withDefaults widens it
ASSUME BoundAssumption == MaxDeliveries \in Nat /\ MaxFaults \in Nat

VARIABLES
  endpoint,  \* its status
  rows,      \* webhook_deliveries, by delivery_id
  inline,    \* the request that opened each delivery
  work,      \* what each worker is in the middle of
  sent,      \* posts started for each delivery
  faults,    \* faults so far
  outlived   \* history: deliveries whose lease ran out before their pass was done

vars == <<endpoint, rows, inline, work, sent, faults, outlived>>

Ids == 1..MaxDeliveries
None == -1
Delivered == DOMAIN rows

\* due is the time until next_attempt_at, None without one.
Row == [status : {"pending", "success", "retrying", "failed"},
        attempts : Nat, redrives : Nat, due : Nat \cup {None}]

\* todo holds the claims of a pass not yet handled, a delivery with the re-drive count
\* its claim returned; one is the claim at hand, while it is posted and recorded.
Work == [pc : {"idle", "next", "post", "record"}, todo : SUBSET (Ids \X Nat),
         one : (Ids \X Nat) \cup {<<>>}, age : Nat, ok : BOOLEAN]

\* Of what a worker is in the middle of: a claim is at hand,
Busy(x) == x.pc \in {"post", "record"}

\* and what is claimed and not yet settled.
Claims(x) == x.todo \cup (IF Busy(x) THEN {x.one} ELSE {})

NoWork == [pc |-> "idle", todo |-> {}, one |-> <<>>, age |-> 0, ok |-> FALSE]

Inline == [pc : {"none", "post", "wait", "finish"}, attempt : Nat, ok : BOOLEAN]

Ended == [pc |-> "none", attempt |-> 0, ok |-> FALSE]

Fault == faults < MaxFaults /\ faults' = faults + 1

\* Backoff before worker attempt n + 1.
Backoff(n) == IF Base * 2^(n - 1) >= Cap THEN Cap ELSE Base * 2^(n - 1)

\* A row that will not be attempted again.
Settled(d, status) == [rows EXCEPT ![d].status = status, ![d].due = None]

-----------------------------------------------------------------------------
Init ==
  /\ endpoint = "active"
  /\ rows = [d \in {} |-> 0]
  /\ inline = [d \in Ids |-> Ended]
  /\ work = [w \in Workers |-> NoWork]
  /\ sent = [d \in Ids |-> 0]
  /\ faults = 0
  /\ outlived = {}

(* The request: Notify and deliver.                                        *)

\* The endpoint is loaded, the delivery recorded, the first attempt sent.
Open ==
  LET d == Cardinality(Delivered) + 1
  IN
  /\ endpoint = "active"
  /\ d \in Ids
  /\ rows' = [e \in Delivered \cup {d} |->
                IF e = d THEN [status |-> "pending", attempts |-> 0, redrives |-> 0, due |-> None]
                ELSE rows[e]]
  /\ inline' = [inline EXCEPT ![d] = [pc |-> "post", attempt |-> 1, ok |-> FALSE]]
  /\ sent' = [sent EXCEPT ![d] = @ + 1]
  /\ UNCHANGED <<endpoint, work, faults, outlived>>

\* The endpoint answers, or does not in time.
InlineAnswer(d, ok) ==
  /\ inline[d].pc = "post"
  /\ inline' = [inline EXCEPT ![d].ok = ok,
                              ![d].pc = IF ok \/ inline[d].attempt = InlineMax THEN "finish"
                                        ELSE "wait"]
  /\ UNCHANGED <<endpoint, rows, work, sent, faults, outlived>>

\* The short backoff is over.
InlineRetry(d) ==
  /\ inline[d].pc = "wait"
  /\ inline' = [inline EXCEPT ![d].pc = "post", ![d].attempt = @ + 1]
  /\ sent' = [sent EXCEPT ![d] = @ + 1]
  /\ UNCHANGED <<endpoint, rows, work, faults, outlived>>

\* FinishWebhookDelivery: settled, or parked for the workers.
Finish(d) ==
  /\ inline[d].pc = "finish"
  /\ LET status == IF inline[d].ok THEN "success"
                   ELSE IF RedriveDelay = 0 THEN "failed" ELSE "retrying"
     IN  rows' = [rows EXCEPT ![d].status = status, ![d].attempts = inline[d].attempt,
                              ![d].due = IF status = "retrying" THEN RedriveDelay ELSE None]
  /\ inline' = [inline EXCEPT ![d] = Ended]
  /\ UNCHANGED <<endpoint, work, sent, faults, outlived>>

\* The request's context is cancelled, at a backoff, during an attempt or before the
\* outcome is written, or its process dies: deliver returns and writes nothing.
Cancel(d) ==
  /\ inline[d].pc # "none"
  /\ inline' = [inline EXCEPT ![d] = Ended]
  /\ UNCHANGED <<endpoint, rows, work, sent, faults, outlived>>

(* A worker: Tick and attemptOne.                                          *)

\* Mutant: only the schedule is looked at, and no schedule counts as due.
DueIgnoresStatus == {d \in Delivered : rows[d].due <= 0}

DueNow == {d \in Delivered : rows[d].status = "retrying" /\ rows[d].due = 0}

\* Mutant: the claim does not push next_attempt_at forward.
ClaimWithoutLease(w) ==
  /\ work[w].pc = "idle"
  /\ DueNow # {}
  /\ \E S \in SUBSET DueNow :
       /\ Cardinality(S) = IF Cardinality(DueNow) < Batch THEN Cardinality(DueNow) ELSE Batch
       /\ work' = [work EXCEPT ![w] = [NoWork EXCEPT !.pc = "next",
                                         !.todo = {<<d, rows[d].redrives>> : d \in S}]]
  /\ UNCHANGED <<endpoint, rows, inline, sent, faults, outlived>>

\* Mutant: the lease covers the first post of the batch.
ClaimForOnePost(w) ==
  /\ work[w].pc = "idle"
  /\ DueNow # {}
  /\ \E S \in SUBSET DueNow :
       /\ Cardinality(S) = IF Cardinality(DueNow) < Batch THEN Cardinality(DueNow) ELSE Batch
       /\ rows' = [d \in Delivered |-> IF d \in S THEN [rows[d] EXCEPT !.due = Timeout + 1] ELSE rows[d]]
       /\ work' = [work EXCEPT ![w] = [NoWork EXCEPT !.pc = "next",
                                         !.todo = {<<d, rows[d].redrives>> : d \in S}]]
  /\ UNCHANGED <<endpoint, inline, sent, faults, outlived>>

\* ClaimWebhookDeliveriesForRedrive: one statement, rows others are claiming skipped.
Claim(w) ==
  /\ work[w].pc = "idle"
  /\ DueNow # {}
  /\ \E S \in SUBSET DueNow :
       /\ Cardinality(S) = IF Cardinality(DueNow) < Batch THEN Cardinality(DueNow) ELSE Batch
       /\ rows' = [d \in Delivered |-> IF d \in S THEN [rows[d] EXCEPT !.due = Lease] ELSE rows[d]]
       /\ work' = [work EXCEPT ![w] = [NoWork EXCEPT !.pc = "next",
                                         !.todo = {<<d, rows[d].redrives>> : d \in S}]]
  /\ UNCHANGED <<endpoint, inline, sent, faults, outlived>>

\* The next claim of the pass, or the end of it.
Continue(w, S) ==
  work' = [work EXCEPT ![w] = IF S = {} THEN NoWork ELSE [NoWork EXCEPT !.pc = "next", !.todo = S]]

\* AbandonWebhookDelivery: whatever the row says by now.
Abandon(w, one) ==
  /\ endpoint = "deleted"
  /\ rows' = Settled(one[1], "failed")
  /\ Continue(w, work[w].todo \ {one})
  /\ UNCHANGED <<sent, faults>>

\* Mutant: a disabled endpoint is left alone, as Notify does.
SendToActive(w, one) ==
  /\ IF endpoint = "active"
     THEN /\ work' = [work EXCEPT ![w] = [pc |-> "post", todo |-> work[w].todo \ {one},
                                          one |-> one, age |-> 0, ok |-> FALSE]]
          /\ sent' = [sent EXCEPT ![one[1]] = @ + 1]
     ELSE /\ endpoint = "disabled"
          /\ Continue(w, work[w].todo \ {one})
          /\ UNCHANGED sent
  /\ UNCHANGED <<rows, faults>>

\* The endpoint exists, disabled or not, and the body goes out.
Send(w, one) ==
  /\ endpoint # "deleted"
  /\ work' = [work EXCEPT ![w] = [pc |-> "post", todo |-> work[w].todo \ {one},
                                  one |-> one, age |-> 0, ok |-> FALSE]]
  /\ sent' = [sent EXCEPT ![one[1]] = @ + 1]
  /\ UNCHANGED <<rows, faults>>

\* The database or the signing key's root key is not there: the row keeps its lease.
Skip(w, one) ==
  /\ Fault
  /\ Continue(w, work[w].todo \ {one})
  /\ UNCHANGED <<rows, sent>>

AttemptOne(w) ==
  /\ work[w].pc = "next"
  /\ \E one \in work[w].todo : Abandon(w, one) \/ Send(w, one) \/ Skip(w, one)
  /\ UNCHANGED <<endpoint, inline, outlived>>

Answer(w, ok) ==
  /\ work[w].pc = "post"
  /\ work' = [work EXCEPT ![w].pc = "record", ![w].age = 0, ![w].ok = ok]
  /\ UNCHANGED <<endpoint, rows, inline, sent, faults, outlived>>

\* Mutant: the budget is off by one.
OutcomeOverBudget(w) ==
  LET d == work[w].one[1]
      spent == work[w].one[2] + 1
      ends == work[w].ok \/ spent > RedriveMax
  IN [rows EXCEPT ![d].attempts = @ + 1, ![d].redrives = @ + 1,
                  ![d].status = IF work[w].ok THEN "success"
                                ELSE IF ends THEN "failed" ELSE "retrying",
                  ![d].due = IF ends THEN None ELSE Backoff(spent)]

\* RecordWebhookRedriveOutcome: the worker decides from the count its claim returned
\* and the UPDATE has no condition on what the row says by now.
Outcome(w) ==
  LET d == work[w].one[1]
      spent == work[w].one[2] + 1
      ends == work[w].ok \/ spent >= RedriveMax
  IN [rows EXCEPT ![d].attempts = @ + 1, ![d].redrives = @ + 1,
                  ![d].status = IF work[w].ok THEN "success"
                                ELSE IF ends THEN "failed" ELSE "retrying",
                  ![d].due = IF ends THEN None ELSE Backoff(spent)]

\* When the write fails the lease re-exposes the row.
Record(w) ==
  /\ work[w].pc = "record"
  /\ \/ /\ rows' = Outcome(w)
        /\ UNCHANGED faults
     \/ /\ Fault
        /\ UNCHANGED rows
  /\ Continue(w, work[w].todo)
  /\ UNCHANGED <<endpoint, inline, sent, outlived>>

\* The process dies, or leadership is lost and the pass stops: claims just expire.
Crash(w) ==
  /\ work[w].pc # "idle"
  /\ Fault
  /\ work' = [work EXCEPT ![w] = NoWork]
  /\ UNCHANGED <<endpoint, rows, inline, sent, outlived>>

(* The rest.                                                               *)

\* UpdateWebhookEndpoint and DeleteWebhookEndpoint.
SetEndpoint(status) ==
  /\ endpoint # "deleted" /\ endpoint # status
  /\ endpoint' = status
  /\ UNCHANGED <<rows, inline, work, sent, faults, outlived>>

\* A post takes up to Timeout; what a worker does between posts takes no time.
Tick ==
  /\ \A w \in Workers : work[w].pc \in {"idle", "post"} /\ work[w].age < Timeout
  /\ \/ \E d \in Delivered : rows[d].due > 0
     \/ \E w \in Workers : work[w].pc = "post"
  /\ rows' = [d \in Delivered |-> IF rows[d].due > 0 THEN [rows[d] EXCEPT !.due = @ - 1] ELSE rows[d]]
  /\ work' = [w \in Workers |-> IF work[w].pc = "post" THEN [work[w] EXCEPT !.age = @ + 1] ELSE work[w]]
  /\ outlived' = outlived \cup {d \in Delivered :
                   rows[d].due = 1 /\ \E w \in Workers : \E c \in Claims(work[w]) : c[1] = d}
  /\ UNCHANGED <<endpoint, inline, sent, faults>>

Worker(w) == AttemptOne(w) \/ (\E ok \in BOOLEAN : Answer(w, ok)) \/ Record(w)

Next ==
  \/ Open
  \/ \E d \in Delivered : \/ \E ok \in BOOLEAN : InlineAnswer(d, ok)
                          \/ InlineRetry(d) \/ Finish(d) \/ Cancel(d)
  \/ \E w \in Workers : Claim(w) \/ Worker(w) \/ Crash(w)
  \/ \E s \in {"active", "disabled", "deleted"} : SetEndpoint(s)
  \/ Tick

Spec == Init /\ [][Next]_vars

\* Passes keep starting and go on, and time passes.
FairSpec ==
  /\ Spec
  /\ \A w \in Workers : WF_vars(Claim(w)) /\ WF_vars(Worker(w))
  /\ WF_vars(Tick)

-----------------------------------------------------------------------------
\* Rows, requests and workers have their shape; only a retrying row has a schedule
\* (the table's check), and a claim names a row that exists.
TypeOK ==
  /\ endpoint \in {"active", "disabled", "deleted"}
  /\ Delivered = 1..Cardinality(Delivered) /\ Delivered \subseteq Ids
  /\ rows \in [Delivered -> Row]
  /\ \A d \in Delivered : rows[d].due # None <=> rows[d].status = "retrying"
  /\ inline \in [Ids -> Inline]
  /\ work \in [Workers -> Work]
  /\ \A w \in Workers : \A c \in work[w].todo : c[1] \in Delivered
  /\ sent \in [Ids -> Nat]
  /\ faults \in 0..MaxFaults
  /\ outlived \subseteq Delivered

Posting(d) == {w \in Workers : work[w].pc = "post" /\ work[w].one[1] = d}

\* While the lease of its claim runs, one delivery is in one place: no two posts of it are
\* under way, and none while the request that opened it still owns it, with or without an
\* election.
OnePostAtATime ==
  \A d \in Delivered \ outlived :
    /\ Cardinality(Posting(d)) <= 1
    /\ Posting(d) # {} => inline[d].pc = "none"

\* Both final states are final: the UPDATEs look at no status, so what reopens a delivery,
\* or changes what became of it, is a pass whose lease ran out before it was done.
TerminalIsFinal ==
  [][\A d \in Delivered \ outlived :
       rows[d].status \in {"success", "failed"} => rows'[d].status = rows[d].status]_vars

\* The workers spend no more than the durable budget, whatever crashes re-expose, and the
\* row never claims an attempt that was not sent (webhook.sql:173), unless a lease ran out
\* under its pass.
WithinBudget ==
  \A d \in Delivered \ outlived :
    /\ rows[d].redrives <= RedriveMax
    /\ rows[d].redrives = RedriveMax => rows[d].status \in {"success", "failed"}
    /\ sent[d] <= InlineMax + RedriveMax + faults
    /\ rows[d].attempts <= sent[d]

\* A batch whose posts may all time out within the lease never outlives it: what a full
\* batch, the waits for earlier posts and a re-exposed claim add up to stays below it.
NoneOutlived == outlived = {}

\* What redrive.go:45-52 says of the lease alone: it prevents a double post.
NoDoublePost == \A d \in Delivered : Cardinality(Posting(d)) <= 1

\* A parked delivery ends, on an endpoint disabled since, deleted or not, through
\* crashes of its workers.
ParkedIsSettled ==
  \A d \in Ids :
    (d \in Delivered /\ rows[d].status = "retrying")
      ~> (d \in Delivered /\ rows[d].status \in {"success", "failed"})

=============================================================================
