--------------------------- MODULE RateLimitProofs ---------------------------
(***************************************************************************)
(* Proofs about RateLimit, for every number of replicas and requests, every *)
(* budget and slice.                                                       *)
(*                                                                         *)
(* That no unit is given out twice rests on the ledger: whatever is out of *)
(* a window that somebody can still reserve from is at most the row's      *)
(* running total (ReservedCovers), so a new grant is apart from it.  The   *)
(* pruner sets that total back to nothing; it must only do so for windows  *)
(* nobody can reserve from, which is what the retention is for: a call is  *)
(* at most one window behind its replica's clock (CallsAreRecent), and the *)
(* clocks are at most Skew windows apart.                                  *)
(***************************************************************************)
EXTENDS RateLimit, FiniteSetTheorems, TLAPS

Calling(q) == call[q].pc \in {"reserve", "reply"}

ClocksAgree == \A r, p \in Replicas : clock[r] <= clock[p] + Skew

CallsAreRecent ==
  \A q \in Requests :
    Calling(q) => /\ call[q].at \in Replicas /\ call[q].window \in Windows
                  /\ clock[call[q].at] \in {call[q].window, call[q].window + 1}

NoneAhead == \A r \in Replicas : bucket[r].window <= clock[r]

\* Somebody may still reserve from w.
Reservable(w) == \E r \in Replicas : clock[r] <= w + 1

ReservedCovers ==
  \A w \in Windows :
    Reservable(w) =>
      /\ \A u \in metered[w] : u <= rows[w]
      /\ \A r \in Replicas : \A u \in HeldFor(r, w) : u <= rows[w]
      /\ \A q \in Requests : \A u \in OnTheWay(q, w) : u <= rows[w]

TimeInv == TypeOK /\ ClocksAgree /\ CallsAreRecent /\ NoneAhead
BudgetInv == TimeInv /\ ReservedCovers /\ UnitsAreApart

-----------------------------------------------------------------------------
\* A call that has not begun has its type.
LEMMA IdleType == Idle \in Call /\ Idle.pc = "idle"
  BY DEF Idle, Call

\* A window starts with nothing counted and nothing held.
LEMMA NewBucketType ==
  \A w \in Windows \cup {-1} :
    /\ NewBucket(w) \in Bucket /\ NewBucket(w).window = w /\ NewBucket(w).held = {}
    /\ NewBucket(w).count = 0
  BY DEF NewBucket, Bucket

\* A hit sees the bucket of its clock's window, and in it what the replica held for it.
LEMMA LiveBucketFacts ==
  ASSUME TimeInv, NEW r \in Replicas
  PROVE  /\ clock[r] \in Windows
         /\ LiveBucket(r) \in Bucket /\ LiveBucket(r).window = clock[r]
         /\ LiveBucket(r).held = HeldFor(r, clock[r])
<1>1. clock[r] \in Windows /\ bucket[r] \in Bucket /\ bucket[r].window <= clock[r]
  BY DEF TimeInv, TypeOK, NoneAhead
<1>2. clock[r] \in Int /\ bucket[r].window \in Int
  BY <1>1, BoundAssumption DEF Windows, Bucket
<1>3. CASE bucket[r].window >= clock[r]
  BY <1>1, <1>2, <1>3 DEF LiveBucket, HeldFor
<1>4. CASE ~(bucket[r].window >= clock[r])
  BY <1>1, <1>2, <1>4, NewBucketType DEF LiveBucket, HeldFor
<1>5. QED
  BY <1>3, <1>4

\* The bucket a hit works on.
Counted(r) == [LiveBucket(r) EXCEPT !.count = IF @ > Limit THEN @ ELSE @ + 1]

\* The count stays in the bucket, and with it everything the replica held.
LEMMA CountedFacts ==
  ASSUME TimeInv, NEW r \in Replicas
  PROVE  /\ Counted(r) \in Bucket /\ Counted(r).window = clock[r]
         /\ Counted(r).held = HeldFor(r, clock[r])
<1>1. LiveBucket(r) \in Bucket /\ LiveBucket(r).window = clock[r]
      /\ LiveBucket(r).held = HeldFor(r, clock[r])
  BY LiveBucketFacts
<1>2. LiveBucket(r).count \in Nat
  BY <1>1 DEF Bucket
<1>3. QED
  BY <1>1, <1>2, BudgetAssumption DEF Counted, Bucket

\* Spending takes one unit out of the bucket and meters it.
LEMMA SpendFacts ==
  ASSUME TypeOK, NEW q \in Requests, NEW r \in Replicas, NEW b \in Bucket,
         b.window \in Windows, Spend(q, r, b)
  PROVE  /\ call' = [call EXCEPT ![q] = Idle]
         /\ admitted' \in [Windows -> Nat]
         /\ \E u \in b.held :
              /\ bucket' = [bucket EXCEPT ![r] = [b EXCEPT !.held = @ \ {u}]]
              /\ metered' = [metered EXCEPT ![b.window] = @ \cup {u}]
              /\ [b EXCEPT !.held = @ \ {u}] \in Bucket
              /\ metered' \in [Windows -> SUBSET Units]
<1>1. PICK u \in b.held :
        /\ bucket' = [bucket EXCEPT ![r] = [b EXCEPT !.held = @ \ {u}]]
        /\ metered' = [metered EXCEPT ![b.window] = @ \cup {u}]
        /\ Admit(q, b.window)
  BY DEF Spend
<1>2. u \in Units /\ [b EXCEPT !.held = @ \ {u}] \in Bucket
  BY DEF Bucket
<1>3. metered' \in [Windows -> SUBSET Units]
  BY <1>1, <1>2 DEF TypeOK
<1>4. admitted' \in [Windows -> Nat]
  BY <1>1 DEF Admit, TypeOK
<1>5. QED
  BY <1>1, <1>2, <1>3, <1>4 DEF Admit

\* What the five ways through the first critical section have in common.
LEMMA HitFacts ==
  ASSUME TimeInv, NEW q \in Requests, NEW r \in Replicas, Hit(q, r)
  PROVE  /\ UNCHANGED <<clock, rows, lost, faults>>
         /\ ~Calling(q)
         /\ \E b \in Bucket, c \in Call :
              /\ b.window = clock[r]
              /\ bucket' = [bucket EXCEPT ![r] = b] /\ call' = [call EXCEPT ![q] = c]
              /\ c.pc \in {"idle", "refused", "reserve"}
              /\ c.pc = "reserve" => c.at = r /\ c.window = clock[r]
              /\ \/ b.held = HeldFor(r, clock[r]) /\ metered' = metered
                 \/ \E u \in HeldFor(r, clock[r]) :
                      /\ b.held = HeldFor(r, clock[r]) \ {u}
                      /\ metered' = [metered EXCEPT ![clock[r]] = @ \cup {u}]
         /\ admitted' \in [Windows -> Nat] /\ metered' \in [Windows -> SUBSET Units]
<1> DEFINE b == Counted(r)
<1>1. /\ b \in Bucket /\ b.window = clock[r] /\ b.held = HeldFor(r, clock[r])
      /\ clock[r] \in Windows
  BY CountedFacts, LiveBucketFacts
<1>2. UNCHANGED <<clock, rows, lost, faults>> /\ ~Calling(q)
  BY DEF Hit, Ready, Calling
<1>3. \/ OverCeiling(q, r, b) \/ FastPath(q, r, b) \/ Exhausted(q, r, b)
      \/ Degraded(q, r, b) \/ AskStore(q, r, b)
  BY DEF Hit, Counted
<1>t. TypeOK
  BY DEF TimeInv
<1>i. Idle \in Call /\ Idle.pc = "idle"
  BY IdleType
<1> HIDE DEF b
<1>4. CASE OverCeiling(q, r, b)
  BY <1>1, <1>2, <1>4, <1>t, <1>i DEF OverCeiling, TypeOK
<1>5. CASE FastPath(q, r, b)
  <2>1. Spend(q, r, b)
    BY <1>5 DEF FastPath
  <2>2. /\ call' = [call EXCEPT ![q] = Idle]
        /\ admitted' \in [Windows -> Nat]
    BY <2>1, <1>1, <1>t, SpendFacts
  <2>3. PICK u \in b.held :
              /\ bucket' = [bucket EXCEPT ![r] = [b EXCEPT !.held = @ \ {u}]]
              /\ metered' = [metered EXCEPT ![b.window] = @ \cup {u}]
              /\ [b EXCEPT !.held = @ \ {u}] \in Bucket
              /\ metered' \in [Windows -> SUBSET Units]
    BY <2>1, <1>1, <1>t, SpendFacts
  <2> DEFINE d == [b EXCEPT !.held = @ \ {u}]
  <2>4. d \in Bucket /\ d.window = clock[r] /\ d.held = HeldFor(r, clock[r]) \ {u}
    BY <2>3, <1>1 DEF Bucket
  <2>5. /\ bucket' = [bucket EXCEPT ![r] = d] /\ u \in HeldFor(r, clock[r])
        /\ metered' = [metered EXCEPT ![clock[r]] = @ \cup {u}]
    BY <2>3, <1>1
  <2> HIDE DEF d
  <2>6. QED
    BY <1>2, <1>i, <2>2, <2>3, <2>4, <2>5
<1>6. CASE Exhausted(q, r, b)
  <2> DEFINE c == [Idle EXCEPT !.pc = "refused", !.window = b.window]
  <2>1. /\ bucket' = [bucket EXCEPT ![r] = b] /\ call' = [call EXCEPT ![q] = c]
        /\ UNCHANGED <<metered, admitted>>
    BY <1>6 DEF Exhausted, Refuse
  <2>2. c \in Call /\ c.pc = "refused"
    BY <1>1 DEF Idle, Call
  <2> HIDE DEF c
  <2>3. QED
    BY <1>1, <1>2, <1>t, <2>1, <2>2 DEF TypeOK
<1>7. CASE Degraded(q, r, b)
  <2>1. /\ bucket' = [bucket EXCEPT ![r] = b] /\ call' = [call EXCEPT ![q] = Idle]
        /\ UNCHANGED metered /\ admitted' = [admitted EXCEPT ![b.window] = @ + 1]
    BY <1>7 DEF Degraded, Admit
  <2>2. admitted' \in [Windows -> Nat]
    BY <2>1, <1>1, <1>t DEF TypeOK
  <2>3. QED
    BY <1>1, <1>2, <1>t, <1>i, <2>1, <2>2 DEF TypeOK
<1>8. CASE AskStore(q, r, b)
  <2> DEFINE c == [Idle EXCEPT !.pc = "reserve", !.at = r, !.window = b.window]
  <2>1. /\ bucket' = [bucket EXCEPT ![r] = b] /\ call' = [call EXCEPT ![q] = c]
        /\ UNCHANGED <<metered, admitted>>
    BY <1>8 DEF AskStore
  <2>2. c \in Call /\ c.pc = "reserve" /\ c.at = r /\ c.window = clock[r]
    BY <1>1 DEF Idle, Call
  <2> HIDE DEF c
  <2>3. QED
    BY <1>1, <1>2, <1>t, <2>1, <2>2 DEF TypeOK
<1>9. QED
  BY <1>3, <1>4, <1>5, <1>6, <1>7, <1>8

\* What the second critical section does in all its outcomes.
LEMMA ReturnFacts ==
  ASSUME TimeInv, NEW q \in Requests, Return(q)
  PROVE  LET r == call[q].at
             w == call[q].window
         IN
         /\ UNCHANGED <<clock, rows, lost, faults>>
         /\ call[q].pc = "reply" /\ r \in Replicas /\ w \in Windows
         /\ \E b \in Bucket, c \in Call :
              /\ b.window = bucket[r].window
              /\ bucket' = [bucket EXCEPT ![r] = b] /\ call' = [call EXCEPT ![q] = c]
              /\ c.pc \in {"idle", "refused"}
              /\ \/ b.held = bucket[r].held /\ metered' = metered
                 \/ /\ bucket[r].window = w /\ ~call[q].failed
                    /\ \E S \in SUBSET Units :
                         /\ b.held \cup S \subseteq bucket[r].held \cup call[q].grant
                         /\ b.held \cap S = {}
                         /\ metered' = [metered EXCEPT ![w] = @ \cup S]
         /\ admitted' \in [Windows -> Nat] /\ metered' \in [Windows -> SUBSET Units]
<1> DEFINE r == call[q].at
           w == call[q].window
<1>1. UNCHANGED <<clock, rows, lost, faults>> /\ call[q].pc = "reply"
  BY DEF Return
<1>t. TypeOK
  BY DEF TimeInv
<1>2. r \in Replicas /\ w \in Windows
  BY <1>1 DEF TimeInv, CallsAreRecent, Calling
<1>3. bucket[r] \in Bucket /\ call[q] \in Call
  BY <1>2, <1>t DEF TypeOK
<1>i. Idle \in Call /\ Idle.pc = "idle"
  BY IdleType
<1>4. \/ WindowGone(q) \/ StoreFailed(q) \/ Granted(q)
  BY DEF Return
<1>5. ASSUME Admit(q, w)
      PROVE  call' = [call EXCEPT ![q] = Idle] /\ admitted' \in [Windows -> Nat]
  BY <1>5, <1>2, <1>t DEF Admit, TypeOK
<1>6. CASE WindowGone(q)
  <2>1. Admit(q, w) /\ bucket' = [bucket EXCEPT ![r] = bucket[r]] /\ metered' = metered
    BY <1>6, <1>2, <1>t DEF WindowGone, TypeOK
  <2>2. QED
    BY <2>1, <1>1, <1>2, <1>3, <1>5, <1>i, <1>t DEF TypeOK
<1>7. CASE StoreFailed(q)
  <2> DEFINE b == [bucket[r] EXCEPT !.backoff = TRUE]
  <2>1. Admit(q, w) /\ bucket' = [bucket EXCEPT ![r] = b] /\ metered' = metered
    BY <1>7, <1>2, <1>t DEF StoreFailed, TypeOK
  <2>2. b \in Bucket /\ b.window = bucket[r].window /\ b.held = bucket[r].held
    BY <1>3 DEF Bucket
  <2> HIDE DEF b
  <2>3. QED
    BY <2>1, <2>2, <1>1, <1>2, <1>5, <1>i, <1>t DEF TypeOK
<1>8. CASE Granted(q)
  <2> DEFINE b == [bucket[r] EXCEPT !.held = @ \cup call[q].grant,
                                    !.exhausted = @ \/ Cardinality(call[q].grant) < Slice]
  <2>1. bucket[r].window = w /\ ~call[q].failed
    BY <1>8 DEF Granted, SameWindow
  <2>2. bucket[r].exhausted \in BOOLEAN /\ call[q].grant \subseteq Units
    BY <1>3 DEF Bucket, Call
  <2>3. b \in Bucket /\ b.window = w /\ b.held = bucket[r].held \cup call[q].grant
    BY <1>3, <2>1, <2>2 DEF Bucket
  <2>4. \/ b.held # {} /\ Spend(q, r, b)
        \/ b.held = {} /\ bucket' = [bucket EXCEPT ![r] = b] /\ Refuse(q, w) /\ metered' = metered
    BY <1>8, <2>3 DEF Granted
  <2> HIDE DEF b
  <2>5. CASE Spend(q, r, b)
    <3>0. b \in Bucket /\ b.window \in Windows
      BY <2>3, <1>2
    <3>1. call' = [call EXCEPT ![q] = Idle] /\ admitted' \in [Windows -> Nat]
      BY <3>0, <2>5, <1>2, <1>t, SpendFacts
    <3>2. PICK u \in b.held :
              /\ bucket' = [bucket EXCEPT ![r] = [b EXCEPT !.held = @ \ {u}]]
              /\ metered' = [metered EXCEPT ![b.window] = @ \cup {u}]
              /\ [b EXCEPT !.held = @ \ {u}] \in Bucket
              /\ metered' \in [Windows -> SUBSET Units]
      BY <3>0, <2>5, <1>2, <1>t, SpendFacts, Zenon
    <3> DEFINE d == [b EXCEPT !.held = @ \ {u}]
    <3>3. d \in Bucket /\ d.window = w /\ d.held = b.held \ {u} /\ {u} \in SUBSET Units
      BY <3>2, <2>3 DEF Bucket
    <3>4. bucket' = [bucket EXCEPT ![r] = d] /\ metered' = [metered EXCEPT ![w] = @ \cup {u}]
      BY <3>2, <2>3
    <3> HIDE DEF d
    <3>5. d.held \cup {u} \subseteq bucket[r].held \cup call[q].grant /\ d.held \cap {u} = {}
      BY <3>2, <3>3, <2>3
    <3>6. QED
      BY <3>1, <3>2, <3>3, <3>4, <3>5, <2>1, <1>1, <1>2, <1>i
  <2>6. CASE b.held = {} /\ bucket' = [bucket EXCEPT ![r] = b] /\ Refuse(q, w) /\ metered' = metered
    <3> DEFINE c == [Idle EXCEPT !.pc = "refused", !.window = w]
    <3>1. call' = [call EXCEPT ![q] = c] /\ admitted' = admitted
      BY <2>6 DEF Refuse
    <3>2. c \in Call /\ c.pc = "refused"
      BY <1>2 DEF Idle, Call
    <3> HIDE DEF c
    <3>3. metered' = [metered EXCEPT ![w] = @ \cup {}] /\ {} \in SUBSET Units
      BY <2>6, <1>2, <1>t DEF TypeOK
    <3>4. b.held \cup {} \subseteq bucket[r].held \cup call[q].grant /\ b.held \cap {} = {}
      BY <2>6
    <3>5. admitted' \in [Windows -> Nat] /\ metered' \in [Windows -> SUBSET Units]
      BY <3>1, <2>6, <1>t DEF TypeOK
    <3>6. QED
      BY <3>1, <3>2, <3>3, <3>4, <3>5, <2>1, <2>3, <2>6, <1>1, <1>2
  <2>7. QED
    BY <2>4, <2>5, <2>6
<1>9. QED
  BY <1>4, <1>6, <1>7, <1>8

-----------------------------------------------------------------------------
\* TimeInv holds at the start.
LEMMA TimeInit == Init => TimeInv
<1>1. SUFFICES ASSUME Init PROVE TimeInv
  OBVIOUS
<1>2. 0 \in Windows /\ MaxFaults \in Nat /\ NoBucket \in Bucket /\ NoBucket.window = -1
  BY NewBucketType, BoundAssumption DEF Windows, NoBucket
<1>3. Limit \in Nat
  BY BudgetAssumption
<1>4. TypeOK
  BY <1>1, <1>2, <1>3, IdleType DEF Init, TypeOK
<1>5. ClocksAgree /\ NoneAhead
  BY <1>1, <1>2, ClockAssumption DEF Init, ClocksAgree, NoneAhead
<1>6. CallsAreRecent
  BY <1>1, IdleType DEF Init, CallsAreRecent, Calling
<1>7. QED
  BY <1>4, <1>5, <1>6 DEF TimeInv

\* Every action keeps TimeInv.
LEMMA TimeStep == TimeInv /\ [Next]_vars => TimeInv'
<1>1. SUFFICES ASSUME TimeInv, [Next]_vars PROVE TimeInv'
  OBVIOUS
<1>t. TypeOK /\ ClocksAgree /\ CallsAreRecent /\ NoneAhead
  BY <1>1 DEF TimeInv
<1>i. Idle \in Call /\ Idle.pc = "idle" /\ NoBucket \in Bucket /\ NoBucket.window = -1
  BY IdleType, NewBucketType DEF NoBucket
<1>w. \A r \in Replicas : clock[r] \in Nat /\ clock[r] <= MaxWindow
  BY <1>t, BoundAssumption DEF TypeOK, Windows
<1>2. CASE UNCHANGED vars
  BY <1>t, <1>2 DEF vars, TimeInv, TypeOK, ClocksAgree, CallsAreRecent, NoneAhead, Calling
<1>3. ASSUME NEW q \in Requests, NEW r \in Replicas, Hit(q, r) PROVE TimeInv'
  <2>1. UNCHANGED <<clock, rows, lost, faults>> /\ admitted' \in [Windows -> Nat]
        /\ metered' \in [Windows -> SUBSET Units]
    BY <1>1, <1>3, HitFacts
  <2>2. PICK b \in Bucket, c \in Call :
              /\ b.window = clock[r]
              /\ bucket' = [bucket EXCEPT ![r] = b] /\ call' = [call EXCEPT ![q] = c]
              /\ c.pc \in {"idle", "refused", "reserve"}
              /\ c.pc = "reserve" => c.at = r /\ c.window = clock[r]
    BY <1>1, <1>3, HitFacts
  <2>3. TypeOK'
    BY <2>1, <2>2, <1>t DEF TypeOK
  <2>4. NoneAhead'
    BY <2>1, <2>2, <1>t, <1>w DEF TypeOK, NoneAhead
  <2>5. clock[r] \in Windows
    BY <1>t DEF TypeOK
  <2>6. CallsAreRecent'
    BY <2>1, <2>2, <2>5, <1>t DEF TypeOK, CallsAreRecent, Calling
  <2>7. QED
    BY <2>1, <2>3, <2>4, <2>6, <1>t DEF TimeInv, ClocksAgree
<1>4. ASSUME NEW q \in Requests, Reserve(q) PROVE TimeInv'
  <2>1. call[q].pc = "reserve" /\ call[q] \in Call /\ call[q].window \in Windows
        /\ UNCHANGED <<clock, bucket, metered, admitted, lost>>
    BY <1>4, <1>t DEF Reserve, TypeOK, CallsAreRecent, Calling
  <2>2. Reserved(call[q].window) \in 0..Limit /\ Grant(call[q].window) \subseteq Units
    BY <2>1, <1>t, BudgetAssumption DEF Reserved, Grant, TypeOK
  <2>3. rows' \in [Windows -> 0..Limit] /\ faults' \in 0..MaxFaults
    BY <1>4, <2>1, <2>2, <1>t, BoundAssumption DEF Reserve, Fault, TypeOK
  <2>4. /\ call' \in [Requests -> Call]
        /\ \A k \in Requests : /\ Calling(k)' = Calling(k)
                               /\ call'[k].at = call[k].at /\ call'[k].window = call[k].window
    <3> DEFINE given == [call[q] EXCEPT !.pc = "reply", !.grant = Grant(call[q].window)]
               refused == [call[q] EXCEPT !.pc = "reply", !.failed = TRUE]
    <3>1. PICK c \in {given, refused} : call' = [call EXCEPT ![q] = c]
      BY <1>4 DEF Reserve
    <3>2. /\ given \in Call /\ given.pc = "reply"
          /\ given.at = call[q].at /\ given.window = call[q].window
      BY <2>1, <2>2 DEF Call
    <3>3. /\ refused \in Call /\ refused.pc = "reply"
          /\ refused.at = call[q].at /\ refused.window = call[q].window
      BY <2>1 DEF Call
    <3> HIDE DEF given, refused
    <3>4. c \in Call /\ c.pc = "reply" /\ c.at = call[q].at /\ c.window = call[q].window
      BY <3>1, <3>2, <3>3
    <3>5. QED
      BY <3>1, <3>4, <2>1, <1>t DEF TypeOK, Calling
  <2>5. TypeOK'
    BY <2>1, <2>3, <2>4, <1>t DEF TypeOK
  <2>6. CallsAreRecent'
    BY <2>1, <2>4, <1>t DEF CallsAreRecent
  <2>7. QED
    BY <2>1, <2>5, <2>6, <1>t DEF TimeInv, ClocksAgree, NoneAhead
<1>5. ASSUME NEW q \in Requests, Return(q) PROVE TimeInv'
  <2> DEFINE r == call[q].at
  <2>1. UNCHANGED <<clock, rows, lost, faults>> /\ admitted' \in [Windows -> Nat]
        /\ metered' \in [Windows -> SUBSET Units] /\ r \in Replicas
    BY <1>1, <1>5, ReturnFacts
  <2>2. PICK b \in Bucket, c \in Call :
              /\ b.window = bucket[r].window
              /\ bucket' = [bucket EXCEPT ![r] = b] /\ call' = [call EXCEPT ![q] = c]
              /\ c.pc \in {"idle", "refused"}
    BY <1>1, <1>5, ReturnFacts
  <2>3. TypeOK'
    BY <2>1, <2>2, <1>t DEF TypeOK
  <2>4. NoneAhead'
    BY <2>1, <2>2, <1>t DEF TypeOK, NoneAhead
  <2>5. CallsAreRecent'
    BY <2>1, <2>2, <1>t DEF TypeOK, CallsAreRecent, Calling
  <2>6. QED
    BY <2>1, <2>3, <2>4, <2>5, <1>t DEF TimeInv, ClocksAgree
<1>6. ASSUME NEW r \in Replicas, Tick(r) PROVE TimeInv'
  <2>1. /\ clock[r] < MaxWindow /\ \A p \in Replicas \ {r} : clock[r] < clock[p] + Skew
        /\ \A q \in Requests : call[q].at = r => call[q].window = clock[r]
        /\ clock' = [clock EXCEPT ![r] = clock[r] + 1]
        /\ UNCHANGED <<bucket, rows, call, metered, admitted, lost, faults>>
    BY <1>6 DEF Tick
  <2>2. clock' \in [Replicas -> Windows]
    <3>1. clock \in [Replicas -> Windows] /\ clock[r] + 1 \in Windows
      <4>1. clock \in [Replicas -> Windows] /\ clock[r] \in 0..MaxWindow /\ MaxWindow \in Nat
        BY <1>t, BoundAssumption DEF TypeOK, Windows
      <4>2. clock[r] + 1 \in 0..MaxWindow
        BY <2>1, <4>1
      <4>3. QED
        BY <4>1, <4>2 DEF Windows
    <3>2. QED
      BY <2>1, <3>1
  <2>3. TypeOK'
    BY <2>1, <2>2, <1>t DEF TypeOK
  <2>4. \A p, s \in Replicas : clock'[p] <= clock'[s] + Skew
    <3>1. TAKE p, s \in Replicas
    <3>2. clock[p] <= clock[s] + Skew /\ clock[p] \in Nat /\ clock[s] \in Nat /\ Skew \in Nat \ {0}
      BY <1>t, <1>w, ClockAssumption DEF ClocksAgree
    <3>3. clock'[p] = (IF p = r THEN clock[p] + 1 ELSE clock[p])
          /\ clock'[s] = (IF s = r THEN clock[s] + 1 ELSE clock[s])
      BY <2>1, <1>t DEF TypeOK
    <3>4. CASE p = r /\ s # r
      BY <3>2, <3>3, <3>4, <2>1
    <3>5. CASE p # r \/ s = r
      BY <3>2, <3>3, <3>5
    <3>6. QED
      BY <3>4, <3>5
  <2>5. \A p \in Replicas : clock[p] <= clock'[p]
    <3>1. \A p \in Replicas : clock'[p] = IF p = r THEN clock[p] + 1 ELSE clock[p]
      BY <2>1, <1>t DEF TypeOK
    <3>2. QED
      BY <3>1, <1>w
  <2>6. NoneAhead'
    <3>1. \A p \in Replicas : bucket[p].window \in Int /\ clock[p] \in Int /\ clock'[p] \in Int
      BY <1>t, <2>2, BoundAssumption DEF TypeOK, Windows, Bucket
    <3>2. QED
      BY <2>1, <2>5, <3>1, <1>t DEF NoneAhead
  <2>7. CallsAreRecent'
    BY <2>1, <1>t DEF TypeOK, CallsAreRecent, Calling
  <2>8. QED
    BY <2>3, <2>4, <2>6, <2>7 DEF TimeInv, ClocksAgree
<1>7. ASSUME NEW r \in Replicas, BackoffEnds(r) PROVE TimeInv'
  <2>1. /\ bucket' = [bucket EXCEPT ![r].backoff = FALSE]
        /\ UNCHANGED <<clock, rows, call, metered, admitted, lost, faults>>
    BY <1>7 DEF BackoffEnds
  <2>2. bucket' \in [Replicas -> Bucket] /\ \A p \in Replicas : bucket'[p].window = bucket[p].window
    BY <2>1, <1>t DEF TypeOK, Bucket
  <2>3. QED
    BY <2>1, <2>2, <1>t DEF TimeInv, TypeOK, ClocksAgree, CallsAreRecent, NoneAhead, Calling
<1>8. ASSUME NEW r \in Replicas, Sweep(r) \/ Restart(r) PROVE TimeInv'
  <2>1. /\ bucket' = [bucket EXCEPT ![r] = NoBucket]
        /\ call' = call \/ call' = [q \in Requests |-> IF call[q].at = r THEN Idle ELSE call[q]]
        /\ Fault /\ UNCHANGED <<clock, rows, metered, admitted>>
    BY <1>8 DEF Sweep, Restart, Forget
  <2>2. faults' \in 0..MaxFaults
    BY <2>1, <1>t, BoundAssumption DEF TypeOK, Fault
  <2>8. lost' \in [Windows -> Nat]
    BY <1>8, <1>t DEF Sweep, Restart, Forget, TypeOK
  <2>3. call' \in [Requests -> Call] /\ \A q \in Requests : call'[q] = call[q] \/ call'[q].pc = "idle"
    BY <2>1, <1>t, <1>i DEF TypeOK
  <2>4. TypeOK'
    BY <2>1, <2>2, <2>3, <2>8, <1>t, <1>i DEF TypeOK
  <2>5. NoneAhead'
    BY <2>1, <1>t, <1>i, <1>w DEF TypeOK, NoneAhead
  <2>6. CallsAreRecent'
    BY <2>1, <2>3, <1>t DEF CallsAreRecent, Calling
  <2>7. QED
    BY <2>1, <2>4, <2>5, <2>6, <1>t DEF TimeInv, ClocksAgree
<1>9. ASSUME NEW r \in Replicas, Prune(r) PROVE TimeInv'
  <2>1. /\ rows' = [w \in Windows |-> IF w < clock[r] - Retention THEN 0 ELSE rows[w]]
        /\ UNCHANGED <<clock, bucket, call, metered, admitted, lost, faults>>
    BY <1>9 DEF Prune
  <2>2. rows' \in [Windows -> 0..Limit]
    BY <2>1, <1>t, BudgetAssumption DEF TypeOK
  <2>3. QED
    BY <2>1, <2>2, <1>t DEF TimeInv, TypeOK, ClocksAgree, CallsAreRecent, NoneAhead, Calling
<1>10. QED
  BY <1>1, <1>2, <1>3, <1>4, <1>5, <1>6, <1>7, <1>8, <1>9 DEF Next

-----------------------------------------------------------------------------
\* Every variable has its type: the ledger never reserves more than the limit
\* (reserveSQL's LEAST), and a bucket and a call only name units of the budget.
THEOREM TypeCorrect == Spec => []TypeOK
<1>1. Init => TimeInv
  BY TimeInit
<1>2. TimeInv /\ [Next]_vars => TimeInv'
  BY TimeStep
<1>3. TimeInv => TypeOK
  BY DEF TimeInv
<1>4. QED
  BY <1>1, <1>2, <1>3, PTL DEF Spec

-----------------------------------------------------------------------------
(* Where the units are.                                                    *)

\* Units only disappear.
LEMMA UnitsLost ==
  ASSUME UnitsAreApart, ReservedCovers,
         clock' = clock, rows' = rows, metered' = metered,
         \A r \in Replicas, w \in Windows : HeldFor(r, w)' \subseteq HeldFor(r, w),
         \A q \in Requests, w \in Windows : OnTheWay(q, w)' \subseteq OnTheWay(q, w)
  PROVE  UnitsAreApart' /\ ReservedCovers'
<1>1. UnitsAreApart'
  <2> SUFFICES ASSUME NEW w \in Windows
               PROVE  /\ \A r \in Replicas :
                           /\ HeldFor(r, w)' \cap metered'[w] = {}
                           /\ \A p \in Replicas \ {r} : HeldFor(r, w)' \cap HeldFor(p, w)' = {}
                           /\ \A q \in Requests : HeldFor(r, w)' \cap OnTheWay(q, w)' = {}
                      /\ \A q \in Requests :
                           /\ OnTheWay(q, w)' \cap metered'[w] = {}
                           /\ \A k \in Requests \ {q} : OnTheWay(q, w)' \cap OnTheWay(k, w)' = {}
    BY DEF UnitsAreApart
  <2>1. QED
    BY DEF UnitsAreApart
<1>2. ReservedCovers'
  BY DEF ReservedCovers, Reservable
<1>3. QED
  BY <1>1, <1>2

\* A request takes units S that its replica holds, or that it brings with it.
LEMMA UnitsTaken ==
  ASSUME UnitsAreApart, ReservedCovers,
         NEW r \in Replicas, NEW q \in Requests, NEW w \in Windows, NEW S \in SUBSET Units,
         clock' = clock, rows' = rows,
         metered \in [Windows -> SUBSET Units],
         metered' = [metered EXCEPT ![w] = @ \cup S],
         \A p \in Replicas \ {r}, x \in Windows : HeldFor(p, x)' = HeldFor(p, x),
         \A k \in Requests \ {q}, x \in Windows : OnTheWay(k, x)' = OnTheWay(k, x),
         \A x \in Windows : OnTheWay(q, x)' = {},
         \A x \in Windows \ {w} : HeldFor(r, x)' \subseteq HeldFor(r, x),
         HeldFor(r, w)' \cup S \subseteq HeldFor(r, w) \cup OnTheWay(q, w),
         HeldFor(r, w)' \cap S = {}
  PROVE  UnitsAreApart' /\ ReservedCovers'
<1>1. /\ \A x \in Windows \ {w} : metered'[x] = metered[x]
      /\ metered'[w] = metered[w] \cup S
  OBVIOUS
<1>2. ASSUME NEW x \in Windows
      PROVE  /\ \A p \in Replicas :
                  /\ HeldFor(p, x)' \cap metered'[x] = {}
                  /\ \A s \in Replicas \ {p} : HeldFor(p, x)' \cap HeldFor(s, x)' = {}
                  /\ \A k \in Requests : HeldFor(p, x)' \cap OnTheWay(k, x)' = {}
             /\ \A k \in Requests :
                  /\ OnTheWay(k, x)' \cap metered'[x] = {}
                  /\ \A j \in Requests \ {k} : OnTheWay(k, x)' \cap OnTheWay(j, x)' = {}
  <2>a. /\ \A p \in Replicas :
             /\ HeldFor(p, x) \cap metered[x] = {}
             /\ \A s \in Replicas \ {p} : HeldFor(p, x) \cap HeldFor(s, x) = {}
             /\ \A k \in Requests : HeldFor(p, x) \cap OnTheWay(k, x) = {}
        /\ \A k \in Requests :
             /\ OnTheWay(k, x) \cap metered[x] = {}
             /\ \A j \in Requests \ {k} : OnTheWay(k, x) \cap OnTheWay(j, x) = {}
    BY DEF UnitsAreApart
  <2>b. /\ \A p \in Replicas \ {r} : HeldFor(p, x)' = HeldFor(p, x)
        /\ \A k \in Requests \ {q} : OnTheWay(k, x)' = OnTheWay(k, x)
        /\ OnTheWay(q, x)' = {}
    OBVIOUS
  <2>1. CASE x # w
    BY <1>1, <2>1, <2>a, <2>b
  <2>2. CASE x = w
    <3>1. metered'[x] = metered[x] \cup S
          /\ HeldFor(r, x)' \cup S \subseteq HeldFor(r, x) \cup OnTheWay(q, x)
          /\ HeldFor(r, x)' \cap S = {}
      BY <1>1, <2>2
    <3>2. \A p \in Replicas \ {r} : /\ HeldFor(p, x) \cap S = {}
                                   /\ HeldFor(p, x) \cap HeldFor(r, x)' = {}
      BY <3>1, <2>a
    <3>3. \A k \in Requests \ {q} : /\ OnTheWay(k, x) \cap S = {}
                                   /\ OnTheWay(k, x) \cap HeldFor(r, x)' = {}
      BY <3>1, <2>a
    <3>4. HeldFor(r, x)' \cap metered[x] = {}
      BY <3>1, <2>a
    <3>5. QED
      BY <3>1, <3>2, <3>3, <3>4, <2>a, <2>b
  <2>3. QED
    BY <2>1, <2>2
<1>3. UnitsAreApart'
  BY <1>2 DEF UnitsAreApart
<1>4. ReservedCovers'
  <2> SUFFICES ASSUME NEW x \in Windows, Reservable(x)'
               PROVE  /\ \A u \in metered'[x] : u <= rows'[x]
                      /\ \A p \in Replicas : \A u \in HeldFor(p, x)' : u <= rows'[x]
                      /\ \A k \in Requests : \A u \in OnTheWay(k, x)' : u <= rows'[x]
    BY DEF ReservedCovers
  <2>1. /\ \A u \in metered[x] : u <= rows[x]
        /\ \A p \in Replicas : \A u \in HeldFor(p, x) : u <= rows[x]
        /\ \A k \in Requests : \A u \in OnTheWay(k, x) : u <= rows[x]
    BY DEF ReservedCovers, Reservable
  <2>2. \A p \in Replicas : \A u \in HeldFor(p, x)' : u <= rows[x]
    BY <2>1
  <2>3. \A k \in Requests : \A u \in OnTheWay(k, x)' : u <= rows[x]
    BY <2>1
  <2>4. \A u \in metered'[x] : u <= rows[x]
    BY <1>1, <2>1
  <2>5. QED
    BY <2>2, <2>3, <2>4
<1>5. QED
  BY <1>3, <1>4

-----------------------------------------------------------------------------
\* BudgetInv holds at the start.
LEMMA BudgetInit == Init => BudgetInv
<1>1. SUFFICES ASSUME Init PROVE BudgetInv
  OBVIOUS
<1>2. NoBucket.held = {}
  BY NewBucketType DEF NoBucket
<1>3. /\ \A r \in Replicas, w \in Windows : HeldFor(r, w) = {}
      /\ \A q \in Requests, w \in Windows : OnTheWay(q, w) = {}
      /\ \A w \in Windows : metered[w] = {}
  BY <1>1, <1>2, IdleType DEF Init, HeldFor, OnTheWay
<1>4. UnitsAreApart /\ ReservedCovers
  BY <1>3 DEF UnitsAreApart, ReservedCovers
<1>5. QED
  BY <1>1, <1>4, TimeInit DEF BudgetInv

\* Every action keeps BudgetInv.
LEMMA BudgetStep == BudgetInv /\ [Next]_vars => BudgetInv'
<1>1. SUFFICES ASSUME BudgetInv, [Next]_vars PROVE UnitsAreApart' /\ ReservedCovers'
  BY TimeStep DEF BudgetInv
<1>t. TimeInv /\ TypeOK /\ ReservedCovers /\ UnitsAreApart
  BY <1>1 DEF BudgetInv, TimeInv
<1>i. Idle.pc = "idle" /\ NoBucket.held = {}
  BY IdleType, NewBucketType DEF NoBucket
<1>2. CASE UNCHANGED vars
  BY <1>t, <1>2, UnitsLost DEF vars, HeldFor, OnTheWay
<1>3. ASSUME NEW q \in Requests, NEW r \in Replicas, Hit(q, r)
      PROVE  UnitsAreApart' /\ ReservedCovers'
  <2>0. PICK w \in Windows : w = clock[r]
    BY <1>t, LiveBucketFacts
  <2>1. UNCHANGED <<clock, rows>> /\ ~Calling(q)
    BY <1>t, <1>3, HitFacts
  <2>2. PICK b \in Bucket, c \in Call :
              /\ b.window = w
              /\ bucket' = [bucket EXCEPT ![r] = b] /\ call' = [call EXCEPT ![q] = c]
              /\ c.pc \in {"idle", "refused", "reserve"}
              /\ \/ b.held = HeldFor(r, w) /\ metered' = metered
                 \/ \E u \in HeldFor(r, w) :
                      /\ b.held = HeldFor(r, w) \ {u}
                      /\ metered' = [metered EXCEPT ![w] = @ \cup {u}]
    <3>1. \E b \in Bucket, c \in Call :
              /\ b.window = clock[r]
              /\ bucket' = [bucket EXCEPT ![r] = b] /\ call' = [call EXCEPT ![q] = c]
              /\ c.pc \in {"idle", "refused", "reserve"}
              /\ c.pc = "reserve" => c.at = r /\ c.window = clock[r]
              /\ \/ b.held = HeldFor(r, clock[r]) /\ metered' = metered
                 \/ \E u \in HeldFor(r, clock[r]) :
                      /\ b.held = HeldFor(r, clock[r]) \ {u}
                      /\ metered' = [metered EXCEPT ![clock[r]] = @ \cup {u}]
      BY <1>t, <1>3, HitFacts
    <3>2. QED
      BY <2>0, <3>1
  <2>3. /\ \A k \in Requests \ {q}, x \in Windows : OnTheWay(k, x)' = OnTheWay(k, x)
        /\ \A x \in Windows : OnTheWay(q, x)' = {} /\ OnTheWay(q, x) = {}
    BY <2>1, <2>2, <1>t DEF OnTheWay, Calling, TypeOK
  <2>4. /\ \A p \in Replicas \ {r}, x \in Windows : HeldFor(p, x)' = HeldFor(p, x)
        /\ \A x \in Windows \ {w} : HeldFor(r, x)' = {}
        /\ HeldFor(r, w)' = b.held
    BY <2>1, <2>2, <1>t DEF HeldFor, TypeOK
  <2>5. CASE b.held = HeldFor(r, w) /\ metered' = metered
    BY <2>1, <2>3, <2>4, <2>5, <1>t, UnitsLost
  <2>6. ASSUME NEW u \in HeldFor(r, w), b.held = HeldFor(r, w) \ {u},
               metered' = [metered EXCEPT ![w] = @ \cup {u}]
        PROVE  UnitsAreApart' /\ ReservedCovers'
    <3>1. PICK S \in SUBSET Units : S = {u}
      BY <2>6, <1>t DEF HeldFor, TypeOK, Bucket
    <3>2. /\ HeldFor(r, w)' \cup S \subseteq HeldFor(r, w) \cup OnTheWay(q, w)
          /\ HeldFor(r, w)' \cap S = {}
      BY <2>4, <2>6, <3>1
    <3>3. \A x \in Windows \ {w} : HeldFor(r, x)' \subseteq HeldFor(r, x)
      BY <2>4
    <3>4. /\ clock' = clock /\ rows' = rows
          /\ \A x \in Windows : OnTheWay(q, x)' = {}
          /\ metered \in [Windows -> SUBSET Units]
          /\ metered' = [metered EXCEPT ![w] = @ \cup S]
      BY <2>1, <2>3, <2>6, <3>1, <1>t DEF TypeOK
    <3>5. QED
      BY <2>3, <2>4, <3>2, <3>3, <3>4, <1>t, UnitsTaken
  <2>7. QED
    BY <2>2, <2>5, <2>6
<1>4. ASSUME NEW q \in Requests, Return(q)
      PROVE  UnitsAreApart' /\ ReservedCovers'
  <2>0. PICK r \in Replicas, w \in Windows : r = call[q].at /\ w = call[q].window
    BY <1>t, <1>4, ReturnFacts
  <2>1. UNCHANGED <<clock, rows>> /\ call[q].pc = "reply"
    BY <1>t, <1>4, ReturnFacts
  <2>2. PICK b \in Bucket, c \in Call :
              /\ b.window = bucket[r].window
              /\ bucket' = [bucket EXCEPT ![r] = b] /\ call' = [call EXCEPT ![q] = c]
              /\ c.pc \in {"idle", "refused"}
              /\ \/ b.held = bucket[r].held /\ metered' = metered
                 \/ /\ bucket[r].window = w /\ ~call[q].failed
                    /\ \E S \in SUBSET Units :
                         /\ b.held \cup S \subseteq bucket[r].held \cup call[q].grant
                         /\ b.held \cap S = {}
                         /\ metered' = [metered EXCEPT ![w] = @ \cup S]
    <3>1. \E b \in Bucket, c \in Call :
              /\ b.window = bucket[call[q].at].window
              /\ bucket' = [bucket EXCEPT ![call[q].at] = b] /\ call' = [call EXCEPT ![q] = c]
              /\ c.pc \in {"idle", "refused"}
              /\ \/ b.held = bucket[call[q].at].held /\ metered' = metered
                 \/ /\ bucket[call[q].at].window = call[q].window /\ ~call[q].failed
                    /\ \E S \in SUBSET Units :
                         /\ b.held \cup S \subseteq bucket[call[q].at].held \cup call[q].grant
                         /\ b.held \cap S = {}
                         /\ metered' = [metered EXCEPT ![call[q].window] = @ \cup S]
      BY <1>t, <1>4, ReturnFacts, Zenon
    <3>2. QED
      BY <2>0, <3>1
  <2>3. /\ \A k \in Requests \ {q}, x \in Windows : OnTheWay(k, x)' = OnTheWay(k, x)
        /\ \A x \in Windows : OnTheWay(q, x)' = {}
        /\ ~call[q].failed => OnTheWay(q, w) = call[q].grant
    BY <2>0, <2>1, <2>2, <1>t DEF OnTheWay, TypeOK
  <2>4. /\ \A p \in Replicas \ {r}, x \in Windows : HeldFor(p, x)' = HeldFor(p, x)
        /\ \A x \in Windows : HeldFor(r, x)' = IF bucket[r].window = x THEN b.held ELSE {}
        /\ \A x \in Windows : HeldFor(r, x) = IF bucket[r].window = x THEN bucket[r].held ELSE {}
    BY <2>1, <2>2, <1>t DEF HeldFor, TypeOK
  <2>5. CASE b.held = bucket[r].held /\ metered' = metered
    <3>1. \A p \in Replicas, x \in Windows : HeldFor(p, x)' \subseteq HeldFor(p, x)
      BY <2>1, <2>4, <2>5
    <3>2. \A k \in Requests, x \in Windows : OnTheWay(k, x)' \subseteq OnTheWay(k, x)
      BY <2>3
    <3>3. QED
      BY <2>1, <2>5, <3>1, <3>2, <1>t, UnitsLost
  <2>6. ASSUME bucket[r].window = w, ~call[q].failed, NEW S \in SUBSET Units,
               b.held \cup S \subseteq bucket[r].held \cup call[q].grant,
               b.held \cap S = {},
               metered' = [metered EXCEPT ![w] = @ \cup S]
        PROVE  UnitsAreApart' /\ ReservedCovers'
    <3>1. metered \in [Windows -> SUBSET Units]
      BY <1>t DEF TypeOK
    <3>2. /\ HeldFor(r, w)' \cup S \subseteq HeldFor(r, w) \cup OnTheWay(q, w)
          /\ HeldFor(r, w)' \cap S = {}
      BY <2>1, <2>3, <2>4, <2>6
    <3>3. \A x \in Windows \ {w} : HeldFor(r, x)' \subseteq HeldFor(r, x)
      BY <2>4, <2>6
    <3>4. QED
      BY <2>1, <2>3, <2>4, <2>6, <3>1, <3>2, <3>3, <1>t, UnitsTaken
  <2>7. QED
    BY <2>2, <2>5, <2>6
<1>5. ASSUME NEW q \in Requests, Reserve(q)
      PROVE  UnitsAreApart' /\ ReservedCovers'
  <2>0. PICK w \in Windows : w = call[q].window
    BY <1>5, <1>t DEF Reserve, TimeInv, CallsAreRecent, Calling
  <2>1. /\ call[q].pc = "reserve" /\ rows[w] \in 0..Limit
        /\ UNCHANGED <<clock, bucket, metered>> /\ Reservable(w)
    <3>1. call[q].pc = "reserve" /\ UNCHANGED <<clock, bucket, metered>>
      BY <1>5 DEF Reserve
    <3>2. call[q].at \in Replicas /\ clock[call[q].at] \in {w, w + 1}
      BY <3>1, <2>0, <1>t DEF TimeInv, CallsAreRecent, Calling
    <3>3. w \in Int
      BY BoundAssumption DEF Windows
    <3>4. QED
      BY <3>1, <3>2, <3>3, <1>t DEF TypeOK, Reservable
  <2>2. \A p \in Replicas, x \in Windows : HeldFor(p, x)' = HeldFor(p, x)
    BY <2>1 DEF HeldFor
  <2>3. \A k \in Requests \ {q}, x \in Windows : OnTheWay(k, x)' = OnTheWay(k, x)
    BY <1>5, <1>t DEF Reserve, OnTheWay, TypeOK
  <2>4. \A x \in Windows : OnTheWay(q, x)' \subseteq IF x = w THEN Grant(w) ELSE {}
    <3>1. call[q] \in Call /\ call \in [Requests -> Call]
      BY <1>t DEF TypeOK
    <3>2. CASE call' = [call EXCEPT ![q].pc = "reply", ![q].grant = Grant(w)]
      BY <2>0, <3>1, <3>2 DEF OnTheWay, Call
    <3>3. CASE call' = [call EXCEPT ![q].pc = "reply", ![q].failed = TRUE]
      BY <2>0, <3>1, <3>3 DEF OnTheWay, Call
    <3>4. QED
      BY <1>5, <2>0, <3>2, <3>3 DEF Reserve
  <2>5. \A x \in Windows \ {w} : rows'[x] = rows[x]
    BY <1>5, <2>0, <1>t DEF Reserve, TypeOK
  <2>6. rows'[w] = rows[w] \/ rows'[w] = Reserved(w)
    BY <1>5, <2>0, <2>1, <1>t DEF Reserve, TypeOK
  <2>7. rows'[w] \in Nat /\ rows[w] <= rows'[w]
    BY <2>1, <2>6, BudgetAssumption DEF Reserved
  <2>8. ASSUME NEW u \in OnTheWay(q, w)'
        PROVE  u \in Nat /\ rows[w] < u /\ u <= rows'[w]
    <3>1. u \in Units /\ rows[w] < u /\ u <= rows[w] + Slice
      BY <2>1, <2>4, <2>8 DEF Grant
    <3>2. CASE rows'[w] = Reserved(w)
      BY <2>1, <3>1, <3>2, BudgetAssumption DEF Reserved, Units
    <3>3. CASE rows'[w] # Reserved(w)
      <4>1. call' = [call EXCEPT ![q].pc = "reply", ![q].failed = TRUE]
        BY <1>5, <2>0, <2>1, <3>3, <1>t DEF Reserve, TypeOK
      <4>2. OnTheWay(q, w)' = {}
        BY <4>1, <1>t DEF OnTheWay, TypeOK, Call
      <4>3. QED
        BY <2>8, <4>2
    <3>4. QED
      BY <3>2, <3>3
  <2>9. /\ \A u \in metered[w] : u <= rows[w]
        /\ \A p \in Replicas : \A u \in HeldFor(p, w) : u <= rows[w]
        /\ \A k \in Requests : \A u \in OnTheWay(k, w) : u <= rows[w]
    BY <2>1, <1>t DEF ReservedCovers
  <2>10. /\ OnTheWay(q, w)' \cap metered[w] = {}
         /\ \A p \in Replicas : OnTheWay(q, w)' \cap HeldFor(p, w) = {}
         /\ \A k \in Requests : OnTheWay(q, w)' \cap OnTheWay(k, w) = {}
    <3>1. \A u \in OnTheWay(q, w)' : ~(u <= rows[w])
      BY <2>1, <2>8
    <3>2. QED
      BY <2>9, <3>1
  <2>11. UnitsAreApart'
    <3>1. ASSUME NEW x \in Windows
          PROVE  /\ \A p \in Replicas :
                      /\ HeldFor(p, x)' \cap metered'[x] = {}
                      /\ \A s \in Replicas \ {p} : HeldFor(p, x)' \cap HeldFor(s, x)' = {}
                      /\ \A k \in Requests : HeldFor(p, x)' \cap OnTheWay(k, x)' = {}
                 /\ \A k \in Requests :
                      /\ OnTheWay(k, x)' \cap metered'[x] = {}
                      /\ \A j \in Requests \ {k} : OnTheWay(k, x)' \cap OnTheWay(j, x)' = {}
      <4>a. /\ \A p \in Replicas :
                 /\ HeldFor(p, x) \cap metered[x] = {}
                 /\ \A s \in Replicas \ {p} : HeldFor(p, x) \cap HeldFor(s, x) = {}
                 /\ \A k \in Requests : HeldFor(p, x) \cap OnTheWay(k, x) = {}
            /\ \A k \in Requests :
                 /\ OnTheWay(k, x) \cap metered[x] = {}
                 /\ \A j \in Requests \ {k} : OnTheWay(k, x) \cap OnTheWay(j, x) = {}
        BY <1>t DEF UnitsAreApart
      <4>b. /\ \A p \in Replicas : HeldFor(p, x)' = HeldFor(p, x)
            /\ \A k \in Requests \ {q} : OnTheWay(k, x)' = OnTheWay(k, x)
            /\ metered'[x] = metered[x]
        BY <2>1, <2>2, <2>3
      <4>1. CASE x = w
        BY <4>1, <4>a, <4>b, <2>10
      <4>2. CASE x # w
        <5>1. OnTheWay(q, x)' = {}
          BY <4>2, <2>4
        <5>2. QED
          BY <5>1, <4>a, <4>b
      <4>3. QED
        BY <4>1, <4>2
    <3>2. QED
      BY <3>1 DEF UnitsAreApart
  <2>12. ReservedCovers'
    <3>1. ASSUME NEW x \in Windows, Reservable(x)'
          PROVE  /\ \A u \in metered'[x] : u <= rows'[x]
                 /\ \A p \in Replicas : \A u \in HeldFor(p, x)' : u <= rows'[x]
                 /\ \A k \in Requests : \A u \in OnTheWay(k, x)' : u <= rows'[x]
      <4>a. /\ \A u \in metered[x] : u <= rows[x]
            /\ \A p \in Replicas : \A u \in HeldFor(p, x) : u <= rows[x]
            /\ \A k \in Requests : \A u \in OnTheWay(k, x) : u <= rows[x]
        BY <3>1, <2>1, <1>t DEF ReservedCovers, Reservable
      <4>b. /\ \A p \in Replicas : HeldFor(p, x)' = HeldFor(p, x)
            /\ \A k \in Requests \ {q} : OnTheWay(k, x)' = OnTheWay(k, x)
            /\ metered'[x] = metered[x]
        BY <2>1, <2>2, <2>3
      <4>1. CASE x = w
        <5>1. ASSUME NEW u \in Units, u <= rows[x] PROVE u <= rows'[x]
          BY <5>1, <4>1, <2>1, <2>7 DEF Units
        <5>2. /\ metered[x] \subseteq Units
              /\ \A p \in Replicas : HeldFor(p, x) \subseteq Units
              /\ \A k \in Requests : OnTheWay(k, x) \subseteq Units
          BY <1>t DEF TypeOK, HeldFor, OnTheWay, Bucket, Call
        <5>3. \A u \in OnTheWay(q, x)' : u <= rows'[x]
          BY <4>1, <2>8
        <5>4. QED
          BY <5>1, <5>2, <5>3, <4>a, <4>b
      <4>2. CASE x # w
        <5>1. OnTheWay(q, x)' = {} /\ rows'[x] = rows[x]
          BY <4>2, <2>4, <2>5
        <5>2. QED
          BY <5>1, <4>a, <4>b
      <4>3. QED
        BY <4>1, <4>2
    <3>2. QED
      BY <3>1 DEF ReservedCovers
  <2>13. QED
    BY <2>11, <2>12
<1>6. ASSUME NEW r \in Replicas, Tick(r)
      PROVE  UnitsAreApart' /\ ReservedCovers'
  <2>1. /\ clock' = [clock EXCEPT ![r] = clock[r] + 1]
        /\ UNCHANGED <<bucket, rows, call, metered>>
    BY <1>6 DEF Tick
  <2>2. \A w \in Windows : Reservable(w)' => Reservable(w)
    <3>1. ASSUME NEW w \in Windows, NEW p \in Replicas, clock'[p] <= w + 1
          PROVE  clock[p] <= w + 1
      <4>1. clock[p] \in Int /\ w \in Int /\ (clock'[p] = clock[p] \/ clock'[p] = clock[p] + 1)
        BY <2>1, <1>t, BoundAssumption DEF TypeOK, Windows
      <4>2. QED
        BY <3>1, <4>1
    <3>2. QED
      BY <3>1 DEF Reservable
  <2>3. /\ \A p \in Replicas, w \in Windows : HeldFor(p, w)' = HeldFor(p, w)
        /\ \A q \in Requests, w \in Windows : OnTheWay(q, w)' = OnTheWay(q, w)
    BY <2>1 DEF HeldFor, OnTheWay
  <2>4. UnitsAreApart'
    BY <2>1, <2>3, <1>t DEF UnitsAreApart
  <2>5. ReservedCovers'
    BY <2>1, <2>2, <2>3, <1>t DEF ReservedCovers
  <2>6. QED
    BY <2>4, <2>5
<1>7. ASSUME NEW r \in Replicas, BackoffEnds(r)
      PROVE  UnitsAreApart' /\ ReservedCovers'
  <2>1. /\ bucket' = [bucket EXCEPT ![r].backoff = FALSE]
        /\ UNCHANGED <<clock, rows, call, metered>>
    BY <1>7 DEF BackoffEnds
  <2>2. /\ \A p \in Replicas, w \in Windows : HeldFor(p, w)' = HeldFor(p, w)
        /\ \A q \in Requests, w \in Windows : OnTheWay(q, w)' = OnTheWay(q, w)
    BY <2>1, <1>t DEF HeldFor, OnTheWay, TypeOK, Bucket
  <2>3. QED
    BY <2>1, <2>2, <1>t, UnitsLost
<1>8. ASSUME NEW r \in Replicas, Sweep(r) \/ Restart(r)
      PROVE  UnitsAreApart' /\ ReservedCovers'
  <2>1. /\ bucket' = [bucket EXCEPT ![r] = NoBucket]
        /\ call' = call \/ call' = [q \in Requests |-> IF call[q].at = r THEN Idle ELSE call[q]]
        /\ UNCHANGED <<clock, rows, metered>>
    BY <1>8 DEF Sweep, Restart, Forget
  <2>2. \A p \in Replicas, w \in Windows : HeldFor(p, w)' \subseteq HeldFor(p, w)
    BY <2>1, <1>t, <1>i DEF HeldFor, TypeOK
  <2>3. \A q \in Requests, w \in Windows : OnTheWay(q, w)' \subseteq OnTheWay(q, w)
    BY <2>1, <1>i DEF OnTheWay
  <2>4. QED
    BY <2>1, <2>2, <2>3, <1>t, UnitsLost
<1>9. ASSUME NEW r \in Replicas, Prune(r)
      PROVE  UnitsAreApart' /\ ReservedCovers'
  <2>1. /\ rows' = [w \in Windows |-> IF w < clock[r] - Retention THEN 0 ELSE rows[w]]
        /\ UNCHANGED <<clock, bucket, call, metered>>
    BY <1>9 DEF Prune
  <2>2. \A w \in Windows : Reservable(w) => rows'[w] = rows[w]
    <3>1. ASSUME NEW w \in Windows, NEW p \in Replicas, clock[p] <= w + 1
          PROVE  ~(w < clock[r] - Retention)
      <4>1. /\ w \in Int /\ clock[p] \in Int /\ clock[r] \in Int
            /\ clock[r] <= clock[p] + Skew
        BY <1>t, BoundAssumption DEF TimeInv, ClocksAgree, TypeOK, Windows
      <4>2. QED
        BY <3>1, <4>1, ClockAssumption
    <3>2. QED
      BY <2>1, <3>1 DEF Reservable
  <2>3. /\ \A p \in Replicas, w \in Windows : HeldFor(p, w)' = HeldFor(p, w)
        /\ \A q \in Requests, w \in Windows : OnTheWay(q, w)' = OnTheWay(q, w)
        /\ \A w \in Windows : Reservable(w)' = Reservable(w)
    BY <2>1 DEF HeldFor, OnTheWay, Reservable
  <2>4. UnitsAreApart'
    BY <2>1, <2>3, <1>t DEF UnitsAreApart
  <2>5. ReservedCovers'
    BY <2>1, <2>2, <2>3, <1>t DEF ReservedCovers
  <2>6. QED
    BY <2>4, <2>5
<1>10. QED
  BY <1>1, <1>2, <1>3, <1>4, <1>5, <1>6, <1>7, <1>8, <1>9 DEF Next

\* No unit of a window's budget is given out twice (UnitsAreApart), for every number of
\* replicas and any sequence of failed reservations, restarts and prunings, as long as
\* the pruner keeps more windows than the clocks are apart (bootstrap.go:557).
THEOREM UnitsApart == Spec => []UnitsAreApart
<1>1. Init => BudgetInv
  BY BudgetInit
<1>2. BudgetInv /\ [Next]_vars => BudgetInv'
  BY BudgetStep
<1>3. BudgetInv => UnitsAreApart
  BY DEF BudgetInv
<1>4. QED
  BY <1>1, <1>2, <1>3, PTL DEF Spec

-----------------------------------------------------------------------------
(* When a request is refused.                                              *)

\* The pruner keeps the row of w, whichever replica it runs on.
Retained(w) == \A r \in Replicas : clock[r] - Retention <= w

Full == {w \in Windows : Retained(w) => rows[w] = Limit}

\* Why a refusal is right: the flag of a bucket, a grant that falls short of what was asked
\* for and a refusal that was given all mean that the window's row is at the limit.
FullInv ==
  /\ \A r \in Replicas : bucket[r].exhausted => bucket[r].window \in Full
  /\ \A q \in Requests :
       call[q].pc = "reply" /\ ~call[q].failed /\ Cardinality(call[q].grant) < Slice
         => call[q].window \in Full
  /\ \A q \in Requests : call[q].pc = "refused" => call[q].window \in Full

RefusalInv == TimeInv /\ FullInv

\* A grant is short only when it takes the last of the budget.
LEMMA ShortGrant ==
  ASSUME NEW w \in Windows, rows[w] \in 0..Limit, Cardinality(Grant(w)) < Slice
  PROVE  Reserved(w) = Limit
<1>1. rows[w] \in Nat /\ Limit \in Nat /\ Slice \in Nat \ {0} /\ Slice <= Limit
  BY BudgetAssumption
<1>2. SUFFICES ASSUME rows[w] + Slice <= Limit PROVE FALSE
  BY <1>1 DEF Reserved
<1>3. Grant(w) = (rows[w] + 1)..(rows[w] + Slice)
  BY <1>1, <1>2 DEF Grant, Units
<1>4. \A a, b \in Int : Cardinality(a..b) = IF a > b THEN 0 ELSE b - a + 1
  BY FS_Interval
<1>5. rows[w] + 1 \in Int /\ rows[w] + Slice \in Int
  BY <1>1
<1>6. Cardinality((rows[w] + 1)..(rows[w] + Slice)) =
        IF rows[w] + 1 > rows[w] + Slice THEN 0 ELSE (rows[w] + Slice) - (rows[w] + 1) + 1
  BY <1>4, <1>5, Zenon
<1>7. Cardinality(Grant(w)) = Slice
  BY <1>1, <1>3, <1>6
<1>8. QED
  BY <1>1, <1>7

\* A row at the limit stays there as long as it is retained.
LEMMA FullStays ==
  ASSUME TimeInv, [Next]_vars, NEW w \in Full
  PROVE  w \in Full'
<1>1. w \in Windows /\ (Retained(w) => rows[w] = Limit)
  BY DEF Full
<1>2. SUFFICES ASSUME Retained(w)' PROVE rows'[w] = Limit
  BY <1>1 DEF Full
<1>t. TypeOK
  BY DEF TimeInv
<1>3. CASE clock' = clock /\ rows' = rows
  BY <1>1, <1>2, <1>3 DEF Retained
<1>4. ASSUME NEW r \in Replicas, Tick(r) PROVE rows'[w] = Limit
  <2>1. rows' = rows /\ clock' = [clock EXCEPT ![r] = clock[r] + 1]
    BY <1>4 DEF Tick
  <2>2. \A p \in Replicas : clock'[p] - Retention <= w => clock[p] - Retention <= w
    BY <2>1, <1>1, <1>t, BoundAssumption, ClockAssumption DEF TypeOK, Windows
  <2>3. QED
    BY <2>1, <2>2, <1>1, <1>2 DEF Retained
<1>5. ASSUME NEW r \in Replicas, Prune(r) PROVE rows'[w] = Limit
  <2>1. /\ rows' = [x \in Windows |-> IF x < clock[r] - Retention THEN 0 ELSE rows[x]]
        /\ clock' = clock
    BY <1>5 DEF Prune
  <2>2. clock[r] - Retention <= w /\ clock[r] \in Int /\ w \in Int /\ Retention \in Int
    BY <2>1, <1>1, <1>2, <1>t, BoundAssumption, ClockAssumption DEF Retained, TypeOK, Windows
  <2>3. QED
    BY <2>1, <2>2, <1>1, <1>2 DEF Retained
<1>6. ASSUME NEW q \in Requests, Reserve(q) PROVE rows'[w] = Limit
  <2>1. clock' = clock
        /\ (rows' = rows \/ rows' = [rows EXCEPT ![call[q].window] = Reserved(call[q].window)])
    BY <1>6 DEF Reserve
  <2>2. rows[w] = Limit
    BY <2>1, <1>1, <1>2 DEF Retained
  <2>3. Reserved(w) = Limit
    BY <2>2, BudgetAssumption DEF Reserved
  <2>4. QED
    BY <2>1, <2>2, <2>3, <1>1, <1>t DEF TypeOK
<1>7. QED
  <2>1. ASSUME NEW q \in Requests, NEW r \in Replicas, Hit(q, r)
        PROVE  clock' = clock /\ rows' = rows
    BY <2>1 DEF Hit
  <2>2. ASSUME NEW q \in Requests, Return(q) PROVE clock' = clock /\ rows' = rows
    BY <2>2 DEF Return
  <2>3. ASSUME NEW r \in Replicas, BackoffEnds(r) \/ Sweep(r) \/ Restart(r)
        PROVE  clock' = clock /\ rows' = rows
    BY <2>3 DEF BackoffEnds, Sweep, Restart
  <2>4. UNCHANGED vars => clock' = clock /\ rows' = rows
    BY DEF vars
  <2>5. QED
    BY <1>3, <1>4, <1>5, <1>6, <2>1, <2>2, <2>3, <2>4 DEF Next

\* What a hit leaves in the bucket and in the call, and whether it lets the request through.
LEMMA HitCounts ==
  ASSUME TimeInv, NEW q \in Requests, NEW r \in Replicas, Hit(q, r)
  PROVE  \E b \in Bucket, c \in Call :
           /\ bucket' = [bucket EXCEPT ![r] = b] /\ call' = [call EXCEPT ![q] = c]
           /\ b.window = clock[r] /\ b.count = Counted(r).count
           /\ b.exhausted = Counted(r).exhausted
           /\ c.pc = "refused" => b.exhausted /\ c.window = clock[r]
           /\ \/ c.pc \in {"idle", "refused"} /\ admitted' = admitted
              \/ /\ c.pc = "idle" /\ b.count <= Limit
                 /\ admitted' = [admitted EXCEPT ![clock[r]] = @ + 1]
              \/ /\ c.pc = "reserve" /\ b.count <= Limit /\ c.window = clock[r]
                 /\ admitted' = admitted
<1> DEFINE b == Counted(r)
<1>1. b \in Bucket /\ b.window = clock[r] /\ clock[r] \in Windows
  BY CountedFacts, LiveBucketFacts
<1>2. \/ OverCeiling(q, r, b) \/ FastPath(q, r, b) \/ Exhausted(q, r, b)
      \/ Degraded(q, r, b) \/ AskStore(q, r, b)
  BY DEF Hit, Counted
<1>i. Idle \in Call /\ Idle.pc = "idle"
  BY IdleType
<1>b. b.count = Counted(r).count /\ b.exhausted = Counted(r).exhausted
  OBVIOUS
<1> HIDE DEF b
<1>3. CASE OverCeiling(q, r, b)
  BY <1>1, <1>3, <1>i, <1>b DEF OverCeiling
<1>4. CASE FastPath(q, r, b)
  <2>1. PICK u \in b.held :
          /\ bucket' = [bucket EXCEPT ![r] = [b EXCEPT !.held = @ \ {u}]]
          /\ Admit(q, b.window)
    BY <1>4 DEF FastPath, Spend
  <2> DEFINE d == [b EXCEPT !.held = @ \ {u}]
  <2>2. /\ d \in Bucket /\ d.window = clock[r]
        /\ d.count = b.count /\ d.exhausted = b.exhausted
    BY <1>1 DEF Bucket
  <2>3. bucket' = [bucket EXCEPT ![r] = d]
    BY <2>1
  <2> HIDE DEF d
  <2>4. /\ call' = [call EXCEPT ![q] = Idle] /\ b.count <= Limit
        /\ admitted' = [admitted EXCEPT ![clock[r]] = @ + 1]
    BY <1>1, <1>4, <2>1 DEF FastPath, Admit
  <2>5. QED
    BY <2>2, <2>3, <2>4, <1>i, <1>b
<1>5. CASE Exhausted(q, r, b)
  <2> DEFINE c == [Idle EXCEPT !.pc = "refused", !.window = b.window]
  <2>1. /\ bucket' = [bucket EXCEPT ![r] = b] /\ call' = [call EXCEPT ![q] = c]
        /\ b.exhausted /\ admitted' = admitted
    BY <1>5 DEF Exhausted, Refuse
  <2>2. c \in Call /\ c.pc = "refused" /\ c.window = clock[r]
    BY <1>1 DEF Idle, Call
  <2> HIDE DEF c
  <2>3. QED
    BY <1>1, <1>b, <2>1, <2>2
<1>6. CASE Degraded(q, r, b)
  <2>1. /\ bucket' = [bucket EXCEPT ![r] = b] /\ call' = [call EXCEPT ![q] = Idle]
        /\ b.count <= Limit /\ admitted' = [admitted EXCEPT ![clock[r]] = @ + 1]
    BY <1>1, <1>6 DEF Degraded, Admit
  <2>2. QED
    BY <1>1, <1>i, <1>b, <2>1
<1>7. CASE AskStore(q, r, b)
  <2> DEFINE c == [Idle EXCEPT !.pc = "reserve", !.at = r, !.window = b.window]
  <2>1. /\ bucket' = [bucket EXCEPT ![r] = b] /\ call' = [call EXCEPT ![q] = c]
        /\ b.count <= Limit /\ admitted' = admitted
    BY <1>7 DEF AskStore
  <2>2. c \in Call /\ c.pc = "reserve" /\ c.window = clock[r]
    BY <1>1 DEF Idle, Call
  <2> HIDE DEF c
  <2>3. QED
    BY <1>1, <1>b, <2>1, <2>2
<1>8. QED
  BY <1>2, <1>3, <1>4, <1>5, <1>6, <1>7

\* The same for the second critical section: it counts nothing, and lets at most the
\* request through that it returns to, in the window the request reserved for.
LEMMA ReturnCounts ==
  ASSUME TimeInv, NEW q \in Requests, Return(q)
  PROVE  LET r == call[q].at
             w == call[q].window
             short == ~call[q].failed /\ Cardinality(call[q].grant) < Slice
         IN
         \E b \in Bucket, c \in Call :
           /\ bucket' = [bucket EXCEPT ![r] = b] /\ call' = [call EXCEPT ![q] = c]
           /\ b.window = bucket[r].window /\ b.count = bucket[r].count
           /\ b.exhausted => bucket[r].exhausted \/ (bucket[r].window = w /\ short)
           /\ c.pc \in {"idle", "refused"}
           /\ c.pc = "refused" => c.window = w /\ short
           /\ \/ admitted' = admitted
              \/ admitted' = [admitted EXCEPT ![w] = @ + 1]
<1> DEFINE r == call[q].at
           w == call[q].window
           short == ~call[q].failed /\ Cardinality(call[q].grant) < Slice
<1>t. TypeOK
  BY DEF TimeInv
<1>1. call[q].pc = "reply" /\ r \in Replicas /\ w \in Windows
  BY DEF Return, TimeInv, CallsAreRecent, Calling
<1>2. bucket[r] \in Bucket /\ call[q] \in Call
  BY <1>1, <1>t DEF TypeOK
<1>i. Idle \in Call /\ Idle.pc = "idle"
  BY IdleType
<1>3. \/ WindowGone(q) \/ StoreFailed(q) \/ Granted(q)
  BY DEF Return
<1>4. CASE WindowGone(q)
  <2>1. /\ bucket' = [bucket EXCEPT ![r] = bucket[r]] /\ call' = [call EXCEPT ![q] = Idle]
        /\ admitted' = [admitted EXCEPT ![w] = @ + 1]
    BY <1>4, <1>1, <1>t DEF WindowGone, Admit, TypeOK
  <2>2. QED
    BY <1>2, <1>i, <2>1
<1>5. CASE StoreFailed(q)
  <2> DEFINE b == [bucket[r] EXCEPT !.backoff = TRUE]
  <2>1. /\ bucket' = [bucket EXCEPT ![r] = b] /\ call' = [call EXCEPT ![q] = Idle]
        /\ admitted' = [admitted EXCEPT ![w] = @ + 1]
    BY <1>5, <1>1, <1>t DEF StoreFailed, Admit, TypeOK
  <2>2. /\ b \in Bucket /\ b.window = bucket[r].window
        /\ b.count = bucket[r].count /\ b.exhausted = bucket[r].exhausted
    BY <1>2 DEF Bucket
  <2> HIDE DEF b
  <2>3. QED
    BY <1>i, <2>1, <2>2
<1>6. CASE Granted(q)
  <2> DEFINE b == [bucket[r] EXCEPT !.held = @ \cup call[q].grant,
                                    !.exhausted = @ \/ Cardinality(call[q].grant) < Slice]
  <2>1. bucket[r].window = w /\ ~call[q].failed
    BY <1>6 DEF Granted, SameWindow
  <2>2. bucket[r].exhausted \in BOOLEAN /\ call[q].grant \subseteq Units
    BY <1>2 DEF Bucket, Call
  <2>3. /\ b \in Bucket /\ b.window = w /\ b.count = bucket[r].count
        /\ b.held = bucket[r].held \cup call[q].grant
        /\ b.exhausted => bucket[r].exhausted \/ (bucket[r].window = w /\ short)
    BY <1>2, <2>1, <2>2 DEF Bucket
  <2>4. \/ b.held # {} /\ Spend(q, r, b)
        \/ b.held = {} /\ bucket' = [bucket EXCEPT ![r] = b] /\ Refuse(q, w)
    BY <1>6, <2>3 DEF Granted
  <2> HIDE DEF b
  <2>5. CASE Spend(q, r, b)
    <3>1. PICK u \in b.held :
            /\ bucket' = [bucket EXCEPT ![r] = [b EXCEPT !.held = @ \ {u}]]
            /\ Admit(q, b.window)
      BY <2>5 DEF Spend
    <3> DEFINE d == [b EXCEPT !.held = @ \ {u}]
    <3>2. d \in Bucket /\ d.window = w /\ d.count = b.count /\ d.exhausted = b.exhausted
      BY <2>3 DEF Bucket
    <3>3. bucket' = [bucket EXCEPT ![r] = d]
      BY <3>1
    <3> HIDE DEF d
    <3>4. call' = [call EXCEPT ![q] = Idle] /\ admitted' = [admitted EXCEPT ![w] = @ + 1]
      BY <2>3, <3>1 DEF Admit
    <3>5. QED
      BY <2>1, <2>3, <3>2, <3>3, <3>4, <1>i
  <2>6. CASE b.held = {} /\ bucket' = [bucket EXCEPT ![r] = b] /\ Refuse(q, w)
    <3> DEFINE c == [Idle EXCEPT !.pc = "refused", !.window = w]
    <3>1. call' = [call EXCEPT ![q] = c] /\ admitted' = admitted
      BY <2>6 DEF Refuse
    <3>2. c \in Call /\ c.pc = "refused" /\ c.window = w
      BY <1>1 DEF Idle, Call
    <3> HIDE DEF c
    <3>3. call[q].grant = {} /\ Cardinality({}) = 0
      BY <2>3, <2>6, FS_EmptySet
    <3>4. short
      BY <2>1, <3>3, BudgetAssumption
    <3>5. QED
      BY <2>1, <2>3, <2>6, <3>1, <3>2, <3>4
  <2>7. QED
    BY <2>4, <2>5, <2>6
<1>7. QED
  BY <1>3, <1>4, <1>5, <1>6

\* RefusalInv holds at the start.
LEMMA RefusalInit == Init => RefusalInv
<1>1. SUFFICES ASSUME Init PROVE RefusalInv
  OBVIOUS
<1>2. ~NoBucket.exhausted
  BY DEF NoBucket, NewBucket
<1>3. FullInv
  BY <1>1, <1>2, IdleType DEF Init, FullInv
<1>4. QED
  BY <1>1, <1>3, TimeInit DEF RefusalInv

\* Every action keeps RefusalInv.
LEMMA RefusalStep == RefusalInv /\ [Next]_vars => RefusalInv'
<1>1. SUFFICES ASSUME RefusalInv, [Next]_vars PROVE FullInv'
  BY TimeStep DEF RefusalInv
<1>t. TimeInv /\ TypeOK /\ FullInv
  BY <1>1 DEF RefusalInv, TimeInv
<1>s. Full \subseteq Full'
  BY <1>1, <1>t, FullStays
<1>i. Idle \in Call /\ Idle.pc = "idle" /\ ~NoBucket.exhausted
  BY IdleType DEF NoBucket, NewBucket
<1> DEFINE Told(q) == \/ /\ call[q].pc = "reply" /\ ~call[q].failed
                         /\ Cardinality(call[q].grant) < Slice
                      \/ call[q].pc = "refused"
<1>f. /\ \A r \in Replicas : bucket[r].exhausted => bucket[r].window \in Full
      /\ \A q \in Requests : Told(q) => call[q].window \in Full
  BY <1>t DEF FullInv
<1>g. SUFFICES /\ \A r \in Replicas : bucket'[r].exhausted => bucket'[r].window \in Full'
               /\ \A q \in Requests : Told(q)' => call'[q].window \in Full'
  BY DEF FullInv
<1>k. ASSUME call' = call PROVE \A q \in Requests : Told(q)' => call'[q].window \in Full'
  BY <1>k, <1>f, <1>s
<1>2. ASSUME NEW q \in Requests, NEW r \in Replicas, Hit(q, r)
      PROVE  /\ \A p \in Replicas : bucket'[p].exhausted => bucket'[p].window \in Full'
             /\ \A k \in Requests : Told(k)' => call'[k].window \in Full'
  <2>1. PICK b \in Bucket, c \in Call :
           /\ bucket' = [bucket EXCEPT ![r] = b] /\ call' = [call EXCEPT ![q] = c]
           /\ b.window = clock[r] /\ b.exhausted = Counted(r).exhausted
           /\ c.pc = "refused" => b.exhausted /\ c.window = clock[r]
           /\ c.pc \in {"idle", "refused", "reserve"}
    BY <1>2, <1>t, HitCounts
  <2>2. Counted(r).exhausted => bucket[r].exhausted /\ bucket[r].window = clock[r]
    <3>1. bucket[r] \in Bucket /\ bucket[r].window \in Int /\ clock[r] \in Int
      BY <1>t, BoundAssumption DEF TypeOK, Bucket, Windows
    <3>2. Counted(r).exhausted = LiveBucket(r).exhausted
      BY <1>t, LiveBucketFacts DEF Counted, Bucket
    <3>3. CASE bucket[r].window >= clock[r]
      BY <3>1, <3>2, <3>3, <1>t DEF LiveBucket, TimeInv, NoneAhead
    <3>4. CASE ~(bucket[r].window >= clock[r])
      BY <3>2, <3>4 DEF LiveBucket, NewBucket
    <3>5. QED
      BY <3>3, <3>4
  <2>3. b.exhausted => clock[r] \in Full'
    BY <2>1, <2>2, <1>f, <1>s
  <2>4. ASSUME NEW p \in Replicas, bucket'[p].exhausted PROVE bucket'[p].window \in Full'
    BY <2>1, <2>3, <2>4, <1>f, <1>s, <1>t DEF TypeOK
  <2>5. ASSUME NEW k \in Requests, Told(k)' PROVE call'[k].window \in Full'
    <3>1. CASE k = q
      BY <2>1, <2>3, <2>5, <3>1, <1>t DEF TypeOK
    <3>2. CASE k # q
      BY <2>1, <2>5, <3>2, <1>f, <1>s, <1>t DEF TypeOK
    <3>3. QED
      BY <3>1, <3>2
  <2>6. QED
    BY <2>4, <2>5
<1>3. ASSUME NEW q \in Requests, Reserve(q)
      PROVE  /\ \A p \in Replicas : bucket'[p].exhausted => bucket'[p].window \in Full'
             /\ \A k \in Requests : Told(k)' => call'[k].window \in Full'
  <2>1. PICK w \in Windows : w = call[q].window
    BY <1>3, <1>t DEF Reserve, TimeInv, CallsAreRecent, Calling
  <2>2. bucket' = bucket /\ call[q] \in Call /\ rows[w] \in 0..Limit
    BY <1>3, <1>t DEF Reserve, TypeOK
  <2>3. ASSUME NEW k \in Requests, Told(k)' PROVE call'[k].window \in Full'
    <3>1. CASE k # q
      BY <1>3, <2>3, <3>1, <1>f, <1>s, <1>t DEF Reserve, TypeOK
    <3>2. CASE k = q
      <4>1. CASE call' = [call EXCEPT ![q].pc = "reply", ![q].grant = Grant(w)]
                 /\ rows' = [rows EXCEPT ![w] = Reserved(w)]
        <5>1. call'[q].grant = Grant(w) /\ call'[q].pc = "reply" /\ call'[q].window = w
          BY <4>1, <2>1, <2>2, <1>t DEF TypeOK, Call
        <5>2. Reserved(w) = Limit
          BY <5>1, <2>2, <2>3, <3>2, ShortGrant
        <5>3. rows'[w] = Limit
          BY <4>1, <5>2, <1>t DEF TypeOK
        <5>4. QED
          BY <5>1, <5>3, <3>2 DEF Full
      <4>2. CASE call' = [call EXCEPT ![q].pc = "reply", ![q].failed = TRUE]
        BY <4>2, <2>2, <2>3, <3>2, <1>t DEF TypeOK, Call
      <4>3. QED
        BY <1>3, <2>1, <4>1, <4>2 DEF Reserve
    <3>3. QED
      BY <3>1, <3>2
  <2>4. QED
    BY <2>2, <2>3, <1>f, <1>s
<1>4. ASSUME NEW q \in Requests, Return(q)
      PROVE  /\ \A p \in Replicas : bucket'[p].exhausted => bucket'[p].window \in Full'
             /\ \A k \in Requests : Told(k)' => call'[k].window \in Full'
  <2>1. PICK r \in Replicas, w \in Windows : r = call[q].at /\ w = call[q].window
    BY <1>4, <1>t DEF Return, TimeInv, CallsAreRecent, Calling
  <2> DEFINE short == ~call[q].failed /\ Cardinality(call[q].grant) < Slice
  <2>2. PICK b \in Bucket, c \in Call :
           /\ bucket' = [bucket EXCEPT ![r] = b] /\ call' = [call EXCEPT ![q] = c]
           /\ b.window = bucket[r].window
           /\ b.exhausted => bucket[r].exhausted \/ (bucket[r].window = w /\ short)
           /\ c.pc \in {"idle", "refused"}
           /\ c.pc = "refused" => c.window = w /\ short
    BY <1>4, <1>t, <2>1, ReturnCounts
  <2>3. short => w \in Full'
    BY <1>4, <1>f, <1>s, <2>1 DEF Return
  <2> HIDE DEF short
  <2>4. ASSUME NEW p \in Replicas, bucket'[p].exhausted PROVE bucket'[p].window \in Full'
    <3>1. CASE p = r
      BY <2>2, <2>3, <2>4, <3>1, <1>f, <1>s, <1>t DEF TypeOK
    <3>2. CASE p # r
      BY <2>2, <2>4, <3>2, <1>f, <1>s, <1>t DEF TypeOK
    <3>3. QED
      BY <3>1, <3>2
  <2>5. ASSUME NEW k \in Requests, Told(k)' PROVE call'[k].window \in Full'
    <3>1. CASE k = q
      BY <2>2, <2>3, <2>5, <3>1, <1>t DEF TypeOK
    <3>2. CASE k # q
      BY <2>2, <2>5, <3>2, <1>f, <1>s, <1>t DEF TypeOK
    <3>3. QED
      BY <3>1, <3>2
  <2>6. QED
    BY <2>4, <2>5
<1>5. ASSUME NEW r \in Replicas, Tick(r) \/ Prune(r)
      PROVE  /\ \A p \in Replicas : bucket'[p].exhausted => bucket'[p].window \in Full'
             /\ \A k \in Requests : Told(k)' => call'[k].window \in Full'
  <2>1. bucket' = bucket /\ call' = call
    BY <1>5 DEF Tick, Prune
  <2>2. QED
    BY <2>1, <1>k, <1>f, <1>s
<1>6. ASSUME NEW r \in Replicas, BackoffEnds(r)
      PROVE  /\ \A p \in Replicas : bucket'[p].exhausted => bucket'[p].window \in Full'
             /\ \A k \in Requests : Told(k)' => call'[k].window \in Full'
  <2>1. bucket' = [bucket EXCEPT ![r].backoff = FALSE] /\ call' = call
    BY <1>6 DEF BackoffEnds
  <2>2. \A p \in Replicas : bucket'[p].exhausted = bucket[p].exhausted
                            /\ bucket'[p].window = bucket[p].window
    BY <2>1, <1>t DEF TypeOK, Bucket
  <2>3. QED
    BY <2>1, <2>2, <1>k, <1>f, <1>s
<1>7. ASSUME NEW r \in Replicas, Sweep(r) \/ Restart(r)
      PROVE  /\ \A p \in Replicas : bucket'[p].exhausted => bucket'[p].window \in Full'
             /\ \A k \in Requests : Told(k)' => call'[k].window \in Full'
  <2>1. /\ bucket' = [bucket EXCEPT ![r] = NoBucket]
        /\ call' = call \/ call' = [q \in Requests |-> IF call[q].at = r THEN Idle ELSE call[q]]
    BY <1>7 DEF Sweep, Restart, Forget
  <2>2. \A k \in Requests : call'[k] = call[k] \/ call'[k].pc = "idle"
    BY <2>1, <1>i
  <2>3. \A k \in Requests : Told(k)' => call'[k].window \in Full'
    BY <2>2, <1>f, <1>s
  <2>4. QED
    BY <2>1, <2>3, <1>f, <1>s, <1>i, <1>t DEF TypeOK
<1>8. CASE UNCHANGED vars
  BY <1>8, <1>f, <1>s, <1>k DEF vars
<1>9. QED
  BY <1>1, <1>2, <1>3, <1>4, <1>5, <1>6, <1>7, <1>8 DEF Next

\* Nobody is refused for the shared budget while some of it is left
\* (RefusedOnlyWhenReserved): for every number of replicas, budget and slice, whatever
\* reservations fail or come late and whichever replica prunes.
THEOREM RefusedWhenReserved == Spec => []RefusedOnlyWhenReserved
<1>1. Init => RefusalInv
  BY RefusalInit
<1>2. RefusalInv /\ [Next]_vars => RefusalInv'
  BY RefusalStep
<1>3. RefusalInv => RefusedOnlyWhenReserved
  BY DEF RefusalInv, FullInv, Full, Retained, RefusedOnlyWhenReserved
<1>4. QED
  BY <1>1, <1>2, <1>3, PTL DEF Spec

-----------------------------------------------------------------------------
(* How many requests are let through.                                      *)

\* How many of a window's requests a replica has counted; it counts no more when the window
\* is over.
Spent(r, w) == IF clock[r] > w THEN Limit
               ELSE IF bucket[r].window = w THEN bucket[r].count ELSE 0

\* What the replicas' own ceilings still leave of a window, as a set, and the requests
\* that have passed a ceiling and are in the database.
Left(w) == {t \in Replicas \X Units : t[2] > Spent(t[1], w)}
Under(w) == {q \in Requests : Calling(q) /\ call[q].window = w}

\* A request that is let through was under way or takes one of what is left; a restart or
\* a reset gives at most a replica's whole ceiling back.
WithinCeiling ==
  \A w \in Windows :
    admitted[w] + Cardinality(Under(w)) + Cardinality(Left(w))
      <= Limit * (Cardinality(Replicas) + lost[w])

CeilingInv == TimeInv /\ WithinCeiling

\* The sets the ceiling is counted with are finite.
LEMMA CeilingSets ==
  /\ Limit \in Nat /\ Cardinality(Replicas) \in Nat
  /\ IsFiniteSet(Replicas \X Units)
  /\ Cardinality(Replicas \X Units) = Cardinality(Replicas) * Limit
  /\ \A r : IsFiniteSet({r} \X Units) /\ Cardinality({r} \X Units) = Limit
  /\ \A w : /\ IsFiniteSet(Left(w)) /\ Cardinality(Left(w)) \in Nat
            /\ IsFiniteSet(Under(w)) /\ Cardinality(Under(w)) \in Nat
<1>1. Limit \in Nat /\ Limit \in Int /\ 1 \in Int /\ Limit >= 1
  BY BudgetAssumption
<1>2. IsFiniteSet(1..Limit) /\ Cardinality(1..Limit) = IF 1 > Limit THEN 0 ELSE Limit - 1 + 1
  BY <1>1, FS_Interval, Zenon
<1>3. IsFiniteSet(Units) /\ Cardinality(Units) = Limit
  BY <1>1, <1>2 DEF Units
<1>4. IsFiniteSet(Replicas) /\ IsFiniteSet(Requests) /\ Cardinality(Replicas) \in Nat
  BY FinitenessAssumption, FS_CardinalityType
<1>5. IsFiniteSet(Replicas \X Units)
      /\ Cardinality(Replicas \X Units) = Cardinality(Replicas) * Limit
  BY <1>3, <1>4, FS_Product
<1>6. ASSUME NEW r PROVE IsFiniteSet({r} \X Units) /\ Cardinality({r} \X Units) = Limit
  <2>1. IsFiniteSet({r}) /\ Cardinality({r}) = 1
    BY FS_Singleton
  <2>2. IsFiniteSet({r} \X Units) /\ Cardinality({r} \X Units) = 1 * Limit
    BY <2>1, <1>3, FS_Product
  <2>3. QED
    BY <2>2, <1>1
<1>7. ASSUME NEW w
      PROVE  /\ IsFiniteSet(Left(w)) /\ Cardinality(Left(w)) \in Nat
             /\ IsFiniteSet(Under(w)) /\ Cardinality(Under(w)) \in Nat
  <2>1. Left(w) \in SUBSET (Replicas \X Units) /\ Under(w) \in SUBSET Requests
    BY DEF Left, Under
  <2>2. IsFiniteSet(Left(w)) /\ IsFiniteSet(Under(w))
    BY <2>1, <1>4, <1>5, FS_Subset
  <2>3. QED
    BY <2>2, FS_CardinalityType
<1>8. QED
  BY <1>1, <1>4, <1>5, <1>6, <1>7

\* One element less, one element more, nothing more.
LEMMA SetSizes ==
  ASSUME NEW S, NEW T, IsFiniteSet(S), IsFiniteSet(T)
  PROVE  /\ Cardinality(S) \in Nat /\ Cardinality(T) \in Nat
         /\ T \subseteq S => Cardinality(T) <= Cardinality(S)
         /\ \A x : x \in S /\ T \subseteq S \ {x} => Cardinality(T) <= Cardinality(S) - 1
         /\ \A x : T \subseteq S \cup {x} => Cardinality(T) <= Cardinality(S) + 1
         /\ \A U : IsFiniteSet(U) /\ T \subseteq S \cup U =>
              Cardinality(T) <= Cardinality(S) + Cardinality(U)
<1>1. Cardinality(S) \in Nat /\ Cardinality(T) \in Nat
  BY FS_CardinalityType
<1>2. T \subseteq S => Cardinality(T) <= Cardinality(S)
  BY FS_Subset
<1>3. ASSUME NEW x, x \in S, T \subseteq S \ {x} PROVE Cardinality(T) <= Cardinality(S) - 1
  <2>1. IsFiniteSet(S \ {x}) /\ Cardinality(S \ {x}) = Cardinality(S) - 1
    BY <1>3, FS_RemoveElement
  <2>2. T \in SUBSET (S \ {x})
    BY <1>3
  <2>3. Cardinality(T) <= Cardinality(S \ {x})
    BY <2>1, <2>2, FS_Subset
  <2>4. QED
    BY <2>1, <2>3
<1>4. ASSUME NEW x, T \subseteq S \cup {x} PROVE Cardinality(T) <= Cardinality(S) + 1
  <2>1. /\ IsFiniteSet(S \cup {x})
        /\ Cardinality(S \cup {x}) = IF x \in S THEN Cardinality(S) ELSE Cardinality(S) + 1
    BY FS_AddElement
  <2>2. Cardinality(T) <= Cardinality(S \cup {x})
    BY <1>4, <2>1, FS_Subset
  <2>3. QED
    BY <2>1, <2>2, <1>1
<1>5. ASSUME NEW U, IsFiniteSet(U), T \subseteq S \cup U
      PROVE  Cardinality(T) <= Cardinality(S) + Cardinality(U)
  <2>1. /\ IsFiniteSet(S \cup U)
        /\ Cardinality(S \cup U) = Cardinality(S) + Cardinality(U) - Cardinality(S \cap U)
    BY <1>5, FS_Union
  <2>2. IsFiniteSet(S \cap U) /\ Cardinality(S \cap U) \in Nat /\ Cardinality(U) \in Nat
    BY <1>5, FS_Intersection, FS_CardinalityType
  <2>3. Cardinality(T) <= Cardinality(S \cup U)
    BY <1>5, <2>1, FS_Subset
  <2>4. Cardinality(S \cup U) \in Nat
    BY <2>1, FS_CardinalityType
  <2>5. QED
    BY <2>1, <2>2, <2>3, <2>4, <1>1
<1>6. QED
  BY <1>1, <1>2, <1>3, <1>4, <1>5

\* A hit that passes the ceiling takes one of what its window has left, and a hit adds
\* nothing to what any window has left.
LEMMA HitTakes ==
  ASSUME TimeInv, NEW r \in Replicas, NEW b \in Bucket,
         clock' = clock, bucket' = [bucket EXCEPT ![r] = b],
         b.window = clock[r], b.count = Counted(r).count
  PROVE  \A w \in Windows :
           /\ Left(w)' \subseteq Left(w)
           /\ w = clock[r] /\ b.count <= Limit =>
                <<r, b.count>> \in Left(w) /\ Left(w)' \subseteq Left(w) \ {<<r, b.count>>}
<1>t. TypeOK /\ NoneAhead
  BY DEF TimeInv
<1>1. /\ clock[r] \in Int /\ bucket[r].window \in Int /\ bucket[r].window <= clock[r]
      /\ bucket[r].count \in Nat /\ Limit \in Nat
  BY <1>t, BoundAssumption, BudgetAssumption DEF TypeOK, NoneAhead, Bucket, Windows
<1>2. LiveBucket(r).count = IF bucket[r].window = clock[r] THEN bucket[r].count ELSE 0
  BY <1>1 DEF LiveBucket, NewBucket
<1>3. b.count = IF LiveBucket(r).count > Limit THEN LiveBucket(r).count
                ELSE LiveBucket(r).count + 1
  BY <1>t, LiveBucketFacts DEF Counted, Bucket
<1>4. \A p \in Replicas \ {r}, w \in Windows : Spent(p, w)' = Spent(p, w)
  BY <1>t DEF Spent, TypeOK
<1>5. bucket'[r] = b
  BY <1>t DEF TypeOK
<1>6. \A w \in Windows : /\ w # clock[r] => Spent(r, w)' = IF clock[r] > w THEN Limit ELSE 0
                         /\ w = clock[r] => Spent(r, w)' = b.count
  BY <1>1, <1>5, BoundAssumption DEF Spent, Windows
<1>7. \A w \in Windows : w # clock[r] => Spent(r, w) = IF clock[r] > w THEN Limit ELSE 0
  BY <1>1, BoundAssumption DEF Spent, Windows
<1>8. Spent(r, clock[r]) = LiveBucket(r).count
  BY <1>1, <1>2 DEF Spent
<1>9. ASSUME NEW w \in Windows PROVE Left(w)' \subseteq Left(w)
  <2>1. ASSUME NEW p \in Replicas, NEW u \in Units, u > Spent(p, w)'
        PROVE  u > Spent(p, w)
    <3>1. u \in Int /\ u <= Limit /\ w \in Int
      BY <1>1, BoundAssumption DEF Units, Windows
    <3>2. CASE p # r
      BY <1>4, <2>1, <3>2
    <3>3. CASE p = r
      BY <1>1, <1>2, <1>3, <1>6, <1>7, <1>8, <2>1, <3>1, <3>3
    <3>4. QED
      BY <3>2, <3>3
  <2>2. QED
    BY <2>1 DEF Left
<1>10. ASSUME NEW w \in Windows, w = clock[r], b.count <= Limit
       PROVE  <<r, b.count>> \in Left(w) /\ Left(w)' \subseteq Left(w) \ {<<r, b.count>>}
  <2>1. /\ b.count \in Units /\ b.count > Spent(r, w)
        /\ Spent(r, w)' = b.count /\ ~(b.count > b.count)
    BY <1>1, <1>2, <1>3, <1>6, <1>8, <1>10 DEF Units
  <2>2. <<r, b.count>> \in Left(w)
    BY <2>1 DEF Left
  <2>3. <<r, b.count>> \notin Left(w)'
    BY <2>1 DEF Left
  <2>4. QED
    BY <1>9, <2>2, <2>3
<1>11. QED
  BY <1>9, <1>10

\* CeilingInv holds at the start.
LEMMA CeilingInit == Init => CeilingInv
<1>1. SUFFICES ASSUME Init PROVE WithinCeiling
  BY TimeInit DEF CeilingInv
<1>2. SUFFICES ASSUME NEW w \in Windows
               PROVE  admitted[w] + Cardinality(Under(w)) + Cardinality(Left(w))
                        <= Limit * (Cardinality(Replicas) + lost[w])
  BY DEF WithinCeiling
<1>3. admitted[w] = 0 /\ lost[w] = 0
  BY <1>1 DEF Init
<1>4. Under(w) = {} /\ Cardinality({}) = 0
  BY <1>1, IdleType, FS_EmptySet DEF Init, Under, Calling
<1>5. Cardinality(Left(w)) <= Cardinality(Replicas \X Units)
  <2>1. Left(w) \subseteq Replicas \X Units
    BY DEF Left
  <2>2. QED
    BY <2>1, CeilingSets, FS_Subset
<1>6. Cardinality(Left(w)) <= Cardinality(Replicas) * Limit
      /\ Limit \in Nat /\ Cardinality(Replicas) \in Nat /\ Cardinality(Left(w)) \in Nat
  BY <1>5, CeilingSets
<1>7. QED
  BY <1>3, <1>4, <1>6

\* What keeps the bound, for one window: nothing more is let through than was under way or
\* left, unless a fault is counted.
LEMMA CeilingKept ==
  ASSUME TypeOK, NEW w \in Windows, admitted'[w] \in Nat,
         admitted[w] + Cardinality(Under(w)) + Cardinality(Left(w))
           <= Limit * (Cardinality(Replicas) + lost[w]),
         \/ /\ lost'[w] = lost[w]
            /\ admitted'[w] + Cardinality(Under(w)') + Cardinality(Left(w)')
                 <= admitted[w] + Cardinality(Under(w)) + Cardinality(Left(w))
         \/ /\ lost'[w] = lost[w] + 1
            /\ admitted'[w] + Cardinality(Under(w)') + Cardinality(Left(w)')
                 <= admitted[w] + Cardinality(Under(w)) + Cardinality(Left(w)) + Limit
  PROVE  admitted'[w] + Cardinality(Under(w)') + Cardinality(Left(w)')
           <= Limit * (Cardinality(Replicas) + lost'[w])
<1>1. /\ Cardinality(Replicas) \in Nat /\ Limit \in Nat /\ lost[w] \in Nat
      /\ admitted[w] \in Nat /\ Cardinality(Under(w)) \in Nat /\ Cardinality(Left(w)) \in Nat
  BY CeilingSets, BoundAssumption DEF TypeOK
<1>2. Cardinality(Under(w)') \in Nat /\ Cardinality(Left(w)') \in Nat
  BY FinitenessAssumption, CeilingSets, FS_Subset, FS_CardinalityType DEF Under, Left
<1>3. PICK n \in Nat : n = Limit * (Cardinality(Replicas) + lost[w])
  BY <1>1
<1>4. Limit * (Cardinality(Replicas) + (lost[w] + 1)) = n + Limit
  BY <1>1, <1>3
<1>5. QED
  BY <1>1, <1>2, <1>3, <1>4

\* Every action keeps CeilingInv.
LEMMA CeilingStep == CeilingInv /\ [Next]_vars => CeilingInv'
<1>1. SUFFICES ASSUME CeilingInv, [Next]_vars PROVE WithinCeiling'
  BY TimeStep DEF CeilingInv
<1>t. TimeInv /\ TypeOK
  BY <1>1 DEF CeilingInv, TimeInv
<1>u. TypeOK'
  BY <1>1, <1>t, TimeStep DEF TimeInv
<1> SUFFICES ASSUME NEW w \in Windows
             PROVE  admitted'[w] + Cardinality(Under(w)') + Cardinality(Left(w)')
                      <= Limit * (Cardinality(Replicas) + lost'[w])
  BY DEF WithinCeiling
<1>c. admitted[w] + Cardinality(Under(w)) + Cardinality(Left(w))
        <= Limit * (Cardinality(Replicas) + lost[w])
  BY <1>1 DEF CeilingInv, WithinCeiling
<1>n. /\ admitted[w] \in Nat /\ admitted'[w] \in Nat /\ lost[w] \in Nat /\ lost'[w] \in Nat
      /\ Limit \in Nat /\ Cardinality(Under(w)) \in Nat /\ Cardinality(Left(w)) \in Nat
      /\ IsFiniteSet(Under(w)) /\ IsFiniteSet(Left(w))
  BY <1>t, <1>u, CeilingSets, BoundAssumption DEF TypeOK
<1>p. /\ IsFiniteSet(Under(w)') /\ IsFiniteSet(Left(w)')
      /\ Cardinality(Under(w)') \in Nat /\ Cardinality(Left(w)') \in Nat
  BY FinitenessAssumption, CeilingSets, FS_Subset, FS_CardinalityType DEF Under, Left
<1>i. Idle.pc = "idle"
  BY IdleType
<1>k. ASSUME lost'[w] = lost[w], admitted'[w] = admitted[w],
             Under(w)' \subseteq Under(w), Left(w)' \subseteq Left(w)
      PROVE  admitted'[w] + Cardinality(Under(w)') + Cardinality(Left(w)')
               <= Limit * (Cardinality(Replicas) + lost'[w])
  <2>1. Cardinality(Under(w)') <= Cardinality(Under(w))
    BY <1>k, <1>n, <1>p, SetSizes
  <2>2. Cardinality(Left(w)') <= Cardinality(Left(w))
    BY <1>k, <1>n, <1>p, SetSizes
  <2>3. QED
    BY <1>k, <1>n, <1>p, <1>c, <1>t, <2>1, <2>2, CeilingKept
<1>2. ASSUME NEW q \in Requests, NEW r \in Replicas, Hit(q, r)
      PROVE  admitted'[w] + Cardinality(Under(w)') + Cardinality(Left(w)')
               <= Limit * (Cardinality(Replicas) + lost'[w])
  <2>1. lost' = lost /\ clock' = clock /\ ~Calling(q) /\ clock[r] \in Windows
    BY <1>2, <1>t DEF Hit, Ready, Calling, TypeOK
  <2>2. PICK b \in Bucket, c \in Call :
           /\ bucket' = [bucket EXCEPT ![r] = b] /\ call' = [call EXCEPT ![q] = c]
           /\ b.window = clock[r] /\ b.count = Counted(r).count
           /\ \/ c.pc \in {"idle", "refused"} /\ admitted' = admitted
              \/ /\ c.pc = "idle" /\ b.count <= Limit
                 /\ admitted' = [admitted EXCEPT ![clock[r]] = @ + 1]
              \/ /\ c.pc = "reserve" /\ b.count <= Limit /\ c.window = clock[r]
                 /\ admitted' = admitted
    BY <1>2, <1>t, HitCounts
  <2>3. /\ Left(w)' \subseteq Left(w)
        /\ w = clock[r] /\ b.count <= Limit =>
             <<r, b.count>> \in Left(w) /\ Left(w)' \subseteq Left(w) \ {<<r, b.count>>}
    BY <1>t, <2>1, <2>2, HitTakes
  <2>4. /\ Under(w)' \subseteq Under(w) \cup {q}
        /\ ~(c.pc = "reserve" /\ c.window = w) => Under(w)' \subseteq Under(w)
    BY <2>1, <2>2, <1>t DEF Under, Calling, TypeOK
  <2>5. Cardinality(Left(w)') <= Cardinality(Left(w))
    BY <2>3, <1>n, <1>p, SetSizes
  <2>6. w = clock[r] /\ b.count <= Limit => Cardinality(Left(w)') <= Cardinality(Left(w)) - 1
    BY <2>3, <1>n, <1>p, SetSizes
  <2>7. Cardinality(Under(w)') <= Cardinality(Under(w)) + 1
    BY <2>4, <1>n, <1>p, SetSizes
  <2>8. ~(c.pc = "reserve" /\ c.window = w) => Cardinality(Under(w)') <= Cardinality(Under(w))
    BY <2>4, <1>n, <1>p, SetSizes
  <2>9. admitted'[w] + Cardinality(Under(w)') + Cardinality(Left(w)')
          <= admitted[w] + Cardinality(Under(w)) + Cardinality(Left(w))
    <3>1. CASE c.pc \in {"idle", "refused"} /\ admitted' = admitted
      BY <3>1, <2>5, <2>8, <1>n, <1>p
    <3>2. CASE /\ c.pc = "idle" /\ b.count <= Limit
               /\ admitted' = [admitted EXCEPT ![clock[r]] = @ + 1]
      <4>1. admitted'[w] = IF w = clock[r] THEN admitted[w] + 1 ELSE admitted[w]
        BY <3>2, <1>t DEF TypeOK
      <4>2. QED
        BY <3>2, <4>1, <2>5, <2>6, <2>8, <1>n, <1>p
    <3>3. CASE /\ c.pc = "reserve" /\ b.count <= Limit /\ c.window = clock[r]
               /\ admitted' = admitted
      BY <3>3, <2>5, <2>6, <2>7, <2>8, <1>n, <1>p
    <3>4. QED
      BY <2>2, <3>1, <3>2, <3>3
  <2>10. QED
    BY <2>1, <2>9, <1>n, <1>c, <1>t, CeilingKept
<1>3. ASSUME NEW q \in Requests, Return(q)
      PROVE  admitted'[w] + Cardinality(Under(w)') + Cardinality(Left(w)')
               <= Limit * (Cardinality(Replicas) + lost'[w])
  <2>1. PICK r \in Replicas, x \in Windows : r = call[q].at /\ x = call[q].window
    BY <1>3, <1>t DEF Return, TimeInv, CallsAreRecent, Calling
  <2>2. PICK b \in Bucket, c \in Call :
           /\ bucket' = [bucket EXCEPT ![r] = b] /\ call' = [call EXCEPT ![q] = c]
           /\ b.window = bucket[r].window /\ b.count = bucket[r].count
           /\ c.pc \in {"idle", "refused"}
           /\ admitted' = admitted \/ admitted' = [admitted EXCEPT ![x] = @ + 1]
    BY <1>3, <1>t, <2>1, ReturnCounts
  <2>3. lost' = lost /\ clock' = clock /\ Calling(q)
    BY <1>3 DEF Return, Calling
  <2>4. Left(w)' \subseteq Left(w)
    <3>1. \A p \in Replicas : Spent(p, w)' = Spent(p, w)
      BY <2>2, <2>3, <1>t DEF Spent, TypeOK
    <3>2. QED
      BY <3>1 DEF Left
  <2>5. /\ Under(w)' \subseteq Under(w)
        /\ x = w => q \in Under(w) /\ Under(w)' \subseteq Under(w) \ {q}
    BY <2>1, <2>2, <2>3, <1>t DEF Under, Calling, TypeOK
  <2>6. /\ Cardinality(Under(w)') <= Cardinality(Under(w))
        /\ x = w => Cardinality(Under(w)') <= Cardinality(Under(w)) - 1
        /\ Cardinality(Left(w)') <= Cardinality(Left(w))
    BY <2>4, <2>5, <1>n, <1>p, SetSizes
  <2>7. admitted'[w] = admitted[w] \/ (x = w /\ admitted'[w] = admitted[w] + 1)
    BY <2>2, <1>t DEF TypeOK
  <2>8. admitted'[w] + Cardinality(Under(w)') + Cardinality(Left(w)')
          <= admitted[w] + Cardinality(Under(w)) + Cardinality(Left(w))
    BY <2>6, <2>7, <1>n, <1>p
  <2>9. QED
    BY <2>3, <2>8, <1>n, <1>c, <1>t, CeilingKept
<1>4. ASSUME NEW q \in Requests, Reserve(q)
      PROVE  admitted'[w] + Cardinality(Under(w)') + Cardinality(Left(w)')
               <= Limit * (Cardinality(Replicas) + lost'[w])
  <2>1. UNCHANGED <<clock, bucket, admitted, lost>>
    BY <1>4 DEF Reserve
  <2>2. /\ call[q] \in Call /\ call[q].pc = "reserve"
        /\ \A k \in Requests \ {q} : call'[k] = call[k]
        /\ call'[q].window = call[q].window
    BY <1>4, <1>t DEF Reserve, TypeOK, Call
  <2>3. Under(w)' \subseteq Under(w) /\ Left(w)' \subseteq Left(w)
    BY <2>1, <2>2 DEF Under, Calling, Left, Spent
  <2>4. QED
    BY <2>1, <2>3, <1>k
<1>5. ASSUME NEW r \in Replicas, Tick(r) \/ Prune(r)
      PROVE  admitted'[w] + Cardinality(Under(w)') + Cardinality(Left(w)')
               <= Limit * (Cardinality(Replicas) + lost'[w])
  <2>1. UNCHANGED <<bucket, call, admitted, lost>>
    BY <1>5 DEF Tick, Prune
  <2>2. clock' = clock \/ clock' = [clock EXCEPT ![r] = @ + 1]
    BY <1>5 DEF Tick, Prune
  <2>3. ASSUME NEW p \in Replicas
        PROVE  Spent(p, w)' = Spent(p, w) \/ Spent(p, w)' = Limit
    <3>1. clock[p] \in Int /\ w \in Int
      BY <1>t, BoundAssumption DEF TypeOK, Windows
    <3>2. clock'[p] = clock[p] \/ clock'[p] = clock[p] + 1
      BY <2>2, <1>t DEF TypeOK
    <3>3. QED
      BY <2>1, <3>1, <3>2 DEF Spent
  <2>4. Left(w)' \subseteq Left(w)
    <3>1. \A u \in Units : ~(u > Limit)
      BY BudgetAssumption DEF Units
    <3>2. QED
      BY <2>3, <3>1 DEF Left
  <2>5. QED
    BY <2>1, <2>4, <1>k DEF Under, Calling
<1>6. ASSUME NEW r \in Replicas, BackoffEnds(r)
      PROVE  admitted'[w] + Cardinality(Under(w)') + Cardinality(Left(w)')
               <= Limit * (Cardinality(Replicas) + lost'[w])
  <2>1. /\ bucket' = [bucket EXCEPT ![r].backoff = FALSE]
        /\ UNCHANGED <<clock, call, admitted, lost>>
    BY <1>6 DEF BackoffEnds
  <2>2. \A p \in Replicas : Spent(p, w)' = Spent(p, w)
    BY <2>1, <1>t DEF Spent, TypeOK, Bucket
  <2>3. Under(w)' \subseteq Under(w) /\ Left(w)' \subseteq Left(w)
    BY <2>1, <2>2 DEF Under, Calling, Left
  <2>4. QED
    BY <2>1, <2>3, <1>k
<1>7. ASSUME NEW r \in Replicas, Sweep(r) \/ Restart(r)
      PROVE  admitted'[w] + Cardinality(Under(w)') + Cardinality(Left(w)')
               <= Limit * (Cardinality(Replicas) + lost'[w])
  <2>1. /\ bucket' = [bucket EXCEPT ![r] = NoBucket]
        /\ call' = call \/ call' = [q \in Requests |-> IF call[q].at = r THEN Idle ELSE call[q]]
        /\ lost'[w] = IF bucket[r].window = w THEN lost[w] + 1 ELSE lost[w]
        /\ clock' = clock /\ admitted' = admitted
    BY <1>7 DEF Sweep, Restart, Forget
  <2>2. \A p \in Replicas \ {r} : Spent(p, w)' = Spent(p, w)
    BY <2>1, <1>t DEF Spent, TypeOK
  <2>3. Left(w)' \subseteq Left(w) \cup ({r} \X Units)
    BY <2>2 DEF Left
  <2>4. \A q \in Requests : call'[q] = call[q] \/ call'[q].pc = "idle"
    BY <2>1, <1>i
  <2>5. Under(w)' \subseteq Under(w)
    BY <2>4 DEF Under, Calling
  <2>6. Cardinality(Under(w)') <= Cardinality(Under(w))
    BY <2>5, <1>n, <1>p, SetSizes
  <2>7. Cardinality(Left(w)') <= Cardinality(Left(w)) + Limit
    <3>1. IsFiniteSet({r} \X Units) /\ Cardinality({r} \X Units) = Limit
      BY CeilingSets
    <3>2. Cardinality(Left(w)') <= Cardinality(Left(w)) + Cardinality({r} \X Units)
      BY <2>3, <3>1, <1>n, <1>p, SetSizes
    <3>3. QED
      BY <3>1, <3>2
  <2>8. admitted'[w] + Cardinality(Under(w)') + Cardinality(Left(w)')
          <= admitted[w] + Cardinality(Under(w)) + Cardinality(Left(w)) + Limit
    BY <2>1, <2>6, <2>7, <1>n, <1>p
  <2>9. CASE bucket[r].window = w
    BY <2>1, <2>8, <2>9, <1>n, <1>c, <1>t, CeilingKept
  <2>10. CASE bucket[r].window # w
    <3>1. bucket'[r].window = -1 /\ w # -1
      BY <2>1, <1>t, BoundAssumption DEF TypeOK, NoBucket, NewBucket, Windows
    <3>2. Spent(r, w)' = Spent(r, w)
      BY <2>1, <2>10, <3>1 DEF Spent
    <3>3. Left(w)' \subseteq Left(w)
      BY <2>2, <3>2 DEF Left
    <3>4. lost'[w] = lost[w]
      BY <2>1, <2>10
    <3>5. QED
      BY <2>1, <2>5, <3>3, <3>4, <1>k
  <2>11. QED
    BY <2>9, <2>10
<1>8. CASE UNCHANGED vars
  BY <1>8, <1>k DEF vars, Under, Calling, Left, Spent
<1>9. QED
  BY <1>1, <1>2, <1>3, <1>4, <1>5, <1>6, <1>7, <1>8 DEF Next

\* An outage of the store degrades the budget to one per replica and never to none
\* (ReplicaCeiling), however often reservations fail: only a count of the window that a
\* restart or a full map lost lets a replica begin again.  For every number of replicas and
\* requests, every budget and slice.
THEOREM CeilingHolds == Spec => []ReplicaCeiling
<1>1. Init => CeilingInv
  BY CeilingInit
<1>2. CeilingInv /\ [Next]_vars => CeilingInv'
  BY CeilingStep
<1>3. CeilingInv => ReplicaCeiling
  <2>1. SUFFICES ASSUME CeilingInv, NEW w \in Windows
                 PROVE  admitted[w] <= Limit * (Cardinality(Replicas) + lost[w])
    BY DEF ReplicaCeiling
  <2>2. admitted[w] \in Nat /\ Cardinality(Under(w)) \in Nat /\ Cardinality(Left(w)) \in Nat
    BY <2>1, CeilingSets DEF CeilingInv, TimeInv, TypeOK
  <2>3. /\ Limit \in Nat /\ Cardinality(Replicas) \in Nat /\ lost[w] \in Nat
        /\ admitted[w] + Cardinality(Under(w)) + Cardinality(Left(w))
             <= Limit * (Cardinality(Replicas) + lost[w])
    BY <2>1, CeilingSets, BoundAssumption DEF CeilingInv, TimeInv, TypeOK, WithinCeiling
  <2>4. PICK n \in Nat : n = Limit * (Cardinality(Replicas) + lost[w])
    BY <2>3
  <2>5. QED
    BY <2>2, <2>3, <2>4
<1>4. QED
  BY <1>1, <1>2, <1>3, PTL DEF Spec

=============================================================================
