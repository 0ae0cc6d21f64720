----------------------------- MODULE MCRateLimit -----------------------------
(* A small instance of RateLimit: two replicas and two requests of a principal. *)
EXTENDS RateLimit, TLC

Symmetry == Permutations(Replicas) \cup Permutations(Requests)

\* The history of a window that is over for every replica and every call, and a replica's
\* entry for it, make no difference any more, and its row only by being there (to the
\* pruner), unless a refused request still names it.  The properties have seen the rest.
InCall(w) == \E q \in Requests : call[q].pc \in {"reserve", "reply"} /\ call[q].window = w
Open == {w \in Windows : InCall(w) \/ \E r \in Replicas : clock[r] <= w}

View ==
  LET open == Open
      told == {call[q].window : q \in Requests}
  IN
  <<clock, call, faults,
    [w \in Windows |-> IF w \in open \cup told THEN rows[w] ELSE IF rows[w] = 0 THEN 0 ELSE 1],
    [r \in Replicas |-> IF bucket[r].window \in open THEN bucket[r] ELSE NoBucket],
    [w \in open |-> <<metered[w], admitted[w], lost[w]>>]>>
=============================================================================
