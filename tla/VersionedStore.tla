--------------------------- MODULE VersionedStore ---------------------------
(***************************************************************************)
(* What the store promises about a secret, with every call atomic: a       *)
(* register per identity that keeps the newest of the values written to    *)
(* it, numbered 1, 2, 3, ... for ever.                                     *)
(***************************************************************************)
EXTENDS Naturals

CONSTANTS Ids, Places, Contents, Nowhere

VARIABLES
  status,  \* "absent", "live", "deleted" or "destroyed"
  place,   \* where an identity that exists lives
  head,    \* the number of the newest value ever written
  kept     \* the numbered values still held: a set of <<number, value>>

vars == <<status, place, head, kept>>

Init ==
  /\ status = [i \in Ids |-> "absent"]
  /\ place = [i \in Ids |-> Nowhere]
  /\ head = [i \in Ids |-> 0]
  /\ kept = [i \in Ids |-> {}]

Vacant(p) == \A i \in Ids : status[i] = "live" => place[i] # p

Create(i, p, v) ==
  /\ status[i] = "absent"
  /\ Vacant(p)
  /\ status' = [status EXCEPT ![i] = "live"]
  /\ place' = [place EXCEPT ![i] = p]
  /\ head' = [head EXCEPT ![i] = 1]
  /\ kept' = [kept EXCEPT ![i] = {<<1, v>>}]

\* Forgetting takes the oldest values first and never the newest.
From(values, floor) == {p \in values : p[1] >= floor}

\* A write appends the next number, always with a value that differs from the
\* newest one.
Write(i, v, floor) ==
  /\ status[i] = "live"
  /\ <<head[i], v>> \notin kept[i]
  /\ floor \in 1 .. head[i] + 1
  /\ head' = [head EXCEPT ![i] = @ + 1]
  /\ kept' = [kept EXCEPT ![i] = From(@ \cup {<<head[i] + 1, v>>}, floor)]
  /\ UNCHANGED <<status, place>>

Trim(i, floor) ==
  /\ status[i] = "live"
  /\ floor \in 1 .. head[i]
  /\ kept' = [kept EXCEPT ![i] = From(@, floor)]
  /\ UNCHANGED <<status, place, head>>

Delete(i) ==
  /\ status[i] = "live"
  /\ status' = [status EXCEPT ![i] = "deleted"]
  /\ UNCHANGED <<place, head, kept>>

Restore(i) ==
  /\ status[i] = "deleted"
  /\ Vacant(place[i])
  /\ status' = [status EXCEPT ![i] = "live"]
  /\ UNCHANGED <<place, head, kept>>

Destroy(i) ==
  /\ status[i] = "deleted"
  /\ status' = [status EXCEPT ![i] = "destroyed"]
  /\ place' = [place EXCEPT ![i] = Nowhere]
  /\ head' = [head EXCEPT ![i] = 0]
  /\ kept' = [kept EXCEPT ![i] = {}]

Next ==
  \E i \in Ids :
    \/ \E p \in Places, v \in Contents : Create(i, p, v)
    \/ \E v \in Contents, floor \in 1 .. head[i] + 1 : Write(i, v, floor)
    \/ \E floor \in 1 .. head[i] : Trim(i, floor)
    \/ Delete(i)
    \/ Restore(i)
    \/ Destroy(i)

Spec == Init /\ [][Next]_vars

=============================================================================
