-------------------------- MODULE FolderTreeProofs --------------------------
(***************************************************************************)
(* Theorems about FolderTree, for any number of callers, names, secrets    *)
(* and levels: the materialised paths are the paths of the adjacency list; *)
(* the MRN of a live secret is the path of its folder, and its folder is   *)
(* live, but for the secrets in lapsed, which the statements on their      *)
(* folder passed over.                                                     *)
(*                                                                         *)
(* All of them assume Quiet, that one call at a time moves or deletes      *)
(* folders and none creates folders meanwhile: nothing is locked between   *)
(* what a call reads and what it writes, and without it a creation hangs   *)
(* new folders, by the path it read, under one that has moved or gone.     *)
(* Writes into folders that are there, deletions and restores of secrets   *)
(* run at any time.                                                        *)
(*                                                                         *)
(* The inductive invariant has a part for the table, IsTree and Unique, a  *)
(* part for the secrets, Placed, which speaks of deleted ones as well      *)
(* because they may be restored, and a part for the calls, CallsHold: the  *)
(* rows that a call found are still there, at the paths where it found     *)
(* them if it creates, moves or deletes folders, because only a reshaping  *)
(* call takes or moves a row and it has the folders to itself (Alone). The *)
(* first two are said of any table, because one transaction builds the     *)
(* next table in up to three steps: the missing levels, the reparented     *)
(* folder, and the prefix of everything below it.                          *)
(*                                                                         *)
(* Child, Joined and Part are Append, concatenation and SubSeq under names *)
(* whose definition is kept from the provers once their lemmas are proved. *)
(***************************************************************************)
EXTENDS FolderTree, SequenceTheorems, FiniteSetTheorems, TLAPS

\* Rows whose paths have any length.
NameSeq == Seq(Names)

Row == [parent : Nat, name : Names \cup {None}, path : NameSeq, live : BOOLEAN]

\* Live, for any table.
LiveIn(rows) == {f \in DOMAIN rows : rows[f].live}

\* folder_ids, finitely many and without gaps.
Numbered(rows) ==
  /\ IsFiniteSet(DOMAIN rows)
  /\ DOMAIN rows \subseteq 1..Cardinality(DOMAIN rows)

\* PathsFollowParents, for any table.
Linked(rows) ==
  /\ Root \in DOMAIN rows /\ rows[Root].live /\ rows[Root].path = <<>>
  /\ \A f \in LiveIn(rows) \ {Root} :
       /\ rows[f].parent \in LiveIn(rows) /\ rows[f].name \in Names
       /\ rows[f].path = Append(rows[rows[f].parent].path, rows[f].name)

\* A table the service may leave behind.
IsTree(rows) == Numbered(rows) /\ rows \in [DOMAIN rows -> Row] /\ Linked(rows)

-----------------------------------------------------------------------------
(* Paths.                                                                  *)

\* What the library says of sequences, for paths.
LEMMA PathIs ==
  ASSUME NEW s \in NameSeq
  PROVE  Len(s) \in Nat /\ \A i \in 1..Len(s) : s[i] \in Names
BY LenProperties, ElementOfSeq DEF NameSeq

\* The root is a path, the only one without names.
LEMMA EmptyPath ==
  /\ <<>> \in NameSeq /\ Len(<<>>) = 0
  /\ \A s \in NameSeq : s # <<>> => Len(s) \in Nat \ {0}
BY EmptySeq DEF NameSeq

\* A path is its names.
LEMMA SamePath ==
  ASSUME NEW s \in NameSeq, NEW t \in NameSeq, Len(s) = Len(t), \A i \in 1..Len(s) : s[i] = t[i]
  PROVE  s = t
BY SeqEqual DEF NameSeq

Child(s, n) == Append(s, n)

\* A path with a name added.
LEMMA ChildIs ==
  ASSUME NEW s \in NameSeq, NEW n \in Names
  PROVE  /\ Child(s, n) \in NameSeq /\ Len(Child(s, n)) = Len(s) + 1
         /\ Child(s, n)[Len(s) + 1] = n
         /\ \A i \in 1..Len(s) : Child(s, n)[i] = s[i]
BY AppendProperties DEF Child, NameSeq

Joined(s, t) == s \o t

\* Two paths, one after the other.
LEMMA JoinedIs ==
  ASSUME NEW s \in NameSeq, NEW t \in NameSeq
  PROVE  /\ Joined(s, t) \in NameSeq /\ Len(Joined(s, t)) = Len(s) + Len(t)
         /\ \A i \in 1..Len(s) : Joined(s, t)[i] = s[i]
         /\ \A i \in 1..Len(t) : Joined(s, t)[Len(s) + i] = t[i]
<1>1. /\ Joined(s, t) \in NameSeq /\ Len(Joined(s, t)) = Len(s) + Len(t)
      /\ \A i \in 1..Len(s) + Len(t) :
           Joined(s, t)[i] = IF i <= Len(s) THEN s[i] ELSE t[i - Len(s)]
  BY ConcatProperties DEF Joined, NameSeq
<1>2. Len(s) \in Nat /\ Len(t) \in Nat
  BY PathIs
<1>3. ASSUME NEW i \in 1..Len(t)
      PROVE  Joined(s, t)[Len(s) + i] = t[i]
  <2>1. Len(s) + i \in 1..Len(s) + Len(t) /\ ~(Len(s) + i <= Len(s)) /\ Len(s) + i - Len(s) = i
    BY <1>2
  <2> QED
    BY <1>1, <2>1
<1>4. ASSUME NEW i \in 1..Len(s)
      PROVE  Joined(s, t)[i] = s[i]
  <2>1. i \in 1..Len(s) + Len(t) /\ i <= Len(s)
    BY <1>2
  <2> QED
    BY <1>1, <2>1
<1> QED
  BY <1>1, <1>3, <1>4

Part(s, m, n) == SubSeq(s, m, n)

\* The names of s from m to n.
LEMMA PartIs ==
  ASSUME NEW s, NEW m \in Int, NEW n \in Int, \A i \in m..n : s[i] \in Names
  PROVE  /\ Part(s, m, n) \in NameSeq /\ Len(Part(s, m, n)) = IF m <= n THEN n - m + 1 ELSE 0
         /\ \A i \in 1..n - m + 1 : Part(s, m, n)[i] = s[m + i - 1]
BY SubSeqProperties DEF Part, NameSeq

\* The paths of an instance are bounded; the lemmas are about any.
LEMMA PathsAreSeqs == Paths \subseteq NameSeq
BY SeqDef, BoundAssumption DEF Paths, NameSeq

\* AtOrUnder, name by name.
LEMMA Under ==
  ASSUME NEW path \in NameSeq, NEW top \in NameSeq
  PROVE  AtOrUnder(path, top) <=> Len(top) <= Len(path) /\ \A i \in 1..Len(top) : path[i] = top[i]
<1>1. Len(path) \in Nat /\ Len(top) \in Nat
  BY LenProperties DEF NameSeq
<1>2. SubSeq(top, 1, Len(top)) = top
  BY SubSeqFull DEF NameSeq
<1>3. ASSUME Len(top) <= Len(path)
      PROVE  SubSeq(path, 1, Len(top)) = top <=> \A i \in 1..Len(top) : path[i] = top[i]
  <2>1. \A i \in 1..Len(top) : path[i] \in Names
    BY <1>1, <1>3, ElementOfSeq DEF NameSeq
  <2>2. /\ SubSeq(path, 1, Len(top)) \in NameSeq
        /\ Len(SubSeq(path, 1, Len(top))) = Len(top)
        /\ \A i \in 1..Len(top) : SubSeq(path, 1, Len(top))[i] = path[i]
    BY <1>1, <2>1, SubSeqProperties DEF NameSeq
  <2>3. (\A i \in 1..Len(top) : path[i] = top[i]) => SubSeq(path, 1, Len(top)) = top
    BY <2>2, SeqEqual DEF NameSeq
  <2> QED
    BY <2>2, <2>3
<1> QED
  BY <1>2, <1>3 DEF AtOrUnder, IsPrefix

\* A path but the root is the path above it and its last name.
LEMMA FrontOf ==
  ASSUME NEW s \in NameSeq, s # <<>>
  PROVE  /\ Front(s) \in NameSeq /\ Len(Front(s)) = Len(s) - 1
         /\ \A i \in 1..Len(s) - 1 : Front(s)[i] = s[i]
         /\ Last(s) \in Names /\ s = Child(Front(s), Last(s))
         /\ Len(s) \in Nat \ {0}
<1>1. Len(s) \in Nat \ {0}
  BY EmptySeq DEF NameSeq
<1>2. \A i \in 1..Len(s) : s[i] \in Names
  BY ElementOfSeq DEF NameSeq
<1>3. /\ Front(s) \in NameSeq /\ Len(Front(s)) = Len(s) - 1
      /\ \A i \in 1..Len(s) - 1 : Front(s)[i] = s[i]
  <2>1. PICK n \in Nat : n = Len(s) - 1
    BY <1>1
  <2>2. \A i \in 1..n : s[i] \in Names
    BY <1>1, <1>2, <2>1
  <2>3. /\ SubSeq(s, 1, n) \in NameSeq /\ Len(SubSeq(s, 1, n)) = n
        /\ \A i \in 1..n : SubSeq(s, 1, n)[i] = s[i]
    <3>1. /\ SubSeq(s, 1, n) \in Seq(Names)
          /\ Len(SubSeq(s, 1, n)) = IF 1 <= n THEN n - 1 + 1 ELSE 0
          /\ \A i \in 1..n - 1 + 1 : SubSeq(s, 1, n)[i] = s[1 + i - 1]
      BY <2>2, SubSeqProperties, 1 \in Int, n \in Int
    <3> QED
      BY <3>1 DEF NameSeq
  <2> QED
    BY <2>1, <2>3 DEF Front
<1>4. Last(s) \in Names
  BY <1>1, <1>2 DEF Last
<1>5. /\ Append(Front(s), Last(s)) \in NameSeq
      /\ Len(Append(Front(s), Last(s))) = Len(s)
      /\ \A i \in 1..Len(s) : Append(Front(s), Last(s))[i] = s[i]
  <2>1. /\ Append(Front(s), Last(s)) \in NameSeq
        /\ Len(Append(Front(s), Last(s))) = Len(s)
        /\ \A i \in 1..Len(s) - 1 : Append(Front(s), Last(s))[i] = s[i]
        /\ Append(Front(s), Last(s))[Len(s)] = Last(s)
    BY <1>1, <1>3, <1>4, AppendProperties DEF NameSeq
  <2> QED
    BY <1>1, <2>1 DEF Last
<1>6. s = Append(Front(s), Last(s))
  BY <1>5, SeqEqual DEF NameSeq
<1> QED
  BY <1>1, <1>3, <1>4, <1>6 DEF Child

\* A level of a path is the level above it and one name.
LEMMA Levels ==
  ASSUME NEW p \in NameSeq, NEW i \in 1..Len(p)
  PROVE  /\ Part(p, 1, i) \in NameSeq /\ Part(p, 1, i - 1) \in NameSeq
         /\ Len(Part(p, 1, i)) = i /\ p[i] \in Names
         /\ Part(p, 1, i) = Child(Part(p, 1, i - 1), p[i])
         /\ AtOrUnder(p, Part(p, 1, i))
<1>1. Len(p) \in Nat /\ i \in Nat /\ 1 <= i /\ i <= Len(p)
  BY LenProperties DEF NameSeq
<1>2. \A j \in 1..Len(p) : p[j] \in Names
  BY ElementOfSeq DEF NameSeq
<1>3. /\ SubSeq(p, 1, i) \in NameSeq /\ Len(SubSeq(p, 1, i)) = i
      /\ \A j \in 1..i : SubSeq(p, 1, i)[j] = p[j]
  BY <1>1, <1>2, SubSeqProperties DEF NameSeq
<1>4. SubSeq(p, 1, i - 1) \in NameSeq
  <2>1. \A j \in 1..i - 1 : p[j] \in Names
    BY <1>1, <1>2
  <2> QED
    BY <1>1, <2>1, SubSeqProperties DEF NameSeq
<1>5. SubSeq(p, 1, i) = SubSeq(p, 1, i - 1) \o <<p[i]>>
  BY <1>1, SubSeqRecursiveSecond DEF NameSeq
<1>6. SubSeq(p, 1, i) = Append(SubSeq(p, 1, i - 1), p[i])
  BY <1>2, <1>4, <1>5, AppendIsConcat DEF NameSeq
<1>7. AtOrUnder(p, SubSeq(p, 1, i))
  BY <1>1, <1>3, Under
<1> QED
  BY <1>2, <1>3, <1>4, <1>6, <1>7 DEF Part, Child

\* What is below something below r is below r.
LEMMA UnderTrans ==
  ASSUME NEW p \in NameSeq, NEW q \in NameSeq, NEW r \in NameSeq,
         AtOrUnder(p, q), AtOrUnder(q, r)
  PROVE  AtOrUnder(p, r)
<1>1. Len(p) \in Nat /\ Len(q) \in Nat /\ Len(r) \in Nat
  BY PathIs
<1> QED
  BY <1>1, Under

\* Everything is at or under itself and the root; the root is under nothing else.
LEMMA UnderItself ==
  ASSUME NEW p \in NameSeq
  PROVE  AtOrUnder(p, p) /\ AtOrUnder(p, <<>>) /\ (AtOrUnder(<<>>, p) => p = <<>>)
<1>1. Len(p) \in Nat /\ <<>> \in NameSeq /\ Len(<<>>) = 0 /\ (p # <<>> => Len(p) # 0)
  BY EmptyPath, PathIs
<1> QED
  BY <1>1, Under

\* A path at or under another is that one or has its front at or under it.
LEMMA UnderLevel ==
  ASSUME NEW q \in NameSeq, NEW n \in Names, NEW top \in NameSeq
  PROVE  /\ AtOrUnder(Child(q, n), q)
         /\ AtOrUnder(Child(q, n), top) => AtOrUnder(q, top) \/ Child(q, n) = top
         /\ AtOrUnder(q, top) => AtOrUnder(Child(q, n), top)
<1>1. PICK a : a = Child(q, n)
  OBVIOUS
<1>2. a \in NameSeq /\ Len(a) = Len(q) + 1 /\ \A i \in 1..Len(q) : a[i] = q[i]
  BY <1>1, ChildIs
<1>3. Len(q) \in Nat /\ Len(top) \in Nat
  BY PathIs
<1>4. AtOrUnder(a, q)
  BY <1>2, <1>3, Under
<1>5. ASSUME AtOrUnder(a, top)
      PROVE  AtOrUnder(q, top) \/ a = top
  <2>1. Len(top) <= Len(a) /\ \A i \in 1..Len(top) : a[i] = top[i]
    BY <1>2, <1>5, Under
  <2>2. CASE Len(top) <= Len(q)
    BY <1>2, <1>3, <2>1, <2>2, Under
  <2>3. CASE Len(top) = Len(q) + 1
    BY <1>2, <2>1, <2>3, SamePath
  <2> QED
    BY <1>2, <1>3, <2>1, <2>2, <2>3
<1>6. AtOrUnder(q, top) => AtOrUnder(a, top)
  BY <1>2, <1>4, UnderTrans
<1> QED
  BY <1>1, <1>4, <1>5, <1>6

\* Where a move takes a path.
Moved(path, from, to) == Joined(to, Part(path, Len(from) + 1, Len(path)))

\* A moved path, name by name: the new top, then what was below the old one.
LEMMA MovedIs ==
  ASSUME NEW path \in NameSeq, NEW from \in NameSeq, NEW to \in NameSeq, AtOrUnder(path, from)
  PROVE  /\ Moved(path, from, to) \in NameSeq
         /\ Len(Moved(path, from, to)) = Len(to) + (Len(path) - Len(from))
         /\ \A i \in 1..Len(to) : Moved(path, from, to)[i] = to[i]
         /\ \A i \in 1..Len(path) - Len(from) :
              Moved(path, from, to)[Len(to) + i] = path[Len(from) + i]
<1>1. PICK l, m : l = Len(path) /\ m = Len(from)
  OBVIOUS
<1>2. l \in Nat /\ m \in Nat /\ m <= l
  BY <1>1, PathIs, Under
<1>3. \A i \in m + 1..l : path[i] \in Names
  BY <1>1, <1>2, PathIs
<1>4. PICK t : t = Part(path, m + 1, l)
  OBVIOUS
<1>5. t \in NameSeq /\ Len(t) = l - m /\ \A i \in 1..l - m : t[i] = path[m + i]
  <2>1. /\ t \in NameSeq
        /\ Len(t) = IF m + 1 <= l THEN l - (m + 1) + 1 ELSE 0
        /\ \A i \in 1..l - (m + 1) + 1 : t[i] = path[m + 1 + i - 1]
    <3>1. m + 1 \in Int /\ l \in Int
      BY <1>2
    <3> QED
      BY <1>3, <1>4, <3>1, PartIs
  <2>2. Len(t) = l - m
    BY <1>2, <2>1
  <2>3. ASSUME NEW i \in 1..l - m PROVE t[i] = path[m + i]
    <3>1. i \in 1..l - (m + 1) + 1 /\ m + 1 + i - 1 = m + i
      BY <1>2
    <3> QED
      BY <2>1, <3>1
  <2> QED
    BY <2>1, <2>2, <2>3
<1>6. Moved(path, from, to) = Joined(to, t)
  BY <1>1, <1>4 DEF Moved
<1>7. /\ Joined(to, t) \in NameSeq /\ Len(Joined(to, t)) = Len(to) + Len(t)
      /\ \A i \in 1..Len(to) : Joined(to, t)[i] = to[i]
      /\ \A i \in 1..Len(t) : Joined(to, t)[Len(to) + i] = t[i]
  BY <1>5, JoinedIs
<1> QED
  BY <1>1, <1>5, <1>6, <1>7

\* A move takes a level to a level, and all of a subtree under its new top.
LEMMA MovedLevels ==
  ASSUME NEW q \in NameSeq, NEW n \in Names, NEW from \in NameSeq, NEW to \in NameSeq
  PROVE  /\ Moved(from, from, to) = to
         /\ AtOrUnder(q, from) =>
              /\ Moved(q, from, to) \in NameSeq
              /\ AtOrUnder(Moved(q, from, to), to)
              /\ Moved(Child(q, n), from, to) = Child(Moved(q, from, to), n)
<1>1. Len(from) \in Nat /\ Len(to) \in Nat /\ Len(q) \in Nat
  BY PathIs
<1>2. Moved(from, from, to) = to
  <2>1. AtOrUnder(from, from)
    BY UnderItself
  <2>2. PICK x : x = Moved(from, from, to)
    OBVIOUS
  <2>3. x \in NameSeq /\ \A i \in 1..Len(to) : x[i] = to[i]
    <3>1. Moved(from, from, to) \in NameSeq
      BY <2>1, MovedIs
    <3>2. \A i \in 1..Len(to) : Moved(from, from, to)[i] = to[i]
      BY <2>1, MovedIs
    <3> QED
      BY <2>2, <3>1, <3>2
  <2>4. Len(x) = Len(to)
    <3>1. Len(Moved(from, from, to)) = Len(to) + (Len(from) - Len(from))
      BY <2>1, MovedIs
    <3> QED
      BY <1>1, <2>2, <3>1
  <2> QED
    BY <2>2, <2>3, <2>4, SamePath
<1>3. ASSUME AtOrUnder(q, from)
      PROVE  /\ Moved(q, from, to) \in NameSeq
             /\ AtOrUnder(Moved(q, from, to), to)
             /\ Moved(Child(q, n), from, to) = Child(Moved(q, from, to), n)
  <2>1. PICK a : a = Child(q, n)
    OBVIOUS
  <2>2. PICK x : /\ x = Moved(q, from, to)
                 /\ x \in NameSeq /\ Len(x) = Len(to) + (Len(q) - Len(from))
                 /\ \A i \in 1..Len(to) : x[i] = to[i]
                 /\ \A i \in 1..Len(q) - Len(from) : x[Len(to) + i] = q[Len(from) + i]
    <3>1. Moved(q, from, to) \in NameSeq /\ Len(Moved(q, from, to)) = Len(to) + (Len(q) - Len(from))
      BY <1>3, MovedIs
    <3>2. \A i \in 1..Len(to) : Moved(q, from, to)[i] = to[i]
      BY <1>3, MovedIs
    <3>3. \A i \in 1..Len(q) - Len(from) : Moved(q, from, to)[Len(to) + i] = q[Len(from) + i]
      BY <1>3, MovedIs
    <3> QED
      BY <3>1, <3>2, <3>3
  <2>4. PICK z : z = Child(x, n)
    OBVIOUS
  <2>5. PICK d, l : d = Len(q) - Len(from) /\ l = Len(to) + d
    OBVIOUS
  <2>6. d \in Nat /\ l \in Nat
    BY <1>1, <1>3, <2>5, Under
  <2>7. /\ x \in NameSeq /\ Len(x) = l
        /\ \A i \in 1..Len(to) : x[i] = to[i]
        /\ \A i \in 1..d : x[Len(to) + i] = q[Len(from) + i]
    BY <2>2, <2>5
  <2>8. AtOrUnder(x, to)
    <3>1. Len(to) <= Len(x)
      BY <1>1, <2>5, <2>6, <2>7
    <3> QED
      BY <2>7, <3>1, Under
  <2>9. /\ a \in NameSeq /\ Len(a) = Len(q) + 1 /\ a[Len(q) + 1] = n
        /\ \A i \in 1..Len(q) : a[i] = q[i]
    BY <2>1, ChildIs
  <2>10. AtOrUnder(a, from)
    BY <1>3, <2>1, UnderLevel
  <2>11. Len(a) - Len(from) = d + 1
    BY <1>1, <2>5, <2>9
  <2>3. PICK y : /\ y = Moved(a, from, to)
                 /\ y \in NameSeq /\ Len(y) = Len(to) + (Len(a) - Len(from))
                 /\ \A i \in 1..Len(to) : y[i] = to[i]
                 /\ \A i \in 1..Len(a) - Len(from) : y[Len(to) + i] = a[Len(from) + i]
    <3>1. Moved(a, from, to) \in NameSeq /\ Len(Moved(a, from, to)) = Len(to) + (Len(a) - Len(from))
      BY <2>9, <2>10, MovedIs
    <3>2. \A i \in 1..Len(to) : Moved(a, from, to)[i] = to[i]
      BY <2>9, <2>10, MovedIs
    <3>3. \A i \in 1..Len(a) - Len(from) : Moved(a, from, to)[Len(to) + i] = a[Len(from) + i]
      BY <2>9, <2>10, MovedIs
    <3> QED
      BY <3>1, <3>2, <3>3
  <2>12. /\ y \in NameSeq /\ Len(y) = Len(to) + (d + 1)
         /\ \A i \in 1..Len(to) : y[i] = to[i]
         /\ \A i \in 1..d + 1 : y[Len(to) + i] = a[Len(from) + i]
    BY <2>3, <2>11
  <2>13. /\ z \in NameSeq /\ Len(z) = l + 1 /\ z[l + 1] = n
         /\ \A i \in 1..l : z[i] = x[i]
    BY <2>4, <2>7, ChildIs
  <2>14. Len(y) = l + 1
    BY <1>1, <2>5, <2>6, <2>12
  <2>15. ASSUME NEW i \in 1..l + 1 PROVE y[i] = z[i]
    <3>1. CASE i \in 1..Len(to)
      <4>1. i \in 1..l
        BY <1>1, <2>5, <2>6, <3>1
      <4> QED
        BY <2>7, <2>12, <2>13, <3>1, <4>1
    <3>2. CASE i > Len(to) /\ i <= l
      <4>1. PICK j \in 1..d : i = Len(to) + j
        <5>1. i - Len(to) \in 1..d /\ i = Len(to) + (i - Len(to))
          BY <1>1, <2>5, <2>6, <3>2
        <5> QED
          BY <5>1
      <4>2. j \in 1..d + 1 /\ Len(from) + j \in 1..Len(q) /\ i \in 1..l
        BY <1>1, <2>5, <2>6, <3>2, <4>1
      <4>3. y[i] = a[Len(from) + j] /\ z[i] = q[Len(from) + j]
        BY <2>7, <2>12, <2>13, <4>1, <4>2
      <4> QED
        BY <2>9, <4>2, <4>3
    <3>3. CASE i = l + 1
      <4>1. i = Len(to) + (d + 1) /\ d + 1 \in 1..d + 1 /\ Len(from) + (d + 1) = Len(q) + 1
        BY <1>1, <2>5, <2>6, <3>3
      <4> QED
        BY <2>9, <2>12, <2>13, <3>3, <4>1
    <3> QED
      BY <1>1, <2>6, <3>1, <3>2, <3>3
  <2>16. y = z
    BY <2>12, <2>13, <2>14, <2>15, SamePath
  <2> QED
    BY <2>1, <2>2, <2>3, <2>4, <2>7, <2>8, <2>16
<1> QED
  BY <1>2, <1>3

-----------------------------------------------------------------------------
(* ensureFolderPath.                                                       *)

\* Every row that a call found is where it found it.
ChainOk(p, c) ==
  \A i \in 1..Len(p) : c[i] # 0 => c[i] \in Live /\ folders[c[i]].path = Part(p, 1, i)

\* The levels that are missing, up to i; of the whole path; and the rows made for them.
Gaps(c, i) == {j \in 1..i : c[j] = 0}
Missing(p, c) == Gaps(c, Len(p))
NewRows(p, c) == {Node(p, c, i) : i \in Missing(p, c)}

\* The missing levels are finitely many, and one more at each of them.
LEMMA GapsGrow ==
  ASSUME NEW c, NEW n \in Nat
  PROVE  /\ \A i \in 0..n : IsFiniteSet(Gaps(c, i)) /\ Cardinality(Gaps(c, i)) \in Nat
         /\ \A i, k \in 0..n : i <= k => Cardinality(Gaps(c, i)) <= Cardinality(Gaps(c, k))
         /\ \A i, k \in 0..n :
              i < k /\ c[k] = 0 => Cardinality(Gaps(c, i)) < Cardinality(Gaps(c, k))
<1>1. ASSUME NEW i \in 0..n
      PROVE  IsFiniteSet(Gaps(c, i)) /\ Cardinality(Gaps(c, i)) \in Nat
  <2>1. IsFiniteSet(1..i)
    BY FS_Interval, 1 \in Int, i \in Int
  <2>2. Gaps(c, i) \subseteq 1..i
    BY DEF Gaps
  <2> QED
    BY <2>1, <2>2, FS_Subset, FS_CardinalityType
<1>2. ASSUME NEW i \in 0..n, NEW k \in 0..n, i <= k
      PROVE  Cardinality(Gaps(c, i)) <= Cardinality(Gaps(c, k))
  <2>1. Gaps(c, i) \subseteq Gaps(c, k)
    BY <1>2 DEF Gaps
  <2> QED
    BY <1>1, <2>1, FS_Subset
<1>3. ASSUME NEW i \in 0..n, NEW k \in 0..n, i < k, c[k] = 0
      PROVE  Cardinality(Gaps(c, i)) < Cardinality(Gaps(c, k))
  <2>1. PICK A, B : A = Gaps(c, i) /\ B = Gaps(c, k)
    OBVIOUS
  <2>2. k \notin A /\ A \cup {k} \subseteq B
    BY <1>3, <2>1 DEF Gaps
  <2>3. IsFiniteSet(A) /\ IsFiniteSet(B) /\ Cardinality(A) \in Nat /\ Cardinality(B) \in Nat
    BY <1>1, <2>1
  <2>4. IsFiniteSet(A \cup {k}) /\ Cardinality(A \cup {k}) = Cardinality(A) + 1
    BY <2>2, <2>3, FS_AddElement
  <2>5. Cardinality(A \cup {k}) <= Cardinality(B)
    BY <2>2, <2>3, FS_Subset
  <2>6. Cardinality(A) < Cardinality(B)
    BY <2>3, <2>4, <2>5
  <2> QED
    BY <2>1, <2>6
<1> QED
  BY <1>1, <1>2, <1>3

\* The three cases of Node, with its count as a set of this module.
LEMMA NodeIs ==
  ASSUME NEW p, NEW c, NEW i
  PROVE  /\ i = 0 => Node(p, c, i) = Root
         /\ i # 0 /\ c[i] # 0 => Node(p, c, i) = c[i]
         /\ i # 0 /\ c[i] = 0 => Node(p, c, i) = Cardinality(Rows) + Cardinality(Gaps(c, i))
BY DEF Node, Gaps

\* The new rows are numbered on from the rows there are, one for each missing level.
LEMMA NewAreNew ==
  ASSUME Numbered(folders), NEW p \in NameSeq, NEW c
  PROVE  /\ \A i, k \in Missing(p, c) : Node(p, c, i) = Node(p, c, k) => i = k
         /\ NewRows(p, c) \cap Rows = {} /\ NewRows(p, c) \subseteq Nat
         /\ IsFiniteSet(Rows \cup NewRows(p, c))
         /\ Rows \cup NewRows(p, c) \subseteq 1..Cardinality(Rows \cup NewRows(p, c))
<1>1. PICK n, m, G : n = Len(p) /\ m = Cardinality(Rows) /\ G = Missing(p, c)
  OBVIOUS
<1>2. n \in Nat /\ m \in Nat /\ IsFiniteSet(Rows) /\ Rows \subseteq 1..m
  BY <1>1, PathIs, FS_CardinalityType DEF Numbered, Rows
<1>3. G = Gaps(c, n) /\ \A i \in G : i \in 1..n /\ c[i] = 0
  BY <1>1 DEF Missing, Gaps
<1>4. /\ IsFiniteSet(G) /\ Cardinality(G) \in Nat
      /\ \A i \in 0..n :
           Cardinality(Gaps(c, i)) \in Nat /\ Cardinality(Gaps(c, i)) <= Cardinality(G)
      /\ \A i, k \in 0..n : i < k /\ c[k] = 0 => Cardinality(Gaps(c, i)) < Cardinality(Gaps(c, k))
  BY <1>2, <1>3, GapsGrow
<1>5. ASSUME NEW i \in G
      PROVE  /\ Node(p, c, i) = m + Cardinality(Gaps(c, i))
             /\ Cardinality(Gaps(c, i)) \in 1..Cardinality(G)
  <2>1. i \in 1..n /\ c[i] = 0
    BY <1>3
  <2>2. Node(p, c, i) = m + Cardinality(Gaps(c, i))
    BY <1>1, <2>1, NodeIs
  <2>3. Cardinality(Gaps(c, 0)) < Cardinality(Gaps(c, i))
    BY <1>2, <1>4, <2>1
  <2> QED
    BY <1>2, <1>4, <2>1, <2>2, <2>3
<1>6. ASSUME NEW i \in G, NEW k \in G, Node(p, c, i) = Node(p, c, k)
      PROVE  i = k
  <2>1. Cardinality(Gaps(c, i)) = Cardinality(Gaps(c, k))
    BY <1>2, <1>5, <1>6
  <2>2. i \in 0..n /\ k \in 0..n /\ c[i] = 0 /\ c[k] = 0
    BY <1>3
  <2>3. ~(i < k) /\ ~(k < i)
    BY <1>4, <2>1, <2>2
  <2> QED
    BY <2>2, <2>3
<1>7. PICK N : N = NewRows(p, c) /\ N = {Node(p, c, i) : i \in G}
  BY <1>1 DEF NewRows
<1>8. N \cap Rows = {} /\ \A x \in N : x \in Nat /\ x \in 1..m + Cardinality(G)
  <2>1. ASSUME NEW x \in N PROVE x \in m + 1..m + Cardinality(G)
    BY <1>2, <1>4, <1>5, <1>7
  <2> QED
    BY <1>2, <1>4, <2>1
<1>9. IsFiniteSet(N) /\ Cardinality(N) = Cardinality(G)
  <2>1. PICK h : h = [i \in G |-> Node(p, c, i)]
    OBVIOUS
  <2>2. h \in Bijection(G, N)
    BY <1>6, <1>7, <2>1 DEF Bijection, Injection, Surjection, IsInjective
  <2> QED
    BY <1>4, <2>2, FS_Bijection DEF ExistsBijection
<1>10. IsFiniteSet(Rows \cup N) /\ Cardinality(Rows \cup N) = m + Cardinality(G)
  <2>1. Cardinality(Rows \cap N) = 0
    BY <1>8, FS_EmptySet
  <2>2. IsFiniteSet(Rows \cup N)
        /\ Cardinality(Rows \cup N) = Cardinality(Rows) + Cardinality(N) - Cardinality(Rows \cap N)
    BY <1>2, <1>9, FS_Union
  <2> QED
    BY <1>1, <1>2, <1>4, <1>9, <2>1, <2>2
<1>11. Rows \cup N \subseteq 1..m + Cardinality(G)
  <2>1. \A x \in 1..m : x \in 1..m + Cardinality(G)
    BY <1>2, <1>4
  <2> QED
    BY <1>2, <1>8, <2>1
<1> QED
  BY <1>1, <1>6, <1>7, <1>8, <1>10, <1>11

\* The rows of ensureFolderPath: what was there, and one for each missing level.
LEMMA EnsuredRows ==
  ASSUME Numbered(folders), NEW p \in NameSeq, NEW c, NEW R, R = Ensured(p, c)
  PROVE  /\ DOMAIN R = Rows \cup NewRows(p, c)
         /\ \A f \in Rows : R[f] = folders[f]
         /\ \A i \in Missing(p, c) :
              R[Node(p, c, i)] = [parent |-> Node(p, c, i - 1), name |-> p[i],
                                  path |-> Part(p, 1, i), live |-> TRUE]
<1>1. PICK G, N : /\ G = Missing(p, c) /\ N = NewRows(p, c)
                  /\ G = {i \in 1..Len(p) : c[i] = 0} /\ N = {Node(p, c, i) : i \in G}
  BY DEF Missing, Gaps, NewRows
<1>2. R = [f \in Rows \cup N |->
             IF f \in Rows THEN folders[f]
             ELSE LET i == CHOOSE i \in G : Node(p, c, i) = f
                  IN  [parent |-> Node(p, c, i - 1), name |-> p[i],
                       path |-> Part(p, 1, i), live |-> TRUE]]
  BY <1>1 DEF Ensured, Part
<1>3. N \cap Rows = {} /\ \A i, k \in G : Node(p, c, i) = Node(p, c, k) => i = k
  BY <1>1, NewAreNew
<1>4. ASSUME NEW i \in G
      PROVE  R[Node(p, c, i)] = [parent |-> Node(p, c, i - 1), name |-> p[i],
                                 path |-> Part(p, 1, i), live |-> TRUE]
  <2>1. PICK f, k : f = Node(p, c, i) /\ k = CHOOSE j \in G : Node(p, c, j) = f
    OBVIOUS
  <2>2. k = i
    BY <1>3, <2>1
  <2>3. f \in N
    BY <1>1, <2>1
  <2>4. f \notin Rows
    BY <1>3, <2>3
  <2>5. R[f] = [parent |-> Node(p, c, k - 1), name |-> p[k], path |-> Part(p, 1, k), live |-> TRUE]
    BY <1>2, <2>1, <2>3, <2>4
  <2> QED
    BY <2>1, <2>2, <2>5
<1>5. DOMAIN R = Rows \cup N
  BY <1>2
<1>6. \A f \in Rows : R[f] = folders[f]
  BY <1>2
<1> QED
  BY <1>1, <1>4, <1>5, <1>6

\* What ensureFolderPath leaves: a tree with every row that was there, and the path in it.
LEMMA EnsuredTree ==
  ASSUME IsTree(folders), NEW p \in NameSeq, NEW c, ChainOk(p, c),
         NEW R, R = Ensured(p, c)
  PROVE  /\ IsTree(R)
         /\ Rows \subseteq DOMAIN R /\ \A f \in Rows : R[f] = folders[f]
         /\ Leaf(p, c) \in LiveIn(R) /\ R[Leaf(p, c)].path = p
         /\ \A f \in DOMAIN R \ Rows : AtOrUnder(p, R[f].path)
<1>1. PICK N, G : N = NewRows(p, c) /\ G = Missing(p, c)
  OBVIOUS
<1>2. /\ DOMAIN R = Rows \cup N
      /\ \A f \in Rows : R[f] = folders[f]
      /\ \A i \in G : R[Node(p, c, i)] = [parent |-> Node(p, c, i - 1), name |-> p[i],
                                         path |-> Part(p, 1, i), live |-> TRUE]
  BY <1>1, EnsuredRows DEF IsTree
<1>3. /\ N \cap Rows = {} /\ N \subseteq Nat
      /\ \A f \in N : \E i \in G : f = Node(p, c, i)
      /\ \A i \in G : Node(p, c, i) \in N
      /\ IsFiniteSet(Rows \cup N) /\ Rows \cup N \subseteq 1..Cardinality(Rows \cup N)
  <2>1. Numbered(folders)
    BY DEF IsTree
  <2>2. /\ N \cap Rows = {} /\ N \subseteq Nat
        /\ IsFiniteSet(Rows \cup N) /\ Rows \cup N \subseteq 1..Cardinality(Rows \cup N)
    BY <1>1, <2>1, NewAreNew
  <2>3. N = {Node(p, c, i) : i \in G}
    BY <1>1 DEF NewRows
  <2> QED
    BY <2>2, <2>3
<1>4. \A i \in G : i \in 1..Len(p) /\ c[i] = 0
  BY <1>1 DEF Missing, Gaps
<1>5. Len(p) \in Nat
  BY PathIs
<1>6. ASSUME NEW i \in 0..Len(p)
      PROVE  Node(p, c, i) \in LiveIn(R) /\ R[Node(p, c, i)].path = Part(p, 1, i)
  <2>1. CASE i = 0
    <3>1. Node(p, c, i) = Root
      BY <2>1, NodeIs
    <3>2. Part(p, 1, i) = <<>>
      BY <2>1, SubSeqEmpty DEF Part
    <3>3. Root \in Rows /\ folders[Root].live /\ folders[Root].path = <<>>
      BY DEF IsTree, Linked, Rows
    <3> QED
      BY <1>2, <3>1, <3>2, <3>3 DEF LiveIn
  <2>2. CASE i # 0 /\ c[i] # 0
    <3>1. i \in 1..Len(p)
      BY <1>5, <2>2
    <3>2. Node(p, c, i) = c[i]
      BY <2>2, NodeIs
    <3>3. c[i] \in Live /\ folders[c[i]].path = Part(p, 1, i)
      BY <2>2, <3>1 DEF ChainOk
    <3> QED
      BY <1>2, <3>2, <3>3 DEF LiveIn, Live
  <2>3. CASE i # 0 /\ c[i] = 0
    <3>1. i \in G
      BY <1>1, <1>5, <2>3 DEF Missing, Gaps
    <3>2. PICK f, x : f = Node(p, c, i) /\ x = [parent |-> Node(p, c, i - 1), name |-> p[i],
                                              path |-> Part(p, 1, i), live |-> TRUE]
      OBVIOUS
    <3>3. f \in DOMAIN R /\ R[f] = x /\ x.live = TRUE /\ x.path = Part(p, 1, i)
      BY <1>2, <1>3, <3>1, <3>2
    <3>4. R[f].live /\ R[f].path = Part(p, 1, i)
      BY <3>3
    <3> QED
      BY <3>2, <3>3, <3>4 DEF LiveIn
  <2> QED
    BY <2>1, <2>2, <2>3
<1>7. Leaf(p, c) \in LiveIn(R) /\ R[Leaf(p, c)].path = p
  <2>1. Len(p) \in 0..Len(p) /\ Part(p, 1, Len(p)) = p
    BY <1>5, SubSeqFull DEF Part, NameSeq
  <2> QED
    BY <1>6, <2>1 DEF Leaf
<1>8. ASSUME NEW f \in N
      PROVE  /\ R[f] \in Row /\ f # Root
             /\ R[f].parent \in LiveIn(R) /\ R[f].name \in Names
             /\ R[f].path = Append(R[R[f].parent].path, R[f].name)
             /\ AtOrUnder(p, R[f].path)
  <2>1. PICK i \in G : f = Node(p, c, i)
    BY <1>3
  <2>2. /\ R[f] = [parent |-> Node(p, c, i - 1), name |-> p[i], path |-> Part(p, 1, i),
                   live |-> TRUE]
    BY <1>2, <2>1
  <2>3. i \in 1..Len(p) /\ i - 1 \in 0..Len(p)
    BY <1>4, <1>5
  <2>4. /\ Part(p, 1, i) \in NameSeq /\ p[i] \in Names
        /\ Part(p, 1, i) = Child(Part(p, 1, i - 1), p[i])
        /\ AtOrUnder(p, Part(p, 1, i))
    BY <2>3, Levels
  <2>5. Node(p, c, i - 1) \in LiveIn(R) /\ R[Node(p, c, i - 1)].path = Part(p, 1, i - 1)
    BY <1>6, <2>3
  <2>6. Node(p, c, i - 1) \in Nat
    BY <1>2, <1>3, <2>5 DEF LiveIn, IsTree, Numbered, Rows
  <2>7. R[f] \in Row
    BY <2>2, <2>4, <2>6 DEF Row
  <2>8. f # Root
    BY <1>3 DEF IsTree, Linked, Rows
  <2> QED
    BY <2>2, <2>4, <2>5, <2>7, <2>8 DEF Child
<1>9. R \in [DOMAIN R -> Row]
  <2>1. R = [f \in DOMAIN R |-> R[f]]
    BY DEF Ensured
  <2>2. \A f \in Rows : R[f] \in Row
    BY <1>2 DEF IsTree, Rows
  <2> QED
    BY <1>2, <1>8, <2>1, <2>2
<1>10. Linked(R)
  <2>1. Root \in DOMAIN R /\ R[Root].live /\ R[Root].path = <<>>
    BY <1>2 DEF IsTree, Linked, Rows
  <2>2. ASSUME NEW f \in LiveIn(R) \ {Root}, f \in Rows
        PROVE  /\ R[f].parent \in LiveIn(R) /\ R[f].name \in Names
               /\ R[f].path = Append(R[R[f].parent].path, R[f].name)
    <3>1. f \in LiveIn(folders) \ {Root}
      BY <1>2, <2>2 DEF LiveIn, Rows
    <3>2. /\ folders[f].parent \in LiveIn(folders) /\ folders[f].name \in Names
          /\ folders[f].path = Append(folders[folders[f].parent].path, folders[f].name)
      BY <3>1 DEF IsTree, Linked
    <3>3. folders[f].parent \in Rows
      BY <3>2 DEF LiveIn, Rows
    <3> QED
      BY <1>2, <2>2, <3>2, <3>3 DEF LiveIn
  <2>3. \A f \in LiveIn(R) \ {Root} : f \in Rows \/ f \in N
    BY <1>2 DEF LiveIn
  <2> QED
    BY <1>8, <2>1, <2>2, <2>3 DEF Linked
<1>11. Numbered(R)
  BY <1>2, <1>3 DEF Numbered
<1> QED
  BY <1>2, <1>7, <1>8, <1>9, <1>10, <1>11 DEF IsTree

-----------------------------------------------------------------------------
(* MoveFolder.                                                             *)

\* The row that ReparentFolder writes.
Reseated(rows, f, g, to) ==
  [rows EXCEPT ![f].parent = g, ![f].name = Last(to), ![f].path = to]

\* A tree in which one folder and everything under it was moved is a tree.
LEMMA MovedTree ==
  ASSUME NEW E, IsTree(E), NEW from \in NameSeq, NEW to \in NameSeq, Movable(from, to),
         NEW node \in LiveIn(E), E[node].path = from,
         NEW g \in LiveIn(E), E[g].path = Front(to),
         \A f \in LiveIn(E) : E[f].path = from => f = node,
         NEW R, R = Rebased(Reseated(E, node, g, to), from, to)
  PROVE  /\ IsTree(R) /\ DOMAIN R = DOMAIN E /\ LiveIn(R) = LiveIn(E)
         /\ \A f \in LiveIn(R) : AtOrUnder(R[f].path, to) \/ R[f].path = E[f].path
<1>1. PICK P : P = Reseated(E, node, g, to)
  OBVIOUS
<1>2. from # <<>> /\ to # <<>> /\ ~AtOrUnder(to, from)
  BY DEF Movable
<1>3. PICK up, n : up = Front(to) /\ n = Last(to)
  OBVIOUS
<1>4. up \in NameSeq /\ n \in Names /\ to = Child(up, n)
  BY <1>2, <1>3, FrontOf
<1>5. /\ E \in [DOMAIN E -> Row] /\ Numbered(E) /\ Linked(E)
      /\ LiveIn(E) \subseteq DOMAIN E /\ LiveIn(E) \subseteq Nat
  BY DEF IsTree, Numbered, LiveIn
<1>6. /\ DOMAIN P = DOMAIN E
      /\ P[node] = [parent |-> g, name |-> n, path |-> to, live |-> E[node].live]
      /\ \A f \in DOMAIN E : f # node => P[f] = E[f]
  <2>1. node \in DOMAIN E /\ E[node] \in Row
    BY <1>5
  <2>2. P[node] = [[[E[node] EXCEPT !.parent = g] EXCEPT !.name = n] EXCEPT !.path = to]
    BY <1>1, <1>3, <1>5, <2>1 DEF Reseated
  <2>3. P[node] = [parent |-> g, name |-> n, path |-> to, live |-> E[node].live]
    BY <2>1, <2>2 DEF Row
  <2> QED
    BY <1>1, <1>5, <2>1, <2>3 DEF Reseated
<1>7. R = [f \in DOMAIN E |->
             IF P[f].live /\ AtOrUnder(P[f].path, from)
             THEN [P[f] EXCEPT !.path = Moved(P[f].path, from, to)] ELSE P[f]]
  BY <1>1, <1>6 DEF Rebased, Moved, Joined, Part
<1>8. R[node] = P[node] /\ E[node].live
  <2>1. node \in DOMAIN E /\ P[node].path = to /\ E[node].live
    BY <1>6 DEF LiveIn
  <2> QED
    BY <1>2, <1>7, <2>1
<1>9. ASSUME NEW f \in DOMAIN E, f # node
      PROVE  R[f] = IF E[f].live /\ AtOrUnder(E[f].path, from)
                    THEN [E[f] EXCEPT !.path = Moved(E[f].path, from, to)] ELSE E[f]
  BY <1>6, <1>7, <1>9
<1>10. \A f \in DOMAIN E : E[f].path \in NameSeq
  BY <1>5 DEF Row
<1>11. ASSUME NEW f \in DOMAIN E
       PROVE  /\ R[f] \in Row /\ R[f].live = E[f].live
              /\ R[f].live => AtOrUnder(R[f].path, to) \/ R[f].path = E[f].path
              /\ f # node => /\ R[f].parent = E[f].parent /\ R[f].name = E[f].name
                             /\ E[f].live /\ AtOrUnder(E[f].path, from) =>
                                  R[f].path = Moved(E[f].path, from, to)
                             /\ ~(E[f].live /\ AtOrUnder(E[f].path, from)) =>
                                  R[f].path = E[f].path
  <2>1. CASE f = node
    <3>1. R[f] = [parent |-> g, name |-> n, path |-> to, live |-> E[node].live]
      BY <1>6, <1>8, <2>1
    <3>2. E[node].live \in BOOLEAN /\ g \in Nat /\ n \in Names \cup {None}
      BY <1>4, <1>5 DEF Row
    <3>3. R[f] \in Row
      BY <1>4, <3>1, <3>2 DEF Row
    <3>4. R[f].path = to /\ R[f].live = E[f].live /\ AtOrUnder(to, to)
      BY <2>1, <3>1, UnderItself
    <3> QED
      BY <2>1, <3>3, <3>4
  <2>2. CASE f # node /\ E[f].live /\ AtOrUnder(E[f].path, from)
    <3>1. PICK q : q = Moved(E[f].path, from, to)
      OBVIOUS
    <3>2. q \in NameSeq /\ AtOrUnder(q, to)
      BY <1>4, <1>10, <2>2, <3>1, MovedLevels
    <3>3. R[f] = [E[f] EXCEPT !.path = q] /\ E[f] \in Row
      BY <1>5, <1>9, <2>2, <3>1
    <3>4. R[f] = [parent |-> E[f].parent, name |-> E[f].name, path |-> q, live |-> E[f].live]
      BY <3>3 DEF Row
    <3>5. R[f] \in Row
      BY <3>2, <3>3, <3>4 DEF Row
    <3>6. /\ R[f].live = E[f].live /\ R[f].parent = E[f].parent /\ R[f].name = E[f].name
          /\ R[f].path = q
      BY <3>4
    <3> QED
      BY <2>2, <3>1, <3>2, <3>5, <3>6
  <2>3. CASE f # node /\ ~(E[f].live /\ AtOrUnder(E[f].path, from))
    <3>1. R[f] = E[f]
      BY <1>9, <2>3
    <3> QED
      BY <1>5, <2>3, <3>1
  <2> QED
    BY <2>1, <2>2, <2>3
<1>12. DOMAIN R = DOMAIN E /\ LiveIn(R) = LiveIn(E)
  BY <1>7, <1>11 DEF LiveIn
<1>13. ~AtOrUnder(up, from)
  BY <1>2, <1>4, UnderLevel
<1>14. g # node /\ R[g].path = up
  <2>1. g # node
    BY <1>3, <1>4, <1>13, UnderItself
  <2> QED
    BY <1>3, <1>5, <1>11, <1>13, <2>1
<1>15. ASSUME NEW f \in LiveIn(R) \ {Root}
       PROVE  /\ R[f].parent \in LiveIn(R) /\ R[f].name \in Names
              /\ R[f].path = Append(R[R[f].parent].path, R[f].name)
  <2>1. CASE f = node
    <3>1. R[f].parent = g /\ R[f].name = n /\ R[f].path = to
      BY <1>6, <1>8, <2>1
    <3> QED
      BY <1>4, <1>12, <1>14, <3>1 DEF Child
  <2>2. CASE f # node
    <3>1. PICK q, m : q = E[f].parent /\ m = E[f].name
      OBVIOUS
    <3>2. f \in LiveIn(E) \ {Root} /\ f \in DOMAIN E
      BY <1>5, <1>12
    <3>3. q \in LiveIn(E) /\ m \in Names /\ E[f].path = Append(E[q].path, m)
      BY <1>5, <3>1, <3>2 DEF Linked
    <3>4. R[f].parent = q /\ R[f].name = m
      BY <1>11, <2>2, <3>1, <3>2
    <3>5. E[q].path \in NameSeq /\ E[f].path \in NameSeq
      BY <1>5, <1>10, <3>2, <3>3
    <3>7. E[f].path = Child(E[q].path, m)
      BY <3>3 DEF Child
    <3>8. E[f].live /\ E[q].live
      BY <3>2, <3>3 DEF LiveIn
    <3>9. CASE q = node
      <4>1. AtOrUnder(E[f].path, from)
        BY <3>3, <3>5, <3>7, <3>9, UnderLevel
      <4>2. R[f].path = Moved(Child(from, m), from, to)
        BY <1>11, <2>2, <3>2, <3>7, <3>8, <3>9, <4>1
      <4>3. Moved(Child(from, m), from, to) = Child(to, m)
        <5>1. AtOrUnder(from, from)
          BY UnderItself
        <5> QED
          BY <3>3, <5>1, MovedLevels
      <4>4. R[q].path = to
        BY <1>6, <1>8, <3>9
      <4> QED
        BY <1>12, <3>3, <3>4, <4>2, <4>3, <4>4 DEF Child
    <3>10. CASE q # node /\ AtOrUnder(E[q].path, from)
      <4>1. AtOrUnder(E[f].path, from)
        BY <3>3, <3>5, <3>7, <3>10, UnderLevel
      <4>2. /\ R[f].path = Moved(Child(E[q].path, m), from, to)
            /\ R[q].path = Moved(E[q].path, from, to)
        <5>1. R[f].path = Moved(E[f].path, from, to)
          BY <1>11, <2>2, <3>2, <3>8, <4>1
        <5>2. q \in DOMAIN E
          BY <1>5, <3>3
        <5>3. R[q].path = Moved(E[q].path, from, to)
          BY <1>11, <3>8, <3>10, <5>2
        <5> QED
          BY <3>7, <5>1, <5>3
      <4>3. Moved(Child(E[q].path, m), from, to) = Child(Moved(E[q].path, from, to), m)
        BY <3>3, <3>5, <3>10, MovedLevels
      <4> QED
        BY <1>12, <3>3, <3>4, <4>2, <4>3 DEF Child
    <3>11. CASE q # node /\ ~AtOrUnder(E[q].path, from)
      <4>1. ~AtOrUnder(E[f].path, from)
        <5>1. ~AtOrUnder(E[f].path, from) \/ E[f].path = from
          BY <3>3, <3>5, <3>7, <3>11, UnderLevel
        <5> QED
          BY <2>2, <3>2, <5>1
      <4>2. R[f].path = E[f].path /\ R[q].path = E[q].path
        <5>1. R[f].path = E[f].path
          BY <1>11, <2>2, <3>2, <4>1
        <5>2. q \in DOMAIN E
          BY <1>5, <3>3
        <5>3. R[q].path = E[q].path
          BY <1>11, <3>11, <5>2
        <5> QED
          BY <5>1, <5>3
      <4> QED
        BY <1>12, <3>3, <3>4, <4>2
    <3> QED
      BY <3>9, <3>10, <3>11
  <2> QED
    BY <2>1, <2>2
<1>16. Root \in DOMAIN R /\ R[Root].live /\ R[Root].path = <<>>
  <2>1. Root \in DOMAIN E /\ E[Root].live /\ E[Root].path = <<>>
    BY <1>5 DEF Linked
  <2>2. Root # node /\ ~AtOrUnder(<<>>, from)
    BY <1>2, <2>1, UnderItself
  <2> QED
    BY <1>11, <1>12, <2>1, <2>2
<1>17. R \in [DOMAIN R -> Row]
  BY <1>7, <1>11, <1>12
<1>18. Linked(R)
  BY <1>15, <1>16 DEF Linked
<1>19. Numbered(R)
  BY <1>5, <1>12 DEF Numbered
<1>20. \A f \in LiveIn(R) : AtOrUnder(R[f].path, to) \/ R[f].path = E[f].path
  BY <1>11, <1>12 DEF LiveIn
<1> QED
  BY <1>12, <1>17, <1>18, <1>19, <1>20 DEF IsTree

\* A tree from which a subtree was taken is a tree.
LEMMA PrunedTree ==
  ASSUME IsTree(folders), NEW p \in NameSeq, p # <<>>, NEW R,
         R = [f \in Rows |-> [folders[f] EXCEPT !.live = @ /\ ~AtOrUnder(folders[f].path, p)]]
  PROVE  /\ IsTree(R) /\ DOMAIN R = Rows
         /\ \A f \in Rows : R[f].path = folders[f].path
         /\ LiveIn(R) = {f \in Live : ~AtOrUnder(folders[f].path, p)}
<1>1. folders \in [Rows -> Row] /\ Linked(folders) /\ Numbered(folders)
  BY DEF IsTree, Rows
<1>2. ASSUME NEW f \in Rows
      PROVE  /\ R[f] \in Row /\ R[f].path = folders[f].path /\ R[f].name = folders[f].name
             /\ R[f].parent = folders[f].parent
             /\ R[f].live = (folders[f].live /\ ~AtOrUnder(folders[f].path, p))
  <2>1. PICK b \in BOOLEAN : b = (folders[f].live /\ ~AtOrUnder(folders[f].path, p))
    OBVIOUS
  <2>2. folders[f] \in Row
    BY <1>1
  <2>3. R[f] = [folders[f] EXCEPT !.live = b]
    BY <2>1
  <2>4. R[f] = [parent |-> folders[f].parent, name |-> folders[f].name,
                path |-> folders[f].path, live |-> b]
    BY <2>2, <2>3 DEF Row
  <2>5. R[f] \in Row
    BY <2>2, <2>4 DEF Row
  <2> QED
    BY <2>1, <2>4, <2>5
<1>3. DOMAIN R = Rows
  OBVIOUS
<1>4. LiveIn(R) = {f \in Live : ~AtOrUnder(folders[f].path, p)}
  BY <1>2, <1>3 DEF LiveIn, Live
<1>5. ASSUME NEW f \in LiveIn(R) \ {Root}
      PROVE  /\ R[f].parent \in LiveIn(R) /\ R[f].name \in Names
             /\ R[f].path = Append(R[R[f].parent].path, R[f].name)
  <2>1. f \in LiveIn(folders) \ {Root} /\ f \in Rows /\ ~AtOrUnder(folders[f].path, p)
    BY <1>4 DEF LiveIn, Live, Rows
  <2>2. PICK q, n : q = folders[f].parent /\ n = folders[f].name
    OBVIOUS
  <2>3. q \in LiveIn(folders) /\ n \in Names /\ folders[f].path = Append(folders[q].path, n)
    BY <1>1, <2>1, <2>2 DEF Linked
  <2>4. q \in Rows /\ folders[q].path \in NameSeq /\ folders[q].live
    BY <1>1, <2>3 DEF LiveIn, Rows, Row
  <2>5. ~AtOrUnder(folders[q].path, p)
    BY <2>1, <2>3, <2>4, UnderLevel DEF Child
  <2>6. q \in LiveIn(R)
    BY <1>4, <2>4, <2>5 DEF Live
  <2>7. R[f].parent = q /\ R[f].name = n /\ R[f].path = folders[f].path
    BY <1>2, <2>1, <2>2
  <2>8. R[q].path = folders[q].path
    BY <1>2, <2>4
  <2> QED
    BY <2>3, <2>6, <2>7, <2>8
<1>6. Root \in DOMAIN R /\ R[Root].live /\ R[Root].path = <<>>
  <2>1. ~AtOrUnder(<<>>, p)
    BY UnderItself
  <2> QED
    BY <1>1, <1>2, <1>3, <2>1 DEF Linked, Rows
<1>7. R \in [DOMAIN R -> Row]
  BY <1>2, <1>3
<1>8. Numbered(R)
  BY <1>1, <1>3 DEF Numbered, Rows
<1> QED
  BY <1>2, <1>3, <1>4, <1>5, <1>6, <1>7, <1>8 DEF IsTree, Linked

-----------------------------------------------------------------------------
(* The inductive invariant.                                                *)

\* Secrets and calls whose paths have any length.
SecretRow == [status : {"absent", "live", "deleted"}, folder : Nat,
              key : Keys \cup {None}, mrn : NameSeq]

Call == [pc : {"idle", "create", "put", "move", "delete", "remove"}, path : NameSeq,
         to : NameSeq, chain : Seq(Nat), key : Keys \cup {None}, secret : Secrets \cup {None}]

\* uq_folders_environment_path.
Unique(rows) == \A f, g \in LiveIn(rows) : rows[f].path = rows[g].path => f = g

\* A secret has a folder, and one that no statement passed over is in a live folder and has
\* its path; so it has when it is deleted, for a restore to rely on.
Placed(rows, t, l) ==
  \A s \in Secrets :
    t[s].status # "absent" =>
      /\ t[s].folder \in DOMAIN rows
      /\ s \notin l => t[s].folder \in LiveIn(rows) /\ t[s].mrn = rows[t[s].folder].path

\* Every row that a call found is there, wherever.
Known(p, c) == \A i \in 1..Len(p) : c[i] # 0 => c[i] \in Rows

\* What a call found still holds as far as it relies on it.
CallHolds(x) ==
  /\ x.pc \in {"create", "put"} => DOMAIN x.chain = 1..Len(x.path) /\ Known(x.path, x.chain)
  /\ Creates(x) => ChainOk(x.path, x.chain)
  /\ x.pc = "move" => /\ Movable(x.path, x.to)
                      /\ ChainOk(Front(x.to), Front(x.chain))
                      /\ Last(x.chain) \in Live /\ folders[Last(x.chain)].path = x.path
  /\ x.pc = "delete" => x.path # <<>>
  /\ x.pc = "remove" => x.secret \in Secrets

\* The same of every call.
CallsHold == \A w \in Writers : CallHolds(work[w])

\* A call that moves or deletes folders is the only one, and nothing creates folders.
Alone == \A v, w \in Writers : v # w => ~Collide(work[v], work[w])

\* The inductive invariant.
TreeInv ==
  /\ IsTree(folders) /\ Unique(folders)
  /\ secrets \in [Secrets -> SecretRow] /\ Placed(folders, secrets, lapsed)
  /\ work \in [Writers -> Call] /\ CallsHold /\ Alone

\* A call that is not under way relies on nothing.
LEMMA IdleHolds == Idle \in Call /\ Idle.pc = "idle" /\ CallHolds(Idle)
<1>1. <<>> \in NameSeq /\ <<>> \in Seq(Nat)
  BY EmptySeq DEF NameSeq
<1> QED
  BY <1>1 DEF Idle, Call, CallHolds, Creates

\* What uq_folders_environment_path lets through.
LEMMA AllowedUnique ==
  ASSUME NEW R, Allowed(R) PROVE Unique(R)
BY DEF Allowed, Unique, LiveIn

\* A call that only found things.
LEMMA Begun ==
  ASSUME TreeInv, Quiet, NEW w \in Writers, NEW x \in Call, Begin(w, x), CallHolds(x)
  PROVE  TreeInv'
<1>1. /\ folders' = folders /\ secrets' = secrets /\ lapsed' = lapsed
      /\ work \in [Writers -> Call] /\ work' = [work EXCEPT ![w] = x]
  BY DEF Begin, TreeInv
<1>2. work' \in [Writers -> Call] /\ work'[w] = x /\ \A v \in Writers : v # w => work'[v] = work[v]
  BY <1>1
<1>3. CallsHold'
  <2> SUFFICES ASSUME NEW v \in Writers PROVE CallHolds(work[v])'
    BY DEF CallsHold
  <2>1. PICK y : y = work'[v] /\ CallHolds(y)
    BY <1>2 DEF TreeInv, CallsHold
  <2> QED
    BY <1>1, <2>1 DEF CallHolds, ChainOk, Known, Creates, Live, Rows
<1>4. Alone'
  <2>1. \A v \in Writers : ~Collide(x, work[v]) /\ ~Collide(work[v], x)
    BY DEF Begin
  <2> SUFFICES ASSUME NEW v \in Writers, NEW u \in Writers, v # u
               PROVE  ~Collide(work'[v], work'[u])
    BY DEF Alone, Collide, Reshapes, Creates
  <2>2. v = w \/ u = w \/ ~Collide(work[v], work[u])
    BY DEF TreeInv, Alone
  <2> QED
    BY <1>2, <2>1, <2>2
<1> QED
  BY <1>1, <1>2, <1>3, <1>4 DEF TreeInv

\* A folder that a call found and that stays where it is, is still what the call found.
LEMMA Kept ==
  ASSUME NEW x \in Call, CallHolds(x), Rows \subseteq Rows',
         \A f \in Live : f \in Live' /\ folders'[f].path = folders[f].path
  PROVE  CallHolds(x)'
<1>1. \A f : f \in Live => f \in Live' /\ folders'[f].path = folders[f].path
  OBVIOUS
<1>2. ASSUME NEW p, NEW c, ChainOk(p, c)
      PROVE  ChainOk(p, c)'
  BY <1>1, <1>2 DEF ChainOk
<1>3. ASSUME NEW p, NEW c, Known(p, c)
      PROVE  Known(p, c)'
  BY <1>3 DEF Known
<1> QED
  BY <1>1, <1>2, <1>3 DEF CallHolds, Creates

\* A call that ends is in nobody's way.
LEMMA AloneStill ==
  ASSUME TreeInv, NEW w \in Writers, Finish(w)
  PROVE  Alone'
<1>1. /\ work \in [Writers -> Call] /\ work' = [work EXCEPT ![w] = Idle]
      /\ \A v, u \in Writers : v # u => ~Collide(work[v], work[u])
  BY DEF TreeInv, Finish, Alone
<1>2. work'[w] = Idle /\ \A v \in Writers : v # w => work'[v] = work[v]
  BY <1>1
<1>3. \A y : ~Collide(Idle, y) /\ ~Collide(y, Idle)
  BY IdleHolds DEF Collide, Reshapes, Creates
<1> SUFFICES ASSUME NEW v \in Writers, NEW u \in Writers, v # u
             PROVE  ~Collide(work'[v], work'[u])
  BY DEF Alone, Collide, Reshapes, Creates
<1> QED
  BY <1>1, <1>2, <1>3

\* A call ends and leaves every live folder where it was.
LEMMA Settled ==
  ASSUME TreeInv, NEW w \in Writers, Finish(w), Rows \subseteq Rows',
         \A f \in Live : f \in Live' /\ folders'[f].path = folders[f].path
  PROVE  work' \in [Writers -> Call] /\ CallsHold' /\ Alone'
<1>1. /\ work \in [Writers -> Call] /\ \A v \in Writers : CallHolds(work[v])
      /\ work' = [work EXCEPT ![w] = Idle]
  BY DEF TreeInv, CallsHold, Finish
<1>2. /\ work' \in [Writers -> Call] /\ work'[w] = Idle
      /\ \A v \in Writers : v # w => work'[v] = work[v]
  BY <1>1, IdleHolds
<1>3. CallsHold'
  <2> SUFFICES ASSUME NEW v \in Writers PROVE CallHolds(work[v])'
    BY DEF CallsHold
  <2>1. PICK y \in Call : y = work'[v] /\ CallHolds(y)
    BY <1>1, <1>2, IdleHolds
  <2>2. CallHolds(y)'
    BY <2>1, Kept
  <2> QED
    BY <2>1, <2>2 DEF CallHolds, ChainOk, Known, Creates
<1> QED
  BY <1>2, <1>3, AloneStill

\* A call that moved or deleted folders ends: what is left relies on no folder's place.
LEMMA SettledAlone ==
  ASSUME TreeInv, NEW w \in Writers, Finish(w), Reshapes(work[w]), Rows \subseteq Rows'
  PROVE  work' \in [Writers -> Call] /\ CallsHold' /\ Alone'
<1>1. /\ work \in [Writers -> Call] /\ \A v \in Writers : CallHolds(work[v])
      /\ work' = [work EXCEPT ![w] = Idle]
  BY DEF TreeInv, CallsHold, Finish
<1>2. /\ work' \in [Writers -> Call] /\ work'[w] = Idle
      /\ \A v \in Writers : v # w => work'[v] = work[v]
  BY <1>1, IdleHolds
<1>3. \A v \in Writers : v # w => ~Reshapes(work[v]) /\ ~Creates(work[v])
  BY DEF TreeInv, Alone, Collide
<1>4. CallsHold'
  <2> SUFFICES ASSUME NEW v \in Writers PROVE CallHolds(work[v])'
    BY DEF CallsHold
  <2>1. PICK y \in Call : y = work'[v] /\ CallHolds(y) /\ ~Reshapes(y) /\ ~Creates(y)
    BY <1>1, <1>2, <1>3, IdleHolds DEF Reshapes, Creates
  <2>2. \A p, c : Known(p, c) => Known(p, c)'
    BY DEF Known
  <2>3. CallHolds(y)'
    BY <2>1, <2>2 DEF CallHolds, Reshapes, Creates
  <2> QED
    BY <2>1, <2>3 DEF CallHolds, ChainOk, Known, Creates
<1> QED
  BY <1>2, <1>4, AloneStill

\* A call ends and folders were only added.
LEMMA Grown ==
  ASSUME TreeInv, NEW w \in Writers, Finish(w),
         NEW R, IsTree(R), Rows \subseteq DOMAIN R, \A f \in Rows : R[f] = folders[f],
         NEW t \in [Secrets -> SecretRow], NEW l, Placed(R, t, l), Commit(R, t, l)
  PROVE  TreeInv'
<1>1. CASE Allowed(R)
  <2>1. folders' = R /\ secrets' = t /\ lapsed' = l
    BY <1>1 DEF Commit
  <2>2. Rows \subseteq Rows' /\ \A f \in Live : f \in Live' /\ folders'[f].path = folders[f].path
    BY <2>1 DEF Live, Rows
  <2>3. work' \in [Writers -> Call] /\ CallsHold' /\ Alone'
    BY <2>2, Settled
  <2>4. Unique(R)
    BY <1>1, AllowedUnique
  <2> QED
    BY <2>1, <2>3, <2>4 DEF TreeInv
<1>2. CASE ~Allowed(R)
  <2>1. folders' = folders /\ secrets' = secrets /\ lapsed' = lapsed
    BY <1>2 DEF Commit
  <2>2. work' \in [Writers -> Call] /\ CallsHold' /\ Alone'
    BY <2>1, Settled DEF Live, Rows
  <2> QED
    BY <2>1, <2>2 DEF TreeInv
<1> QED
  BY <1>1, <1>2

\* The folders of a creation or a write: a tree with every row that was there, and in it the
\* folder it found or made, which is what it looked for unless a call overtook the lookup.
LEMMA Built ==
  ASSUME TreeInv, NEW x \in Call, CallHolds(x), x.pc \in {"create", "put"},
         NEW R, R = Ensured(x.path, x.chain), NEW g, g = Leaf(x.path, x.chain)
  PROVE  /\ IsTree(R) /\ Rows \subseteq DOMAIN R /\ \A f \in Rows : R[f] = folders[f]
         /\ g \in DOMAIN R
         /\ ~Gone(g, x.path) => g \in LiveIn(R) /\ R[g].path = x.path
<1>1. PICK p, c : p = x.path /\ c = x.chain
  OBVIOUS
<1>2. p \in NameSeq /\ DOMAIN c = 1..Len(p) /\ Known(p, c)
  BY <1>1 DEF Call, CallHolds
<1>3. CASE Creates(x)
  <2>1. ChainOk(p, c)
    BY <1>1, <1>3 DEF CallHolds
  <2>2. /\ IsTree(R) /\ Rows \subseteq DOMAIN R /\ \A f \in Rows : R[f] = folders[f]
        /\ g \in LiveIn(R) /\ R[g].path = p
    BY <1>1, <1>2, <2>1, EnsuredTree DEF TreeInv
  <2> QED
    BY <1>1, <2>2 DEF LiveIn
<1>4. CASE ~Creates(x)
  <2>1. \A i \in 1..Len(p) : c[i] # 0 /\ c[i] \in Rows
    BY <1>1, <1>2, <1>4 DEF Creates, Known
  <2>2. IsTree(folders)
    BY DEF TreeInv
  <2>3. R = folders
    <3>1. Missing(p, c) = {}
      BY <2>1 DEF Missing, Gaps
    <3>2. NewRows(p, c) = {}
      BY <3>1 DEF NewRows
    <3>3. DOMAIN R = Rows /\ \A f \in Rows : R[f] = folders[f]
      <4>1. Numbered(folders) /\ R = Ensured(p, c)
        BY <1>1, <2>2 DEF IsTree
      <4>2. DOMAIN R = Rows \cup NewRows(p, c) /\ \A f \in Rows : R[f] = folders[f]
        <5>1. /\ DOMAIN R = Rows \cup NewRows(p, c)
              /\ \A f \in Rows : R[f] = folders[f]
              /\ \A i \in Missing(p, c) :
                   R[Node(p, c, i)] = [parent |-> Node(p, c, i - 1), name |-> p[i],
                                       path |-> Part(p, 1, i), live |-> TRUE]
          BY <1>2, <4>1, EnsuredRows
        <5> QED
          BY <5>1
      <4> QED
        BY <3>2, <4>2
    <3>4. R = [f \in DOMAIN R |-> R[f]]
      BY DEF Ensured
    <3>5. folders = [f \in Rows |-> folders[f]]
      BY <2>2 DEF IsTree, Rows
    <3> QED
      BY <3>3, <3>4, <3>5
  <2>4. g \in Rows
    <3>1. Len(p) \in Nat
      BY <1>2, PathIs
    <3>2. CASE Len(p) = 0
      <4>1. g = Root
        BY <1>1, <3>2, NodeIs DEF Leaf
      <4> QED
        BY <2>2, <4>1 DEF IsTree, Linked, Rows
    <3>3. CASE Len(p) # 0
      <4>1. Len(p) \in 1..Len(p)
        BY <3>1, <3>3
      <4>2. g = c[Len(p)]
        BY <1>1, <2>1, <3>3, <4>1, NodeIs DEF Leaf
      <4> QED
        BY <2>1, <4>1, <4>2
    <3> QED
      BY <3>2, <3>3
  <2> QED
    BY <1>1, <2>2, <2>3, <2>4 DEF Gone, LiveIn, Rows
<1> QED
  BY <1>3, <1>4

\* CreateFolder keeps the invariant, whether it commits or not.
LEMMA CreateStep ==
  ASSUME TreeInv, NEW w \in Writers, CreateFolder(w)
  PROVE  TreeInv'
<1>1. PICK x : x = work[w]
  OBVIOUS
<1>2. x \in Call /\ CallHolds(x) /\ x.pc = "create"
  BY <1>1 DEF TreeInv, CallsHold, CreateFolder
<1>3. PICK R : R = Ensured(x.path, x.chain)
  OBVIOUS
<1>4. Finish(w) /\ Commit(R, secrets, lapsed)
  BY <1>1, <1>3 DEF CreateFolder
<1>5. IsTree(R) /\ Rows \subseteq DOMAIN R /\ \A f \in Rows : R[f] = folders[f]
  BY <1>2, <1>3, Built
<1>6. Placed(R, secrets, lapsed) /\ secrets \in [Secrets -> SecretRow]
  BY <1>5 DEF TreeInv, Placed, LiveIn, Rows
<1> QED
  BY <1>4, <1>5, <1>6, Grown

\* So does PutSecret, with the folders and the secret it creates.
LEMMA PutStep ==
  ASSUME TreeInv, NEW w \in Writers, PutSecret(w)
  PROVE  TreeInv'
<1>1. PICK x : x = work[w]
  OBVIOUS
<1>2. x \in Call /\ CallHolds(x) /\ x.pc = "put"
  BY <1>1 DEF TreeInv, CallsHold, PutSecret
<1>3. PICK R, g : R = Ensured(x.path, x.chain) /\ g = Leaf(x.path, x.chain)
  OBVIOUS
<1>4. x.path \in NameSeq
  BY <1>2 DEF Call
<1>5. /\ IsTree(R) /\ Rows \subseteq DOMAIN R /\ \A f \in Rows : R[f] = folders[f]
      /\ g \in DOMAIN R
      /\ ~Gone(g, x.path) => g \in LiveIn(R) /\ R[g].path = x.path
  BY <1>2, <1>3, Built
<1>6. Placed(R, secrets, lapsed) /\ secrets \in [Secrets -> SecretRow]
  BY <1>5 DEF TreeInv, Placed, LiveIn, Rows
<1>7. Finish(w)
  BY DEF PutSecret
<1>8. CASE LiveAt(g, x.key) # {}
  <2>1. Commit(R, secrets, lapsed)
    BY <1>1, <1>3, <1>8 DEF PutSecret
  <2> QED
    BY <1>5, <1>6, <1>7, <2>1, Grown
<1>9. CASE LiveAt(g, x.key) = {}
  <2>1. PICK s \in Secrets :
          Commit(R, [secrets EXCEPT ![s] =
                       [status |-> "live", folder |-> g, key |-> x.key, mrn |-> x.path]],
                  IF Gone(g, x.path) THEN lapsed \cup {s} ELSE lapsed)
    BY <1>1, <1>3, <1>9 DEF PutSecret
  <2>2. PICK row, t, l : /\ row = [status |-> "live", folder |-> g, key |-> x.key, mrn |-> x.path]
                         /\ t = [secrets EXCEPT ![s] = row]
                         /\ l = IF Gone(g, x.path) THEN lapsed \cup {s} ELSE lapsed
    OBVIOUS
  <2>3. g \in Nat
    <3>1. Numbered(R) /\ g \in DOMAIN R
      BY <1>5 DEF IsTree
    <3> QED
      BY <3>1 DEF Numbered
  <2>4. row \in SecretRow
    BY <1>2, <1>4, <2>2, <2>3 DEF Call, SecretRow
  <2>5. t \in [Secrets -> SecretRow]
    BY <1>6, <2>2, <2>4
  <2>6. t[s] = row /\ \A r \in Secrets : r # s => t[r] = secrets[r]
    BY <1>6, <2>2
  <2>7. /\ row.folder \in DOMAIN R /\ \A r \in Secrets : r \notin l => r \notin lapsed
        /\ s \notin l => row.folder \in LiveIn(R) /\ row.mrn = R[row.folder].path
    <3>1. row.folder = g /\ row.mrn = x.path
      BY <2>2
    <3>2. Gone(g, x.path) => s \in l
      BY <2>2
    <3>3. \A r \in Secrets : r \notin l => r \notin lapsed
      BY <2>2
    <3> QED
      BY <1>5, <3>1, <3>2, <3>3
  <2>8. Placed(R, t, l)
    BY <1>6, <2>6, <2>7 DEF Placed
  <2>9. Commit(R, t, l)
    BY <2>1, <2>2
  <2> QED
    BY <1>5, <1>7, <2>5, <2>8, <2>9, Grown
<1> QED
  BY <1>8, <1>9

\* So does MoveFolder: no other row has the path that moves, not even among the parents it
\* creates, because nothing moves into its own subtree.
LEMMA MoveStep ==
  ASSUME TreeInv, NEW w \in Writers, MoveFolder(w)
  PROVE  TreeInv'
<1>1. PICK x : x = work[w]
  OBVIOUS
<1>2. x \in Call /\ CallHolds(x) /\ x.pc = "move"
  BY <1>1 DEF TreeInv, CallsHold, MoveFolder
<1>3. PICK from, to, up, chain, node, g, E :
        /\ from = x.path /\ to = x.to /\ up = Front(to)
        /\ chain = Front(x.chain) /\ node = Last(x.chain)
        /\ E = Ensured(up, chain) /\ g = Leaf(up, chain)
  OBVIOUS
<1>4. /\ from \in NameSeq /\ to \in NameSeq /\ Movable(from, to)
      /\ ChainOk(up, chain) /\ node \in Live /\ folders[node].path = from
  BY <1>2, <1>3 DEF Call, CallHolds
<1>5. to # <<>> /\ ~AtOrUnder(to, from)
  BY <1>4 DEF Movable
<1>6. up \in NameSeq /\ Last(to) \in Names /\ to = Child(up, Last(to))
  BY <1>3, <1>4, <1>5, FrontOf
<1>7. PICK R : R = Rebased(Reseated(E, node, g, to), from, to)
  OBVIOUS
<1>8. ASSUME Rows \subseteq Rows'
      PROVE  work' \in [Writers -> Call] /\ CallsHold' /\ Alone'
  <2>1. Finish(w) /\ Reshapes(work[w])
    BY <1>1, <1>2 DEF MoveFolder, Reshapes
  <2> QED
    BY <1>8, <2>1, SettledAlone
<1>9. CASE folders' = folders /\ secrets' = secrets /\ lapsed' = lapsed
  BY <1>8, <1>9 DEF TreeInv, Rows
<1>10. CASE /\ Allowed(R) /\ folders' = R /\ secrets' = Refreshed(R, to)
            /\ lapsed' = Overtaken(In(R, to), Refreshed(R, to))
  <2>1. /\ IsTree(E) /\ Rows \subseteq DOMAIN E /\ \A f \in Rows : E[f] = folders[f]
        /\ g \in LiveIn(E) /\ E[g].path = up
        /\ \A f \in DOMAIN E \ Rows : AtOrUnder(up, E[f].path)
    BY <1>3, <1>4, <1>6, EnsuredTree DEF TreeInv
  <2>2. \A f \in Live : f \in LiveIn(E) /\ E[f].path = folders[f].path
    BY <2>1 DEF Live, LiveIn
  <2>3. \A f \in LiveIn(E) : E[f].path = from => f = node
    <3> SUFFICES ASSUME NEW f \in LiveIn(E), E[f].path = from PROVE f = node
      OBVIOUS
    <3>1. CASE f \in Rows
      <4>1. f \in LiveIn(folders) /\ folders[f].path = from /\ node \in LiveIn(folders)
        BY <1>4, <2>1, <3>1 DEF LiveIn, Live, Rows
      <4> QED
        BY <1>4, <4>1 DEF TreeInv, Unique
    <3>2. CASE f \notin Rows
      <4>1. AtOrUnder(up, from)
        BY <2>1, <3>2 DEF LiveIn
      <4>2. AtOrUnder(Child(up, Last(to)), from)
        BY <1>4, <1>6, <4>1, UnderLevel
      <4> QED
        BY <1>5, <1>6, <4>2
    <3> QED
      BY <3>1, <3>2
  <2>4. /\ IsTree(R) /\ DOMAIN R = DOMAIN E /\ LiveIn(R) = LiveIn(E)
        /\ \A f \in LiveIn(R) : AtOrUnder(R[f].path, to) \/ R[f].path = E[f].path
    <3>1. node \in LiveIn(E) /\ E[node].path = from /\ E[g].path = Front(to)
      BY <1>3, <1>4, <2>1, <2>2
    <3>2. IsTree(E) /\ g \in LiveIn(E)
      BY <2>1
    <3>3. from \in NameSeq /\ to \in NameSeq /\ Movable(from, to)
      BY <1>4
    <3> QED
      BY <1>7, <2>3, <3>1, <3>2, <3>3, MovedTree
  <2>5. Unique(R)
    BY <1>10, AllowedUnique
  <2>6. PICK t, l : t = Refreshed(R, to) /\ l = Overtaken(In(R, to), t)
    OBVIOUS
  <2>7. secrets \in [Secrets -> SecretRow] /\ Placed(folders, secrets, lapsed)
    BY DEF TreeInv
  <2>8. ASSUME NEW s \in Secrets
        PROVE  /\ t[s] \in SecretRow
               /\ t[s].status # "absent" =>
                    /\ t[s].folder \in DOMAIN R
                    /\ s \notin l => t[s].folder \in LiveIn(R) /\ t[s].mrn = R[t[s].folder].path
    <3>1. secrets[s] \in SecretRow
      BY <2>7
    <3>2. t[s] = IF secrets[s].status = "live" /\ AtOrUnder(R[secrets[s].folder].path, to)
                 THEN [secrets[s] EXCEPT !.mrn = R[secrets[s].folder].path] ELSE secrets[s]
      BY <2>6 DEF Refreshed
    <3>3. CASE secrets[s].status = "absent"
      BY <3>1, <3>2, <3>3
    <3>4. CASE secrets[s].status # "absent"
      <4>1. PICK f : f = secrets[s].folder
        OBVIOUS
      <4>2. f \in Rows /\ f \in DOMAIN R
        BY <2>1, <2>4, <2>7, <3>4, <4>1 DEF Placed, Rows
      <4>3. R[f].path \in NameSeq
        BY <2>4, <4>2 DEF IsTree, Row
      <4>4. s \in In(R, to) <=> R[f].live /\ AtOrUnder(R[f].path, to)
        BY <3>4, <4>1 DEF In
      <4>5. s \in l <=> IF s \in In(R, to) THEN t[s].status = "deleted" ELSE s \in lapsed
        BY <2>6 DEF Overtaken
      <4>6. CASE secrets[s].status = "live" /\ AtOrUnder(R[f].path, to)
        <5>1. PICK q \in NameSeq : q = R[f].path
          BY <4>3
        <5>2. t[s] = [secrets[s] EXCEPT !.mrn = q]
          BY <3>2, <4>1, <4>6, <5>1
        <5>3. t[s] = [status |-> "live", folder |-> f, key |-> secrets[s].key, mrn |-> q]
          BY <3>1, <4>1, <4>6, <5>2 DEF SecretRow
        <5>4. t[s] \in SecretRow
          BY <3>1, <4>1, <5>3 DEF SecretRow
        <5>5. s \notin l => f \in LiveIn(R)
          <6>1. CASE R[f].live
            BY <4>2, <6>1 DEF LiveIn
          <6>2. CASE ~R[f].live
            <7>1. s \notin l => s \notin lapsed
              BY <4>4, <4>5, <6>2
            <7>2. s \notin lapsed => f \in LiveIn(folders)
              BY <2>7, <3>4, <4>1 DEF Placed
            <7>3. f \notin LiveIn(R)
              BY <6>2 DEF LiveIn
            <7>4. LiveIn(folders) \subseteq LiveIn(R)
              BY <2>2, <2>4 DEF Live, LiveIn, Rows
            <7> QED
              BY <7>1, <7>2, <7>3, <7>4
          <6> QED
            BY <6>1, <6>2
        <5> QED
          BY <4>2, <5>1, <5>3, <5>4, <5>5
      <4>7. CASE ~(secrets[s].status = "live" /\ AtOrUnder(R[f].path, to))
        <5>1. t[s] = secrets[s]
          BY <3>2, <4>1, <4>7
        <5>2. ASSUME s \notin l
              PROVE  f \in LiveIn(R) /\ secrets[s].mrn = R[f].path
          <6>1. s \notin In(R, to)
            <7> SUFFICES ASSUME s \in In(R, to) PROVE FALSE
              OBVIOUS
            <7>1. secrets[s].status # "live"
              BY <4>4, <4>7
            <7>2. secrets[s].status = "deleted"
              BY <3>1, <3>4, <7>1 DEF SecretRow
            <7> QED
              BY <4>5, <5>1, <5>2, <7>2
          <6>2. s \notin lapsed
            BY <4>5, <5>2, <6>1
          <6>3. f \in LiveIn(folders) /\ secrets[s].mrn = folders[f].path
            BY <2>7, <3>4, <4>1, <6>2 DEF Placed
          <6>4. f \in LiveIn(R) /\ E[f].path = folders[f].path
            BY <2>2, <2>4, <6>3 DEF Live, LiveIn, Rows
          <6>5. ~AtOrUnder(R[f].path, to)
            BY <4>4, <6>1, <6>4 DEF LiveIn
          <6> QED
            BY <2>4, <6>3, <6>4, <6>5
        <5> QED
          BY <3>1, <4>1, <4>2, <5>1, <5>2
      <4> QED
        BY <4>6, <4>7
    <3> QED
      BY <3>3, <3>4
  <2>9. t \in [Secrets -> SecretRow]
    <3>1. t = [s \in Secrets |-> t[s]]
      BY <2>6 DEF Refreshed
    <3> QED
      BY <2>8, <3>1
  <2>10. Placed(R, t, l)
    BY <2>8 DEF Placed
  <2>11. Rows \subseteq Rows'
    BY <1>10, <2>1, <2>4 DEF Rows
  <2> QED
    BY <1>8, <1>10, <2>4, <2>5, <2>6, <2>9, <2>10, <2>11 DEF TreeInv
<1>11. \/ folders' = folders /\ secrets' = secrets /\ lapsed' = lapsed
       \/ /\ Allowed(R) /\ folders' = R /\ secrets' = Refreshed(R, to)
          /\ lapsed' = Overtaken(In(R, to), Refreshed(R, to))
  BY <1>1, <1>3, <1>7 DEF MoveFolder, Commit, Reseated
<1> QED
  BY <1>9, <1>10, <1>11

\* So does DeleteFolder: what it leaves has its parents, and no secret below what it took.
LEMMA DeleteStep ==
  ASSUME TreeInv, NEW w \in Writers, DeleteFolder(w)
  PROVE  TreeInv'
<1>1. PICK p : p = work[w].path
  OBVIOUS
<1>2. work[w] \in Call /\ CallHolds(work[w]) /\ work[w].pc = "delete" /\ Finish(w)
  BY DEF TreeInv, CallsHold, DeleteFolder
<1>3. p \in NameSeq /\ p # <<>>
  BY <1>1, <1>2 DEF Call, CallHolds
<1>4. PICK R, t, l :
        /\ R = [f \in Rows |-> [folders[f] EXCEPT !.live = @ /\ ~AtOrUnder(folders[f].path, p)]]
        /\ t = DeletedSecrets(p) /\ l = Overtaken(In(folders, p), t)
  OBVIOUS
<1>5. folders' = R /\ secrets' = t /\ lapsed' = l
  BY <1>1, <1>4 DEF DeleteFolder
<1>6. /\ IsTree(R) /\ DOMAIN R = Rows /\ \A f \in Rows : R[f].path = folders[f].path
      /\ LiveIn(R) = {f \in Live : ~AtOrUnder(folders[f].path, p)}
  BY <1>3, <1>4, PrunedTree DEF TreeInv
<1>7. Unique(R)
  <2>1. \A f \in LiveIn(R) : f \in LiveIn(folders) /\ R[f].path = folders[f].path
    BY <1>6 DEF Live, LiveIn, Rows
  <2> QED
    BY <2>1 DEF TreeInv, Unique
<1>8. secrets \in [Secrets -> SecretRow] /\ Placed(folders, secrets, lapsed)
  BY DEF TreeInv
<1>9. ASSUME NEW s \in Secrets
      PROVE  /\ t[s] \in SecretRow
             /\ t[s].status # "absent" =>
                  /\ t[s].folder \in DOMAIN R
                  /\ s \notin l => t[s].folder \in LiveIn(R) /\ t[s].mrn = R[t[s].folder].path
  <2>1. secrets[s] \in SecretRow
    BY <1>8
  <2>2. t[s] = IF secrets[s].status = "live" /\ AtOrUnder(folders[secrets[s].folder].path, p)
               THEN [secrets[s] EXCEPT !.status = "deleted"] ELSE secrets[s]
    BY <1>4 DEF DeletedSecrets
  <2>3. secrets[s].status # "absent" => secrets[s].folder \in DOMAIN R
    BY <1>6, <1>8 DEF Placed, Rows
  <2>4. s \in l <=> IF s \in In(folders, p) THEN t[s].status = "deleted" ELSE s \in lapsed
    BY <1>4 DEF Overtaken
  <2>5. ASSUME secrets[s].status # "absent", s \notin In(folders, p), s \notin lapsed
        PROVE  /\ secrets[s].folder \in LiveIn(R) /\ secrets[s].mrn = R[secrets[s].folder].path
               /\ ~AtOrUnder(folders[secrets[s].folder].path, p)
    <3>1. secrets[s].folder \in Live /\ secrets[s].mrn = folders[secrets[s].folder].path
      BY <1>8, <2>5 DEF Placed, Live, LiveIn, Rows
    <3>2. ~AtOrUnder(folders[secrets[s].folder].path, p)
      BY <2>5, <3>1 DEF In, Live
    <3> QED
      BY <1>6, <3>1, <3>2 DEF Live
  <2>6. CASE secrets[s].status = "live" /\ AtOrUnder(folders[secrets[s].folder].path, p)
    <3>1. t[s] = [status |-> "deleted", folder |-> secrets[s].folder, key |-> secrets[s].key,
                  mrn |-> secrets[s].mrn]
      BY <2>1, <2>2, <2>6 DEF SecretRow
    <3>2. t[s] \in SecretRow /\ t[s].status = "deleted" /\ t[s].folder = secrets[s].folder
      BY <2>1, <2>6, <3>1 DEF SecretRow
    <3>3. s \notin l => s \notin In(folders, p) /\ s \notin lapsed
      BY <2>4, <3>2
    <3>4. s \in l
      BY <2>5, <2>6, <3>3
    <3> QED
      BY <2>3, <2>6, <3>2, <3>4
  <2>7. CASE ~(secrets[s].status = "live" /\ AtOrUnder(folders[secrets[s].folder].path, p))
    <3>1. t[s] = secrets[s]
      BY <2>2, <2>7
    <3>2. ASSUME secrets[s].status # "absent", s \notin l
          PROVE  s \notin In(folders, p) /\ s \notin lapsed
      <4>1. secrets[s].status \in {"live", "deleted"}
        BY <2>1, <3>2 DEF SecretRow
      <4>2. s \in In(folders, p) => secrets[s].status = "deleted"
        BY <2>7, <4>1 DEF In
      <4> QED
        BY <2>4, <3>1, <3>2, <4>2
    <3> QED
      BY <2>1, <2>3, <2>5, <3>1, <3>2
  <2> QED
    BY <2>6, <2>7
<1>10. t \in [Secrets -> SecretRow]
  <2>1. t = [s \in Secrets |-> t[s]]
    BY <1>4 DEF DeletedSecrets
  <2> QED
    BY <1>9, <2>1
<1>11. Placed(R, t, l)
  BY <1>9 DEF Placed
<1>12. work' \in [Writers -> Call] /\ CallsHold' /\ Alone'
  BY <1>2, <1>5, <1>6, SettledAlone DEF Reshapes, Rows
<1> QED
  BY <1>5, <1>6, <1>7, <1>10, <1>11, <1>12 DEF TreeInv

\* So does DeleteSecret, which touches one status.
LEMMA RemoveStep ==
  ASSUME TreeInv, NEW w \in Writers, DeleteSecret(w)
  PROVE  TreeInv'
<1>1. PICK s : s = work[w].secret
  OBVIOUS
<1>2. s \in Secrets /\ Finish(w) /\ folders' = folders /\ lapsed' = lapsed
  BY <1>1 DEF TreeInv, CallsHold, CallHolds, DeleteSecret
<1>3. secrets \in [Secrets -> SecretRow] /\ Placed(folders, secrets, lapsed)
  BY DEF TreeInv
<1>4. secrets' = IF secrets[s].status = "live"
                 THEN [secrets EXCEPT ![s].status = "deleted"] ELSE secrets
  BY <1>1 DEF DeleteSecret
<1>5. secrets' \in [Secrets -> SecretRow] /\ Placed(folders, secrets', lapsed)
  <2>1. CASE secrets[s].status = "live"
    <3>1. PICK row : row = [status |-> "deleted", folder |-> secrets[s].folder,
                            key |-> secrets[s].key, mrn |-> secrets[s].mrn]
      OBVIOUS
    <3>2. [secrets[s] EXCEPT !.status = "deleted"] = row /\ row \in SecretRow
      BY <1>2, <1>3, <3>1 DEF SecretRow
    <3>3. secrets' = [secrets EXCEPT ![s] = row]
      BY <1>2, <1>3, <1>4, <2>1, <3>2
    <3>4. secrets' \in [Secrets -> SecretRow]
      BY <1>2, <1>3, <3>2, <3>3
    <3>5. secrets'[s] = row /\ \A r \in Secrets : r # s => secrets'[r] = secrets[r]
      BY <1>2, <1>3, <3>3
    <3>6. /\ secrets[s].folder \in DOMAIN folders
          /\ s \notin lapsed => /\ secrets[s].folder \in LiveIn(folders)
                               /\ secrets[s].mrn = folders[secrets[s].folder].path
      BY <1>2, <1>3, <2>1 DEF Placed
    <3>7. row.folder = secrets[s].folder /\ row.mrn = secrets[s].mrn
      BY <3>1
    <3>8. Placed(folders, secrets', lapsed)
      BY <1>3, <3>5, <3>6, <3>7 DEF Placed
    <3> QED
      BY <3>4, <3>8
  <2>2. CASE secrets[s].status # "live"
    BY <1>3, <1>4, <2>2
  <2> QED
    BY <2>1, <2>2
<1>6. work' \in [Writers -> Call] /\ CallsHold' /\ Alone'
  BY <1>2, Settled DEF Live, Rows
<1> QED
  BY <1>2, <1>5, <1>6 DEF TreeInv

\* One statement gives a secret back, with the folder and the MRN it was deleted with.
LEMMA RestoreStep ==
  ASSUME TreeInv, NEW s \in Secrets, RestoreSecret(s)
  PROVE  TreeInv'
<1>1. /\ folders' = folders /\ work' = work /\ lapsed' = lapsed
      /\ secrets' = [secrets EXCEPT ![s].status = "live"] /\ secrets[s].status = "deleted"
  BY DEF RestoreSecret
<1>2. secrets \in [Secrets -> SecretRow] /\ Placed(folders, secrets, lapsed)
  BY DEF TreeInv
<1>3. PICK row : row = [status |-> "live", folder |-> secrets[s].folder,
                        key |-> secrets[s].key, mrn |-> secrets[s].mrn]
  OBVIOUS
<1>4. [secrets[s] EXCEPT !.status = "live"] = row /\ row \in SecretRow
  BY <1>2, <1>3 DEF SecretRow
<1>5. secrets' = [secrets EXCEPT ![s] = row]
  BY <1>1, <1>2, <1>4
<1>6. secrets' \in [Secrets -> SecretRow]
  BY <1>2, <1>4, <1>5
<1>7. secrets'[s] = row /\ \A r \in Secrets : r # s => secrets'[r] = secrets[r]
  BY <1>2, <1>5
<1>8. Placed(folders, secrets', lapsed)
  <2>1. row.folder = secrets[s].folder /\ row.mrn = secrets[s].mrn
    BY <1>3
  <2>2. /\ row.folder \in DOMAIN folders
        /\ s \notin lapsed => row.folder \in LiveIn(folders) /\ row.mrn = folders[row.folder].path
    BY <1>1, <1>2, <2>1 DEF Placed
  <2> QED
    BY <1>2, <1>7, <2>2 DEF Placed
<1>9. CallsHold' /\ Alone'
  BY <1>1 DEF TreeInv, CallsHold, CallHolds, ChainOk, Known, Creates, Live, Rows, Alone, Collide,
              Reshapes
<1> QED
  BY <1>1, <1>6, <1>8, <1>9 DEF TreeInv

\* So does a rollback.
LEMMA AbortStep ==
  ASSUME TreeInv, NEW w \in Writers, Abort(w)
  PROVE  TreeInv'
<1>1. Finish(w) /\ folders' = folders /\ secrets' = secrets /\ lapsed' = lapsed
  BY DEF Abort
<1>2. work' \in [Writers -> Call] /\ CallsHold' /\ Alone'
  BY <1>1, Settled DEF Live, Rows
<1> QED
  BY <1>1, <1>2 DEF TreeInv

\* What the lookups find.
LEMMA AtIs ==
  ASSUME TreeInv, NEW p
  PROVE  At(p) \in Nat /\ (At(p) # 0 => At(p) \in Live /\ folders[At(p)].path = p)
<1>1. PICK found : found = {f \in Live : folders[f].path = p}
  OBVIOUS
<1>2. At(p) = IF found = {} THEN 0 ELSE CHOOSE f \in found : TRUE
  BY <1>1 DEF At
<1>3. found # {} => At(p) \in found
  BY <1>2
<1>4. Live \subseteq Nat
  BY DEF TreeInv, IsTree, Numbered, Live, Rows
<1>5. CASE found = {}
  BY <1>2, <1>5
<1>6. CASE found # {}
  <2>1. PICK f : f = At(p)
    OBVIOUS
  <2>2. f \in Live /\ folders[f].path = p
    BY <1>1, <1>3, <1>6, <2>1
  <2> QED
    BY <1>4, <2>1, <2>2
<1> QED
  BY <1>5, <1>6

\* The lookups of ensureFolderPath find a chain that can be relied on.
LEMMA ChainIs ==
  ASSUME TreeInv, NEW p \in NameSeq
  PROVE  /\ Chain(p) \in Seq(Nat) /\ ChainOk(p, Chain(p))
         /\ DOMAIN Chain(p) = 1..Len(p) /\ Known(p, Chain(p))
<1>1. Len(p) \in Nat
  BY PathIs
<1>2. Chain(p) = [i \in 1..Len(p) |-> At(Part(p, 1, i))]
  BY DEF Chain, Part
<1>3. Chain(p) \in [1..Len(p) -> Nat]
  BY <1>2, AtIs
<1>4. Chain(p) \in Seq(Nat)
  BY <1>1, <1>3, SeqDef
<1>5. ASSUME NEW i \in 1..Len(p), Chain(p)[i] # 0
      PROVE  Chain(p)[i] \in Live /\ folders[Chain(p)[i]].path = Part(p, 1, i)
  <2>1. PICK q : q = Part(p, 1, i)
    OBVIOUS
  <2>2. Chain(p)[i] = At(q)
    BY <1>2, <2>1
  <2> QED
    BY <1>5, <2>1, <2>2, AtIs
<1>6. DOMAIN Chain(p) = 1..Len(p)
  BY <1>2
<1>7. \A f : f \in Live => f \in Rows
  BY DEF Live
<1> QED
  BY <1>4, <1>5, <1>6, <1>7 DEF ChainOk, Known

\* The chain of a move is what was found for the parent, then the folder.
LEMMA FrontAppend ==
  ASSUME NEW s \in Seq(Nat), NEW e \in Nat
  PROVE  Append(s, e) \in Seq(Nat) /\ Front(Append(s, e)) = s /\ Last(Append(s, e)) = e
<1>1. PICK a : a = Append(s, e)
  OBVIOUS
<1>2. PICK n : n = Len(s)
  OBVIOUS
<1>3. /\ n \in Nat /\ a \in Seq(Nat) /\ Len(a) = n + 1 /\ a[n + 1] = e
      /\ \A i \in 1..n : a[i] = s[i] /\ s[i] \in Nat
  BY <1>1, <1>2, AppendProperties, LenProperties, ElementOfSeq
<1>4. Len(a) - 1 = n
  BY <1>3
<1>5. /\ SubSeq(a, 1, n) \in Seq(Nat)
      /\ Len(SubSeq(a, 1, n)) = IF 1 <= n THEN n - 1 + 1 ELSE 0
      /\ \A i \in 1..n - 1 + 1 : SubSeq(a, 1, n)[i] = a[1 + i - 1]
  <2>1. \A i \in 1..n : a[i] \in Nat
    BY <1>3
  <2> QED
    BY <1>3, <2>1, SubSeqProperties, 1 \in Int, n \in Int
<1>6. PICK b : b = SubSeq(a, 1, n)
  OBVIOUS
<1>7. b \in Seq(Nat) /\ Len(b) = n /\ \A i \in 1..n : b[i] = a[i]
  BY <1>3, <1>5, <1>6
<1>8. b = s
  BY <1>2, <1>3, <1>7, SeqEqual
<1>9. Front(a) = s
  BY <1>4, <1>6, <1>8 DEF Front
<1>10. Last(a) = e
  BY <1>3 DEF Last
<1> QED
  BY <1>1, <1>3, <1>9, <1>10

\* A creation that has looked at every level relies on what it found.
LEMMA BeginCreateStep ==
  ASSUME TreeInv, Quiet, NEW w \in Writers, NEW p \in Paths, BeginCreate(w, p)
  PROVE  TreeInv'
<1>1. PICK c : c = Chain(p)
  OBVIOUS
<1>2. p \in NameSeq /\ c \in Seq(Nat) /\ ChainOk(p, c) /\ Known(p, c) /\ DOMAIN c = 1..Len(p)
  BY <1>1, PathsAreSeqs, ChainIs
<1>3. PICK x : x = [Idle EXCEPT !.pc = "create", !.path = p, !.chain = c]
  OBVIOUS
<1>4. x = [pc |-> "create", path |-> p, to |-> <<>>, chain |-> c, key |-> None, secret |-> None]
  BY <1>3 DEF Idle
<1>5. x \in Call /\ CallHolds(x)
  BY <1>2, <1>4, EmptyPath DEF Call, CallHolds
<1>6. Begin(w, x)
  BY <1>1, <1>3 DEF BeginCreate
<1> QED
  BY <1>5, <1>6, Begun

\* So does a write that creates its folders.
LEMMA BeginPutStep ==
  ASSUME TreeInv, Quiet, NEW w \in Writers, NEW p \in Paths, NEW k \in Keys, BeginPut(w, p, k)
  PROVE  TreeInv'
<1>1. PICK c : c = Chain(p)
  OBVIOUS
<1>2. p \in NameSeq /\ c \in Seq(Nat) /\ ChainOk(p, c) /\ Known(p, c) /\ DOMAIN c = 1..Len(p)
  BY <1>1, PathsAreSeqs, ChainIs
<1>3. PICK x : x = [Idle EXCEPT !.pc = "put", !.path = p, !.chain = c, !.key = k]
  OBVIOUS
<1>4. x = [pc |-> "put", path |-> p, to |-> <<>>, chain |-> c, key |-> k, secret |-> None]
  BY <1>3 DEF Idle
<1>5. x \in Call /\ CallHolds(x)
  BY <1>2, <1>4, EmptyPath DEF Call, CallHolds
<1>6. Begin(w, x)
  BY <1>1, <1>3 DEF BeginPut
<1> QED
  BY <1>5, <1>6, Begun

\* A move relies on the parent of its destination and on the folder it found.
LEMMA BeginMoveStep ==
  ASSUME TreeInv, Quiet, NEW w \in Writers, NEW from \in Paths, BeginMove(w, from)
  PROVE  TreeInv'
<1>1. PICK node : node = At(from)
  OBVIOUS
<1>2. from \in NameSeq /\ node \in Nat /\ node \in Live /\ folders[node].path = from
  BY <1>1, PathsAreSeqs, AtIs DEF BeginMove
<1>3. PICK to \in Paths :
        /\ Movable(from, to)
        /\ Begin(w, [Idle EXCEPT !.pc = "move", !.path = from, !.to = to,
                               !.chain = Append(Chain(Front(to)), At(from))])
  BY DEF BeginMove
<1>4. PICK up, above, c : up = Front(to) /\ above = Chain(up) /\ c = Append(above, node)
  OBVIOUS
<1>5. to \in NameSeq /\ to # <<>>
  BY <1>3, PathsAreSeqs DEF Movable
<1>6. up \in NameSeq
  BY <1>4, <1>5, FrontOf
<1>7. above \in Seq(Nat) /\ ChainOk(up, above)
  BY <1>4, <1>6, ChainIs
<1>8. c \in Seq(Nat) /\ Front(c) = above /\ Last(c) = node
  BY <1>2, <1>4, <1>7, FrontAppend
<1>9. PICK x : x = [Idle EXCEPT !.pc = "move", !.path = from, !.to = to, !.chain = c]
  OBVIOUS
<1>10. x = [pc |-> "move", path |-> from, to |-> to, chain |-> c, key |-> None, secret |-> None]
  BY <1>9 DEF Idle
<1>11. x \in Call /\ x.pc = "move"
  BY <1>2, <1>5, <1>8, <1>10 DEF Call
<1>12. CallHolds(x)
  BY <1>2, <1>3, <1>4, <1>7, <1>8, <1>10 DEF CallHolds, Creates
<1>13. Begin(w, x)
  BY <1>1, <1>3, <1>4, <1>9
<1> QED
  BY <1>11, <1>12, <1>13, Begun

\* A deletion takes any folder but the root.
LEMMA BeginDeleteStep ==
  ASSUME TreeInv, Quiet, NEW w \in Writers, NEW p \in Paths, BeginDelete(w, p)
  PROVE  TreeInv'
<1>1. p \in NameSeq /\ p # <<>>
  BY PathsAreSeqs DEF BeginDelete
<1>2. PICK x : x = [Idle EXCEPT !.pc = "delete", !.path = p]
  OBVIOUS
<1>3. x = [pc |-> "delete", path |-> p, to |-> <<>>, chain |-> <<>>, key |-> None, secret |-> None]
  BY <1>2 DEF Idle
<1>4. <<>> \in NameSeq /\ <<>> \in Seq(Nat)
  BY EmptyPath, EmptySeq
<1>5. x \in Call /\ CallHolds(x)
  BY <1>1, <1>3, <1>4 DEF Call, CallHolds, Creates
<1>6. Begin(w, x)
  BY <1>2 DEF BeginDelete
<1> QED
  BY <1>5, <1>6, Begun

\* A removal names a secret.
LEMMA BeginRemoveStep ==
  ASSUME TreeInv, Quiet, NEW w \in Writers, NEW p \in Paths, NEW k \in Keys, BeginRemove(w, p, k)
  PROVE  TreeInv'
<1>1. PICK s \in Secrets : Begin(w, [Idle EXCEPT !.pc = "remove", !.secret = s])
  BY DEF BeginRemove, LiveAt
<1>2. PICK x : x = [Idle EXCEPT !.pc = "remove", !.secret = s]
  OBVIOUS
<1>3. x = [pc |-> "remove", path |-> <<>>, to |-> <<>>, chain |-> <<>>, key |-> None, secret |-> s]
  BY <1>2 DEF Idle
<1>4. <<>> \in NameSeq /\ <<>> \in Seq(Nat)
  BY EmptyPath, EmptySeq
<1>5. x \in Call /\ CallHolds(x)
  BY <1>3, <1>4 DEF Call, CallHolds, Creates
<1>6. Begin(w, x)
  BY <1>1, <1>2
<1> QED
  BY <1>5, <1>6, Begun

\* The root alone is a tree.
LEMMA TreeInit == Init => TreeInv
<1> SUFFICES ASSUME Init PROVE TreeInv
  OBVIOUS
<1>1. PICK row : row = [parent |-> 0, name |-> None, path |-> <<>>, live |-> TRUE]
  OBVIOUS
<1>2. row \in Row
  BY <1>1, EmptyPath DEF Row
<1>3. folders = [f \in {Root} |-> row] /\ DOMAIN folders = {Root} /\ Root = 1
  BY <1>1 DEF Init, Root
<1>4. Numbered(folders)
  <2>1. IsFiniteSet({Root}) /\ Cardinality({Root}) = 1
    BY FS_Singleton
  <2> QED
    BY <1>3, <2>1 DEF Numbered
<1>5. LiveIn(folders) = {Root}
  BY <1>1, <1>3 DEF LiveIn
<1>6. IsTree(folders) /\ Unique(folders)
  BY <1>1, <1>2, <1>3, <1>4, <1>5 DEF IsTree, Linked, Unique
<1>7. secrets \in [Secrets -> SecretRow] /\ Placed(folders, secrets, lapsed)
  BY EmptyPath DEF Init, SecretRow, Placed
<1>8. work \in [Writers -> Call] /\ \A w \in Writers : work[w] = Idle
  BY IdleHolds DEF Init
<1>9. CallsHold /\ Alone
  BY <1>8, IdleHolds DEF CallsHold, Alone, Collide, Reshapes
<1> QED
  BY <1>6, <1>7, <1>8, <1>9 DEF TreeInv

\* Every step keeps the invariant while moves and deletions have the folders to themselves.
LEMMA TreeStep ==
  ASSUME Quiet, TreeInv, [Next]_vars
  PROVE  TreeInv'
<1>1. ASSUME NEW w \in Writers, NEW p \in Paths,
             BeginCreate(w, p) \/ BeginMove(w, p) \/ BeginDelete(w, p)
      PROVE  TreeInv'
  BY <1>1, BeginCreateStep, BeginMoveStep, BeginDeleteStep
<1>2. ASSUME NEW w \in Writers, NEW p \in Paths, NEW k \in Keys,
             BeginPut(w, p, k) \/ BeginRemove(w, p, k)
      PROVE  TreeInv'
  BY <1>2, BeginPutStep, BeginRemoveStep
<1>3. ASSUME NEW w \in Writers, CreateFolder(w) PROVE TreeInv'
  BY <1>3, CreateStep
<1>4. ASSUME NEW w \in Writers, PutSecret(w) PROVE TreeInv'
  BY <1>4, PutStep
<1>5. ASSUME NEW w \in Writers, MoveFolder(w) PROVE TreeInv'
  BY <1>5, MoveStep
<1>6. ASSUME NEW w \in Writers, DeleteFolder(w) PROVE TreeInv'
  BY <1>6, DeleteStep
<1>7. ASSUME NEW w \in Writers, DeleteSecret(w) PROVE TreeInv'
  BY <1>7, RemoveStep
<1>8. ASSUME NEW w \in Writers, Abort(w) PROVE TreeInv'
  BY <1>8, AbortStep
<1>9. ASSUME NEW s \in Secrets, RestoreSecret(s) PROVE TreeInv'
  BY <1>9, RestoreStep
<1>10. CASE UNCHANGED vars
  BY <1>10 DEF vars, TreeInv, CallsHold, CallHolds, ChainOk, Known, Creates, Live, Rows, Alone,
               Collide, Reshapes
<1> QED
  BY <1>1, <1>2, <1>3, <1>4, <1>5, <1>6, <1>7, <1>8, <1>9, <1>10 DEF Next

\* The inductive invariant of the folder tree: parents and materialised paths agree, a path
\* names one live folder, and every call in progress can rely on what it read.
THEOREM TreeHolds == ASSUME Quiet PROVE Spec => []TreeInv
<1>1. TreeInv /\ [Next]_vars => TreeInv'
  BY TreeStep
<1> QED
  BY <1>1, TreeInit, PTL DEF Spec

\* ensureFolderPath, MoveFolder and DeleteFolder keep the path of every live folder spelled by
\* its parents, for any number of callers, names and levels and whatever is restored, while
\* moves and deletions run one at a time and no folders are created meanwhile.
THEOREM PathsFollow == ASSUME Quiet PROVE Spec => []PathsFollowParents
<1>1. TreeInv => PathsFollowParents
  BY DEF TreeInv, IsTree, Linked, LiveIn, Live, Rows, PathsFollowParents
<1> QED
  BY <1>1, TreeHolds, PTL

\* A live secret has the MRN of its folder, however deep the subtrees that moved
\* (RefreshSecretMrnPathsInSubtree) and whatever was deleted and restored, unless it was
\* deleted while its folder moved or went, or written with a lookup that this overtook;
\* under the same assumption.
THEOREM MrnsFollow == ASSUME Quiet PROVE Spec => []MrnIsCurrent
<1>1. TreeInv => MrnIsCurrent
  BY DEF TreeInv, Placed, MrnIsCurrent
<1> QED
  BY <1>1, TreeHolds, PTL

\* A live secret is in a live folder: no deletion (SoftDeleteSecretsInFolderSubtree) leaves
\* one behind, whatever was restored, with the same exceptions and under the same assumption.
THEOREM SecretsReachable == ASSUME Quiet PROVE Spec => []LiveAreReachable
<1>1. TreeInv => LiveAreReachable
  BY DEF TreeInv, Placed, LiveIn, Live, Rows, LiveAreReachable
<1> QED
  BY <1>1, TreeHolds, PTL

=============================================================================
