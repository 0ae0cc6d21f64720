------------------------------- MODULE Imports -------------------------------
(***************************************************************************)
(* Scope imports: one folder inherits another's secrets                    *)
(* (internal/store/imports.go, scope_import.sql).                          *)
(*                                                                         *)
(* Creating an import walks the source's own imports, one statement a      *)
(* folder, and inserts the edge. All of it is one transaction, but under   *)
(* READ COMMITTED each statement sees what other transactions have         *)
(* committed in the meantime.                                              *)
(***************************************************************************)
EXTENDS Naturals, Sequences, FiniteSets, SequencesExt

CONSTANTS
  Folders,   \* the tenant's folders, in whatever project and environment
  Creators,  \* requests that create an import
  NoFolder,  \* no folder
  MaxDepth,  \* maxImportDepth
  Positions, \* positions an operator may give an import
  MaxEdges,  \* bound: imports at a time
  MaxGone    \* bound: deleted folders

ASSUME FolderAssumption == NoFolder \notin Folders /\ IsFiniteSet(Folders)
ASSUME DepthAssumption == MaxDepth \in Nat \ {0} /\ Positions \subseteq Nat
ASSUME EdgeAssumption == MaxEdges \in Nat /\ MaxGone \in Nat

VARIABLES
  live,   \* the folders that are not deleted, nor their environment
  edges,  \* the rows of scope_imports that are not deleted, in the order of import_id
  walk,   \* the import each creator is in the middle of
  routes  \* how a cycle may have come about

importVars == <<live, edges, walk, routes>>

Edge == [folder : Folders, source : Folders, position : Positions, enabled : BOOLEAN]

\* seen is visited, frontier and next are the levels of the walk; raced: another import
\* was inserted since this one began.
Walk == [pc : {"idle", "walk", "insert"}, target : Folders \cup {NoFolder},
         source : Folders \cup {NoFolder}, frontier : Seq(Folders), next : Seq(Folders),
         seen : SUBSET Folders, depth : Nat, raced : BOOLEAN]

NoWalk == [pc |-> "idle", target |-> NoFolder, source |-> NoFolder, frontier |-> <<>>,
           next |-> <<>>, seen |-> {}, depth |-> 0, raced |-> FALSE]

-----------------------------------------------------------------------------
(* The graph.                                                              *)

\* What resolution follows: enabled, and its source is there.
Followed(i) == edges[i].enabled /\ edges[i].source \in live

\* The imports that resolution follows from a folder, and the folders it comes to.
ImportsOf(f) == {i \in DOMAIN edges : edges[i].folder = f /\ Followed(i)}
Sources(f) == {edges[i].source : i \in ImportsOf(f)}

Before(i, j) == \/ edges[i].position < edges[j].position
                \/ edges[i].position = edges[j].position /\ i < j

\* Mutant: in the order in which the imports were made.
ListedById(f, seen) ==
  LET ids == CHOOSE s \in SetToSeqs({i \in ImportsOf(f) : edges[i].source \notin seen}) :
               \A k, l \in DOMAIN s : k < l => s[k] < s[l]
  IN  [k \in DOMAIN ids |-> edges[ids[k]].source]

\* ListScopeImportsByTarget: in precedence order, without those the walk has seen.
Listed(f, seen) ==
  LET ids == CHOOSE s \in SetToSeqs({i \in ImportsOf(f) : edges[i].source \notin seen}) :
               \A k, l \in DOMAIN s : k < l => Before(s[k], s[l])
  IN  [k \in DOMAIN ids |-> edges[ids[k]].source]

\* One statement of a breadth-first walk: the sources of the first folder of the
\* frontier are read, those not seen before join the next level.
Visited(w) ==
  LET new == Listed(Head(w.frontier), w.seen)
      level == w.next \o new
      over == Len(w.frontier) = 1
  IN  [w EXCEPT !.seen = @ \cup Range(new),
                !.frontier = IF over THEN level ELSE Tail(@),
                !.next = IF over THEN <<>> ELSE level,
                !.depth = IF over THEN @ + 1 ELSE @]

-----------------------------------------------------------------------------
ImportsInit ==
  /\ live = Folders
  /\ edges = <<>>
  /\ walk = [c \in Creators |-> NoWalk]
  /\ routes = {}

(* CreateImport.                                                           *)

\* Both folders are resolved; a folder may not import itself.
Begin(c, t, s) ==
  /\ walk[c].pc = "idle"
  /\ t \in live /\ s \in live /\ t # s
  /\ walk' = [walk EXCEPT ![c] = [NoWalk EXCEPT !.pc = "walk", !.target = t, !.source = s,
                                                !.frontier = <<s>>]]
  /\ UNCHANGED <<live, edges, routes>>

\* The loop of assertNoImportCycle is over.
WalkOver(w) == w.frontier = <<>> \/ w.depth > MaxDepth

\* Mutant: a walk that was cut short has found no cycle.
CutShortIsClear(w) == FALSE

\* More is behind the source than resolution follows.
TooDeep(w) == 1 + Cardinality(w.seen) > MaxDepth

\* assertNoImportCycle, one folder: the target among its sources is a cycle; at the end a
\* source with too much behind it is refused, which also covers what the walk left out.
WalkStep(c) ==
  LET w == Visited(walk[c])
  IN
  /\ walk[c].pc = "walk"
  /\ \/ /\ walk[c].target \in Sources(Head(walk[c].frontier))
        /\ walk' = [walk EXCEPT ![c] = NoWalk]
     \/ /\ walk[c].target \notin Sources(Head(walk[c].frontier))
        /\ ~WalkOver(w)
        /\ walk' = [walk EXCEPT ![c] = w]
     \/ /\ walk[c].target \notin Sources(Head(walk[c].frontier))
        /\ WalkOver(w)
        /\ walk' = [walk EXCEPT ![c] =
                      IF TooDeep(w)
                      THEN NoWalk
                      ELSE [NoWalk EXCEPT !.pc = "insert", !.target = w.target,
                                          !.source = w.source, !.raced = w.raced]]
  /\ UNCHANGED <<live, edges, routes>>

\* CreateScopeImport and the commit, or the unique index refuses a second edge.
Insert(c, p) ==
  LET w == walk[c]
      taken == \E i \in DOMAIN edges : edges[i].folder = w.target /\ edges[i].source = w.source
  IN
  /\ w.pc = "insert"
  /\ \/ /\ taken
        /\ walk' = [walk EXCEPT ![c] = NoWalk]
        /\ UNCHANGED <<edges, routes>>
     \/ /\ ~taken /\ Len(edges) < MaxEdges
        /\ edges' = Append(edges, [folder |-> w.target, source |-> w.source,
                                   position |-> p, enabled |-> TRUE])
        /\ walk' = [d \in Creators |->
                      IF d = c \/ walk[d].pc \notin {"walk", "insert"}
                      THEN IF d = c THEN NoWalk ELSE walk[d]
                      ELSE [walk[d] EXCEPT !.raced = TRUE]]
        /\ routes' = IF w.raced THEN routes \cup {"race"} ELSE routes
  /\ UNCHANGED live

\* The caller has gone away: nothing was written.
Abort(c) ==
  /\ walk[c].pc # "idle"
  /\ walk' = [walk EXCEPT ![c] = NoWalk]
  /\ UNCHANGED <<live, edges, routes>>

\* SetImportEnabled writes both columns and looks at nothing else.
SetImportEnabled(i, enabled, p) ==
  /\ edges' = [edges EXCEPT ![i].enabled = enabled, ![i].position = p]
  /\ routes' = IF enabled /\ ~edges[i].enabled THEN routes \cup {"enable"} ELSE routes
  /\ UNCHANGED <<live, walk>>

DeleteImport(i) ==
  /\ edges' = RemoveAt(edges, i)
  /\ UNCHANGED <<live, walk, routes>>

\* DeleteFolder, or its environment: the rows of scope_imports stay.
DeleteFolder(f) ==
  /\ f \in live /\ Cardinality(Folders \ live) < MaxGone
  /\ live' = live \ {f}
  /\ UNCHANGED <<edges, walk, routes>>

Create(c) ==
  \/ \E t, s \in Folders : Begin(c, t, s)
  \/ WalkStep(c)
  \/ \E p \in Positions : Insert(c, p)
  \/ Abort(c)

ChangeGraph ==
  \/ \E i \in DOMAIN edges :
       \/ \E b \in BOOLEAN, p \in Positions : SetImportEnabled(i, b, p)
       \/ DeleteImport(i)
  \/ \E f \in Folders : DeleteFolder(f)

ImportsNext == (\E c \in Creators : Create(c)) \/ ChangeGraph

ImportsSpec == ImportsInit /\ [][ImportsNext]_importVars

-----------------------------------------------------------------------------
\* Every variable has its type, and an edge is there once.
ImportsTypeOK ==
  /\ live \subseteq Folders
  /\ edges \in Seq(Edge) /\ Len(edges) <= MaxEdges
  /\ walk \in [Creators -> Walk]
  /\ routes \subseteq {"race", "enable"}
  /\ \A i, j \in DOMAIN edges :
       i # j => edges[i].folder # edges[j].folder \/ edges[i].source # edges[j].source

\* The folders at most n imports away from f.
Within(f, n) ==
  LET near[k \in 0..n] ==
        IF k = 0 THEN {f} ELSE near[k - 1] \cup UNION {Sources(g) : g \in near[k - 1]}
  IN  near[n]

Acyclic == \A f \in live : f \notin UNION {Within(g, Cardinality(Folders)) : g \in Sources(f)}

\* A chain of imports never comes back to where it started, however long it is, whatever
\* is deleted and reordered while an import is being checked and however far the check
\* walks (assertNoImportCycle stops at maxImportDepth), but for the two gaps that are
\* there: an edge that is switched off is not looked at and may be switched on again, and
\* two imports may be checked at the same time.
CyclesNeedARoute == routes = {} => Acyclic

-----------------------------------------------------------------------------
\* A claim of the documentation that the code refutes.
\* imports.go:67-72: the check runs in the transaction of the insert, so a concurrent pair
\* of inserts cannot each pass it against a graph without the other.  As long as nothing is
\* switched on again there would be no circle.
NoCircleByCreation == "enable" \notin routes => Acyclic

=============================================================================
