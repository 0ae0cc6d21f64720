------------------------------- MODULE Reveals -------------------------------
(***************************************************************************)
(* A reveal, from the address that is asked for to the value that is       *)
(* returned (internal/api/secrets.go Reveal, imports.go, reference.go):     *)
(* the lookup falls through to imported folders, the grant is checked on    *)
(* the secret that is found, references in its value are expanded with a    *)
(* check at each hop, and everything read is in the audit log before        *)
(* anything is returned.  None of it is one transaction: the imports        *)
(* (module Imports) and the secrets change between any two steps.          *)
(*                                                                         *)
(* One key is modelled: each folder has at most one secret.  The lease gate *)
(* has a module of its own, ReadLeases.                                    *)
(***************************************************************************)
EXTENDS Imports

CONSTANTS
  Readers,    \* requests that reveal
  Templates,  \* what a secret may hold: the folders its references name, none for a plain value
  Grants,     \* the sets of secrets a reader may hold secret:GetSecret on
  Absent,     \* no secret
  MaxRefDepth, \* Options.ReferenceMaxDepth
  MaxLinks    \* bound: imports and secrets that refer to others, together

ASSUME TemplateAssumption == Templates \subseteq Seq(Folders) /\ Absent \notin Templates
ASSUME GrantAssumption == Grants \subseteq SUBSET Folders
ASSUME RefDepthAssumption == MaxRefDepth \in Nat \ {0} /\ MaxLinks \in Nat

VARIABLES
  value, \* what each folder holds under the key
  grant, \* the secrets each reader holds secret:GetSecret on
  read   \* the reveal each reader is in the middle of

revealVars == <<importVars, value, grant, read>>

\* walk is the import chain as far as it is known and out the folders found on it, in
\* order; found is where the lookup landed; todo are the references still to expand, each
\* with the chain of secrets that led to it; got is what has been decrypted for the
\* response and audited what the log has a row for; steady: nothing changed since the start.
Reveal == [pc : {"idle", "chain", "probe", "get", "expand", "audit", "returned", "missing"},
           start : Folders \cup {NoFolder}, walk : Walk, out : Seq(Folders),
           found : Folders \cup {NoFolder}, todo : Seq([to : Folders, chain : Seq(Folders)]),
           got : SUBSET Folders, audited : SUBSET Folders, steady : BOOLEAN]

NoRead == [pc |-> "idle", start |-> NoFolder, walk |-> NoWalk, out |-> <<>>, found |-> NoFolder,
           todo |-> <<>>, got |-> {}, audited |-> {}, steady |-> TRUE]

HoldsSecret(f) == value[f] # Absent

\* The imports and the secrets of an instance stay within its bound.
WithinBound(es, v) ==
  Len(es) + Cardinality({f \in Folders : v[f] \notin {Absent, <<>>}}) <= MaxLinks

\* Imports made earlier, by any route: there may be circles.
RevealsInit ==
  /\ live = Folders
  /\ edges \in UNION {[1..n -> Edge] : n \in 0..MaxEdges}
  /\ \A i \in DOMAIN edges : edges[i].folder # edges[i].source
  /\ \A i, j \in DOMAIN edges :
       i # j => edges[i].folder # edges[j].folder \/ edges[i].source # edges[j].source
  /\ walk = [c \in Creators |-> NoWalk]
  /\ routes = {"race", "enable"}
  /\ value \in [Folders -> Templates \cup {Absent}]
  /\ WithinBound(edges, value)
  /\ grant \in [Readers -> Grants]
  /\ read = [r \in Readers |-> NoRead]

Go(r, next) == read' = [read EXCEPT ![r] = next]

-----------------------------------------------------------------------------
(* resolveThroughImports.                                                  *)

\* The address itself is looked at first.
StartReveal(r, f) ==
  LET o == [NoRead EXCEPT !.start = f]
  IN
  /\ read[r].pc = "idle"
  /\ \/ HoldsSecret(f) /\ Go(r, [o EXCEPT !.pc = "get", !.found = f])
     \/ /\ ~HoldsSecret(f) /\ f \in live
        /\ Go(r, [o EXCEPT !.pc = "chain", !.walk.frontier = <<f>>, !.walk.seen = {f}])

\* ResolveImportChain, one folder.
Follow(r) ==
  LET o == read[r]
      w == Visited(o.walk)
      out == o.out \o Listed(Head(o.walk.frontier), o.walk.seen)
      over == w.frontier = <<>> \/ w.depth >= MaxDepth
  IN
  /\ o.pc = "chain"
  /\ Go(r, IF over
           THEN [o EXCEPT !.pc = IF out = <<>> THEN "missing" ELSE "probe", !.walk = NoWalk, !.out = out]
           ELSE [o EXCEPT !.walk = w, !.out = out])

\* The first folder of the chain that has the key.
Probe(r) ==
  LET o == read[r]
      f == Head(o.out)
  IN
  /\ o.pc = "probe"
  /\ Go(r, IF HoldsSecret(f) THEN [o EXCEPT !.pc = "get", !.out = <<>>, !.found = f]
           ELSE IF Len(o.out) = 1 THEN [o EXCEPT !.pc = "missing", !.out = <<>>]
           ELSE [o EXCEPT !.out = Tail(@)])

-----------------------------------------------------------------------------
(* The rest of Reveal.                                                     *)

\* Mutant: the grant is checked on the address that was asked for.
MayReadStart(r, f) == read[r].start \in grant[r]

\* guard(secret:GetSecret) on the MRN of the secret that is decrypted.
MayRead(r, f) == f \in grant[r]

Hops(f, chain) == [k \in DOMAIN value[f] |-> [to |-> value[f][k], chain |-> Append(chain, f)]]

\* The secret is read by its address; a reference is expanded before the row is written.
Get(r) ==
  LET o == read[r]
      f == o.found
      todo == Hops(f, <<>>)
  IN
  /\ o.pc = "get"
  /\ MayRead(r, f) /\ HoldsSecret(f)
  /\ Go(r, [o EXCEPT !.pc = IF todo = <<>> THEN "audit" ELSE "expand", !.todo = todo, !.got = {f}])

\* Mutant: the chain is not handed down, each level knows only the one above.
HopForgetsChain(r) ==
  LET o == read[r]
      hop == Head(o.todo)
      todo == Hops(hop.to, <<>>) \o Tail(o.todo)
  IN
  /\ o.pc = "expand"
  /\ hop.to \notin Range(hop.chain) /\ MayRead(r, hop.to) /\ HoldsSecret(hop.to)
  /\ value[hop.to] # <<>> => Len(hop.chain) < MaxRefDepth
  /\ Go(r, [o EXCEPT !.pc = IF todo = <<>> THEN "audit" ELSE "expand", !.todo = todo,
                     !.got = @ \cup {hop.to}, !.audited = @ \cup {hop.to}])

\* resolveOneReference: the cycle check, the guard, the read and its row; what the value
\* refers to in its turn comes before the references that are left.
Hop(r) ==
  LET o == read[r]
      hop == Head(o.todo)
      todo == Hops(hop.to, hop.chain) \o Tail(o.todo)
  IN
  /\ o.pc = "expand"
  /\ hop.to \notin Range(hop.chain) /\ MayRead(r, hop.to) /\ HoldsSecret(hop.to)
  /\ value[hop.to] # <<>> => Len(hop.chain) < MaxRefDepth
  /\ Go(r, [o EXCEPT !.pc = IF todo = <<>> THEN "audit" ELSE "expand", !.todo = todo,
                     !.got = @ \cup {hop.to}, !.audited = @ \cup {hop.to}])

\* The row of the reveal itself, naming the secret that was found.
Audit(r) ==
  /\ read[r].pc = "audit"
  /\ Go(r, [read[r] EXCEPT !.pc = "returned", !.audited = @ \cup {read[r].found}])

\* An error, a denial, a failed audit row, or the end of the request.
Finish(r) ==
  /\ read[r].pc # "idle"
  /\ Go(r, NoRead)

Resolving(r) == Follow(r) \/ Probe(r) \/ Get(r) \/ Hop(r) \/ Audit(r)

RevealStep(r) ==
  /\ Resolving(r) \/ Finish(r)
  /\ UNCHANGED <<importVars, value, grant>>

Begins(r) ==
  /\ \E f \in Folders : StartReveal(r, f)
  /\ UNCHANGED <<importVars, value, grant>>

-----------------------------------------------------------------------------
Unsteady == [r \in Readers |-> [read[r] EXCEPT !.steady = read[r].pc = "idle"]]

\* A secret is written or deleted.
SetSecret(f, t) ==
  /\ f \in live /\ value[f] # t
  /\ value' = [value EXCEPT ![f] = t]
  /\ WithinBound(edges, value')
  /\ read' = Unsteady
  /\ UNCHANGED <<importVars, grant>>

\* The imports change; a folder takes its secrets with it.
ImportStep ==
  /\ ImportsNext
  /\ value' = [f \in Folders |-> IF f \in live' THEN value[f] ELSE Absent]
  /\ WithinBound(edges', value')
  /\ read' = IF live' = live /\ edges' = edges THEN read ELSE Unsteady
  /\ UNCHANGED grant

RevealsNext ==
  \/ \E r \in Readers : Begins(r) \/ RevealStep(r)
  \/ \E f \in Folders, t \in Templates \cup {Absent} : SetSecret(f, t)
  \/ ImportStep

\* A request that was begun runs on.
RevealsSpec ==
  RevealsInit /\ [][RevealsNext]_revealVars /\ \A r \in Readers : WF_revealVars(RevealStep(r))

-----------------------------------------------------------------------------
\* Every variable has its type.
RevealsTypeOK ==
  /\ ImportsTypeOK
  /\ value \in [Folders -> Templates \cup {Absent}]
  /\ grant \in [Readers -> Grants]
  /\ read \in [Readers -> Reveal]

\* Nothing is returned that the reader holds no grant on or that the log does not name,
\* whichever folder the value came from and whatever it refers to: an import into a folder
\* one controls, or a reference in it, is no way to read another (api/imports.go:23).
ReturnedIsGrantedAndLogged ==
  \A r \in Readers :
    read[r].pc = "returned" => read[r].got \subseteq grant[r] \cap read[r].audited

\* The folder's own value wins, then the direct imports in order of position, then what
\* they import, each folder once and no further than maxImportDepth; and nothing is
\* reported missing that is there.  While the lookup runs nothing changes.
NearestHolderWins ==
  \A r \in Readers :
    LET o == read[r]
        f == o.found
        direct == {i \in DOMAIN edges : edges[i].folder = o.start /\ Followed(i)
                                        /\ HoldsSecret(edges[i].source)}
        near(n) == {g \in Within(o.start, n) : HoldsSecret(g)}
    IN
    o.pc # "idle" /\ o.steady =>
      /\ f # NoFolder =>
           /\ \E n \in 0..MaxDepth : f \in near(n) /\ \A k \in 0..(n - 1) : near(k) = {}
           /\ ~HoldsSecret(o.start) /\ direct # {} =>
                \E i \in direct : /\ edges[i].source = f
                                  /\ \A j \in direct : edges[i].position <= edges[j].position
      /\ o.pc = "missing" => near(MaxDepth) = {}

\* Folders that import each other in a circle, secrets that refer to each other in a circle
\* and both changing all the time: every reveal comes to its end.
RevealsEnd == \A r \in Readers : read[r].pc # "idle" ~> read[r].pc = "idle"

=============================================================================
