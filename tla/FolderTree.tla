------------------------------- MODULE FolderTree -------------------------------
(***************************************************************************)
(* The folder tree of one environment and the secrets in it: the folder    *)
(* operations of internal/store/service.go, the queries of folder.sql and  *)
(* the parts of secrets.go and secret.sql that touch folders.              *)
(*                                                                         *)
(* The tree is stored twice. parent is the source of truth, and path is    *)
(* its materialisation, which every lookup and every subtree statement     *)
(* uses; a secret stores its path once more, inside its MRN. A path is the *)
(* sequence of its names, and <<>> the root.                               *)
(*                                                                         *)
(* A call reads (its lookups, its checks and early returns) and then       *)
(* writes and commits; nothing it read is locked in between.               *)
(***************************************************************************)
EXTENDS Integers, Sequences, FiniteSets, SequencesExt

CONSTANTS
  Writers,    \* calls that may be under way at once
  Names,      \* folder names
  Keys,       \* keys of secrets
  Secrets,    \* secret identities, each created at most once
  None,       \* no key
  Quiet,      \* whether nothing else builds on a path while folders move or go
  MaxDepth,   \* bound: names in a path
  MaxFolders  \* bound: rows of `folders'

ASSUME NamesAssumption == None \notin Keys
ASSUME ModeAssumption == Quiet \in BOOLEAN
ASSUME BoundAssumption == MaxDepth \in Nat \ {0} /\ MaxFolders \in Nat \ {0}

VARIABLES
  folders,  \* the rows of `folders', by folder_id
  secrets,  \* the rows of `secrets', by identity
  work,     \* what each call has read
  lapsed    \* history: the secrets a statement on their folder passed over, see Overtaken

vars == <<folders, secrets, work, lapsed>>

Root == 1
Paths == UNION {[1..n -> Names] : n \in 0..MaxDepth}

\* The root has no parent, 0.
Folder == [parent : Nat, name : Names \cup {None}, path : Paths, live : BOOLEAN]

\* mrn is the folder's part of mrn_resource_path.
Secret == [status : {"absent", "live", "deleted"}, folder : Nat,
           key : Keys \cup {None}, mrn : Paths]

\* chain is what ensureFolderPath found at each level of path, 0 for nothing; a
\* move ensures the parent of `to'.
Work == [pc : {"idle", "create", "put", "move", "delete", "remove"}, path : Paths,
         to : Paths, chain : Seq(Nat), key : Keys \cup {None}, secret : Secrets \cup {None}]

Idle == [pc |-> "idle", path |-> <<>>, to |-> <<>>, chain |-> <<>>, key |-> None,
         secret |-> None]

Rows == DOMAIN folders
Live == {f \in Rows : folders[f].live}

\* IsAtOrUnder, and path = $1 OR path LIKE $2 in the queries.
AtOrUnder(path, top) == IsPrefix(top, path)

\* GetFolderByPath: the folder id, 0 for none.
At(p) == LET found == {f \in Live : folders[f].path = p}
         IN  IF found = {} THEN 0 ELSE CHOOSE f \in found : TRUE

Chain(p) == [i \in 1..Len(p) |-> At(SubSeq(p, 1, i))]

LiveAt(f, k) == {s \in Secrets : /\ secrets[s].status = "live"
                                 /\ secrets[s].folder = f /\ secrets[s].key = k}

\* uq_folders_environment_path and uq_folders_parent_name.
Allowed(rows) ==
  \A f, g \in DOMAIN rows :
    /\ rows[f].live /\ rows[g].live /\ f # g
    => /\ rows[f].path # rows[g].path
       /\ <<rows[f].parent, rows[f].name>> # <<rows[g].parent, rows[g].name>>

-----------------------------------------------------------------------------
Init ==
  /\ folders = [f \in {Root} |-> [parent |-> 0, name |-> None, path |-> <<>>, live |-> TRUE]]
  /\ secrets = [s \in Secrets |-> [status |-> "absent", folder |-> 0, key |-> None,
                                   mrn |-> <<>>]]
  /\ work = [w \in Writers |-> Idle]
  /\ lapsed = {}

(* ensureFolderPath: what it found, then one row per missing level.        *)

\* The folder at level i of p, found or about to be created.
Node(p, chain, i) ==
  IF i = 0 THEN Root
  ELSE IF chain[i] # 0 THEN chain[i]
  ELSE Cardinality(Rows) + Cardinality({j \in 1..i : chain[j] = 0})

Leaf(p, chain) == Node(p, chain, Len(p))

\* The table with every level of p in it; each new row hangs under the level above.
Ensured(p, chain) ==
  LET missing == {i \in 1..Len(p) : chain[i] = 0}
      new == {Node(p, chain, i) : i \in missing}
  IN  [f \in Rows \cup new |->
         IF f \in Rows THEN folders[f]
         ELSE LET i == CHOOSE i \in missing : Node(p, chain, i) = f
              IN  [parent |-> Node(p, chain, i - 1), name |-> p[i],
                   path |-> SubSeq(p, 1, i), live |-> TRUE]]

\* When Quiet, one call at a time moves or deletes folders, and none hangs new folders
\* under old ones meanwhile.
Reshapes(one) == one.pc \in {"move", "delete"}
Creates(one) == one.pc \in {"create", "put"} /\ \E i \in DOMAIN one.chain : one.chain[i] = 0
Collide(one, other) == Reshapes(one) /\ (Reshapes(other) \/ Creates(other))

Begin(w, one) ==
  /\ work[w].pc = "idle"
  /\ Quiet => \A v \in Writers : ~Collide(one, work[v]) /\ ~Collide(work[v], one)
  /\ work' = [work EXCEPT ![w] = one]
  /\ UNCHANGED <<folders, secrets, lapsed>>

Finish(w) == work' = [work EXCEPT ![w] = Idle]

\* Store the folders if the indexes allow it; otherwise the transaction rolls back.
Commit(rows, newSecrets, newLapsed) ==
  IF Allowed(rows) THEN folders' = rows /\ secrets' = newSecrets /\ lapsed' = newLapsed
  ELSE UNCHANGED <<folders, secrets, lapsed>>

(* What the statements on a subtree pass over.                             *)

\* The secrets in the live folders at or under top, deleted ones as well.
In(rows, top) ==
  {s \in Secrets : /\ secrets[s].status # "absent"
                   /\ rows[secrets[s].folder].live
                   /\ AtOrUnder(rows[secrets[s].folder].path, top)}

\* After a statement that reaches the secrets in touched and leaves them as t: it brings
\* the live ones along, and leaves the deleted ones as they were.
Overtaken(touched, t) ==
  {s \in Secrets : IF s \in touched THEN t[s].status = "deleted" ELSE s \in lapsed}

(* CreateFolder.                                                           *)
BeginCreate(w, p) ==
  Begin(w, [Idle EXCEPT !.pc = "create", !.path = p, !.chain = Chain(p)])

CreateFolder(w) ==
  LET one == work[w]
      rows == Ensured(one.path, one.chain)
  IN
  /\ one.pc = "create"
  /\ Cardinality(DOMAIN rows) <= MaxFolders
  /\ Commit(rows, secrets, lapsed)
  /\ Finish(w)

(* PutSecret, with CreateFolders or not; the versions are SecretVersions'. *)
BeginPut(w, p, k) ==
  Begin(w, [Idle EXCEPT !.pc = "put", !.path = p, !.chain = Chain(p), !.key = k])

\* Whether folder f is no longer what a lookup of path found.
Gone(f, path) == f \in Rows /\ ~(folders[f].live /\ folders[f].path = path)

\* A live secret at the address gets a version; otherwise one is created there, with
\* the path that was looked up as its MRN.
PutSecret(w) ==
  LET one == work[w]
      rows == Ensured(one.path, one.chain)
      folder == Leaf(one.path, one.chain)
  IN
  /\ one.pc = "put"
  /\ Cardinality(DOMAIN rows) <= MaxFolders
  /\ IF LiveAt(folder, one.key) # {}
     THEN Commit(rows, secrets, lapsed)
     ELSE \E s \in Secrets :
            /\ secrets[s].status = "absent"
            /\ Commit(rows, [secrets EXCEPT ![s] =
                 [status |-> "live", folder |-> folder, key |-> one.key, mrn |-> one.path]],
                 IF Gone(folder, one.path) THEN lapsed \cup {s} ELSE lapsed)
  /\ Finish(w)

(* MoveFolder.                                                             *)

\* The root stays, and nothing moves into its own subtree.
Movable(from, to) == from # <<>> /\ to # <<>> /\ ~AtOrUnder(to, from)

BeginMove(w, from) ==
  /\ At(from) # 0
  /\ \E to \in Paths :
       /\ Movable(from, to)
       /\ At(to) = 0
       /\ Begin(w, [Idle EXCEPT !.pc = "move", !.path = from, !.to = to,
                      !.chain = Append(Chain(Front(to)), At(from))])

\* Mutant: MoveFolderSubtreePaths is not called.
NodeAlone(rows, from, to) == rows

\* MoveFolderSubtreePaths: the prefix of every live path at or under `from'.
Rebased(rows, from, to) ==
  [f \in DOMAIN rows |->
     IF rows[f].live /\ AtOrUnder(rows[f].path, from)
     THEN [rows[f] EXCEPT !.path = to \o SubSeq(rows[f].path, Len(from) + 1, Len(rows[f].path))]
     ELSE rows[f]]

\* Mutant: the secrets of the moved folder itself, not those below it.
RefreshedNode(rows, top) ==
  [s \in Secrets |->
     IF secrets[s].status = "live" /\ rows[secrets[s].folder].path = top
     THEN [secrets[s] EXCEPT !.mrn = top] ELSE secrets[s]]

\* RefreshSecretMrnPathsInSubtree, live secrets only.
Refreshed(rows, top) ==
  [s \in Secrets |->
     IF secrets[s].status = "live" /\ AtOrUnder(rows[secrets[s].folder].path, top)
     THEN [secrets[s] EXCEPT !.mrn = rows[secrets[s].folder].path] ELSE secrets[s]]

\* Parents first, then ReparentFolder, the subtree and the MRNs.
MoveFolder(w) ==
  LET one == work[w]
      chain == Front(one.chain)
      node == Last(one.chain)
      up == Front(one.to)
      placed == [Ensured(up, chain) EXCEPT
                   ![node].parent = Leaf(up, chain), ![node].name = Last(one.to),
                   ![node].path = one.to]
      rows == Rebased(placed, one.path, one.to)
      t == Refreshed(rows, one.to)
  IN
  /\ one.pc = "move"
  /\ Cardinality(DOMAIN placed) <= MaxFolders
  /\ \A f \in DOMAIN rows : Len(rows[f].path) <= MaxDepth
  /\ IF folders[node].live THEN Commit(rows, t, Overtaken(In(rows, one.to), t))
     ELSE UNCHANGED <<folders, secrets, lapsed>>
  /\ Finish(w)

(* DeleteFolder.                                                           *)
BeginDelete(w, p) ==
  /\ p # <<>>
  /\ At(p) # 0
  /\ Begin(w, [Idle EXCEPT !.pc = "delete", !.path = p])

\* Mutant: the folder itself, not the folders below it.
DeletedNode(p) ==
  [s \in Secrets |->
     IF secrets[s].status = "live" /\ folders[secrets[s].folder].path = p
     THEN [secrets[s] EXCEPT !.status = "deleted"] ELSE secrets[s]]

\* SoftDeleteSecretsInFolderSubtree, in folders deleted before as well.
DeletedSecrets(p) ==
  [s \in Secrets |->
     IF secrets[s].status = "live" /\ AtOrUnder(folders[secrets[s].folder].path, p)
     THEN [secrets[s] EXCEPT !.status = "deleted"] ELSE secrets[s]]

DeleteFolder(w) ==
  LET p == work[w].path
  IN
  /\ work[w].pc = "delete"
  /\ secrets' = DeletedSecrets(p)
  /\ folders' = [f \in Rows |-> [folders[f] EXCEPT !.live = @ /\ ~AtOrUnder(folders[f].path, p)]]
  /\ lapsed' = Overtaken(In(folders, p), DeletedSecrets(p))
  /\ Finish(w)

(* DeleteSecret and RestoreSecret.                                         *)
BeginRemove(w, p, k) ==
  /\ At(p) # 0
  /\ \E s \in LiveAt(At(p), k) :
       Begin(w, [Idle EXCEPT !.pc = "remove", !.secret = s])

DeleteSecret(w) ==
  /\ work[w].pc = "remove"
  /\ secrets' = IF secrets[work[w].secret].status = "live"
                THEN [secrets EXCEPT ![work[w].secret].status = "deleted"] ELSE secrets
  /\ Finish(w)
  /\ UNCHANGED <<folders, lapsed>>

\* One statement; it looks at neither the folder nor the MRN, and the unique index
\* on addresses refuses it when a live secret has taken the place.  When the folder has
\* gone, the lookup that follows it fails and so does the call, with the secret restored.
RestoreSecret(s) ==
  /\ secrets[s].status = "deleted"
  /\ LiveAt(secrets[s].folder, secrets[s].key) = {}
  /\ secrets' = [secrets EXCEPT ![s].status = "live"]
  /\ UNCHANGED <<folders, work, lapsed>>

\* The request is cancelled or its process dies: the transaction rolls back.
Abort(w) ==
  /\ work[w].pc # "idle"
  /\ Finish(w)
  /\ UNCHANGED <<folders, secrets, lapsed>>

Next ==
  \/ \E w \in Writers :
       \/ \E p \in Paths : BeginCreate(w, p) \/ BeginMove(w, p) \/ BeginDelete(w, p)
       \/ \E p \in Paths, k \in Keys : BeginPut(w, p, k) \/ BeginRemove(w, p, k)
       \/ CreateFolder(w) \/ PutSecret(w) \/ MoveFolder(w) \/ DeleteFolder(w)
       \/ DeleteSecret(w) \/ Abort(w)
  \/ \E s \in Secrets : RestoreSecret(s)

Spec == Init /\ [][Next]_vars

-----------------------------------------------------------------------------
\* Rows and calls have their shape, folder_ids have no gaps, and a path names at most
\* one live folder, as an address names at most one live secret.
TypeOK ==
  /\ Rows = 1..Cardinality(Rows) /\ Cardinality(Rows) <= MaxFolders
  /\ folders \in [Rows -> Folder]
  /\ secrets \in [Secrets -> Secret]
  /\ work \in [Writers -> Work]
  /\ lapsed \subseteq Secrets
  /\ \A p \in Paths : Cardinality({f \in Live : folders[f].path = p}) <= 1
  /\ \A f \in Rows, k \in Keys : Cardinality(LiveAt(f, k)) <= 1

\* The materialised paths are the paths of the adjacency list: following the parents of
\* a live folder up to the root spells its path.  Creations that race for a level and
\* moves of whole subtrees keep it so.
PathsFollowParents ==
  /\ folders[Root].live /\ folders[Root].path = <<>>
  /\ \A f \in Live \ {Root} :
       /\ folders[f].parent \in Live
       /\ folders[f].path = Append(folders[folders[f].parent].path, folders[f].name)

\* The column that policies are compared with is where the secret is: no move leaves the
\* MRN of a secret anywhere below it behind (service.go:476), but of one that was deleted
\* while its folder moved or went, or was written with a lookup that a move overtook.
MrnIsCurrent ==
  \A s \in Secrets \ lapsed :
    secrets[s].status = "live" => secrets[s].mrn = folders[secrets[s].folder].path

\* A live secret can be addressed: deleting a folder takes every secret below it along,
\* and one that is live in a folder that has gone was restored after it (RestoreSecret
\* looks at no folder) or written by a call that had found the folder before.
LiveAreReachable ==
  \A s \in Secrets \ lapsed : secrets[s].status = "live" => secrets[s].folder \in Live

\* What MoveFolder's comment says of the MRN, without exceptions (service.go:476-478).  A
\* secret that was deleted when its folder moved comes back with the MRN of the old path.
MrnIsAlwaysCurrent ==
  \A s \in Secrets :
    secrets[s].status = "live" => secrets[s].mrn = folders[secrets[s].folder].path

\* What DeleteFolder's comment says of the secrets inside, that they are as recoverable as
\* one deleted by mistake (service.go:571-573): a restored secret can be addressed again.
RestoredAreReachable ==
  [][\A s \in Secrets :
       secrets[s].status = "deleted" /\ secrets'[s].status = "live"
       => secrets'[s].folder \in Live']_vars

=============================================================================
