------------------------------- MODULE Transit -------------------------------
(***************************************************************************)
(* Transit keys: encryption as a service (internal/store/transit.go,        *)
(* transit.sql, internal/transit).                                         *)
(*                                                                         *)
(* A key has versions; a token carries the name of its key and the version  *)
(* that sealed it.  Rotation runs in one transaction under a row lock;      *)
(* updates, deletions, encryption and decryption read the key in one        *)
(* statement and act on what they read in a later one.  Names are used      *)
(* again once their key is deleted.                                        *)
(*                                                                         *)
(* Material is a number drawn for one version and never for another.  The   *)
(* root key it is wrapped under is the subject of RootKeys.                 *)
(***************************************************************************)
EXTENDS Naturals, Sequences, FiniteSets

CONSTANTS
  Clients,    \* requests under way at a time
  Names,      \* names of keys in one project
  NoKey,      \* no key, no token
  MaxKeys,    \* bound: keys ever created
  MaxVersion, \* bound: versions of a key
  MaxTokens   \* bound: tokens issued

ASSUME BoundAssumption ==
  MaxKeys \in Nat /\ MaxVersion \in Nat \ {0} /\ MaxTokens \in Nat

ASSUME NoKeyAssumption == NoKey \notin Nat

VARIABLES
  keys,     \* the rows of transit_keys, in the order of key_id
  versions, \* the rows of transit_key_versions
  tokens,   \* what callers have been given
  op        \* what each client is in the middle of

transitVars == <<keys, versions, tokens, op>>

Key == [name : Names, current : 0..MaxVersion, floor : 1..MaxVersion,
        active : BOOLEAN, deleted : BOOLEAN]

KeyVersion == [key : 1..MaxKeys, version : 1..MaxVersion, material : Nat]

\* name and version are in the token, key and material are what sealed it.
Token == [name : Names, version : 1..MaxVersion, key : 1..MaxKeys, material : Nat]

\* current, floor and active are the columns as they were read, or as they will be
\* written; asked: the caller named a floor; overtaken: another update of the key was
\* written since this one read it.
Op == [pc : {"idle", "rotate", "update", "delete", "seal", "open", "opened"},
       key : (1..MaxKeys) \cup {NoKey}, current : 0..MaxVersion, floor : 0..MaxVersion,
       active : BOOLEAN, asked : BOOLEAN, overtaken : BOOLEAN, token : Token \cup {NoKey}]

NoCall == [pc |-> "idle", key |-> NoKey, current |-> 0, floor |-> 0, active |-> FALSE,
           asked |-> FALSE, overtaken |-> FALSE, token |-> NoKey]

TransitInit ==
  /\ keys = <<>>
  /\ versions = {}
  /\ tokens = {}
  /\ op = [c \in Clients |-> NoCall]

\* GetTransitKeyByName: at most one by uq_transit_keys_project_name.
Live(n) == {k \in DOMAIN keys : keys[k].name = n /\ ~keys[k].deleted}

\* A transaction holds the row.
Locked(k) == \E c \in Clients : op[c].pc = "rotate" /\ op[c].key = k

Sealed(k, v) == [key |-> k, version |-> v, material |-> Cardinality(versions) + 1]

Begin(c, o) == op[c].pc = "idle" /\ op' = [op EXCEPT ![c] = o]

-----------------------------------------------------------------------------
(* The control plane.                                                      *)

\* CreateTransitKey: the key, its first version and its publication commit together.
Create(c, n) ==
  /\ op[c].pc = "idle" /\ Live(n) = {} /\ Len(keys) < MaxKeys
  /\ keys' = Append(keys, [name |-> n, current |-> 1, floor |-> 1, active |-> TRUE,
                           deleted |-> FALSE])
  /\ versions' = versions \cup {Sealed(Len(keys) + 1, 1)}
  /\ UNCHANGED <<tokens, op>>

\* Mutant: GetTransitKeyByName, which takes no lock.
RotateUnlocked(c, n) ==
  \E k \in Live(n) :
    /\ keys[k].current < MaxVersion
    /\ Begin(c, [NoCall EXCEPT !.pc = "rotate", !.key = k, !.current = keys[k].current])
    /\ UNCHANGED <<keys, versions, tokens>>

\* RotateTransitKey up to GetTransitKeyByNameForUpdate.
Rotate(c, n) ==
  \E k \in Live(n) :
    /\ ~Locked(k) /\ keys[k].current < MaxVersion
    /\ Begin(c, [NoCall EXCEPT !.pc = "rotate", !.key = k, !.current = keys[k].current])
    /\ UNCHANGED <<keys, versions, tokens>>

Taken(k, v) == \E r \in versions : r.key = k /\ r.version = v

\* The new version is sealed and published; when either statement refuses, nothing is.
Publish(c) ==
  LET k == op[c].key
      next == op[c].current + 1
      accepted == ~Taken(k, next) /\ keys[k].current < next
  IN
  /\ op[c].pc = "rotate"
  /\ versions' = IF accepted THEN versions \cup {Sealed(k, next)} ELSE versions
  /\ keys' = IF accepted THEN [keys EXCEPT ![k].current = next] ELSE keys
  /\ op' = [op EXCEPT ![c] = NoCall]
  /\ UNCHANGED tokens

\* Mutant: off by one, as if the floor named the first version to be refused.
FloorAllowedNext(k, floor) == floor <= keys[k].current + 1

\* A floor that would refuse every token is refused.
FloorAllowed(k, floor) == floor <= keys[k].current

\* Mutant: a floor that is not named is the first version.
FloorReset(k, floor) == IF floor = 0 THEN 1 ELSE floor

\* Zero leaves the floor as it was read.
FloorToWrite(k, floor) == IF floor = 0 THEN keys[k].floor ELSE floor

\* UpdateTransitKey: the row is read and the request checked against it; leaving the
\* status out keeps what was read.
ReadForUpdate(c, n, floor, status) ==
  \E k \in Live(n) :
    /\ FloorAllowed(k, FloorToWrite(k, floor))
    /\ Begin(c, [NoCall EXCEPT !.pc = "update", !.key = k, !.asked = floor # 0,
                               !.floor = FloorToWrite(k, floor),
                               !.active = IF status = "" THEN keys[k].active ELSE status = "active"])
    /\ UNCHANGED <<keys, versions, tokens>>

\* The write finds the row by its UUID; a row a rotation holds is waited for, a deleted
\* one is not found.
Update(c) ==
  LET k == op[c].key
  IN
  /\ op[c].pc = "update" /\ ~Locked(k)
  /\ keys' = IF keys[k].deleted THEN keys
             ELSE [keys EXCEPT ![k].floor = op[c].floor, ![k].active = op[c].active]
  /\ op' = [d \in Clients |->
              IF d = c THEN NoCall
              ELSE [op[d] EXCEPT !.overtaken = @ \/ (op[d].pc = "update" /\ op[d].key = k)]]
  /\ UNCHANGED <<versions, tokens>>

ReadForDelete(c, n) ==
  \E k \in Live(n) :
    /\ Begin(c, [NoCall EXCEPT !.pc = "delete", !.key = k])
    /\ UNCHANGED <<keys, versions, tokens>>

\* DeleteTransitKey: the versions stay.
Delete(c) ==
  LET k == op[c].key
  IN
  /\ op[c].pc = "delete" /\ ~Locked(k)
  /\ keys' = [keys EXCEPT ![k].deleted = TRUE]
  /\ op' = [op EXCEPT ![c] = NoCall]
  /\ UNCHANGED <<versions, tokens>>

-----------------------------------------------------------------------------
(* The data plane.                                                         *)

\* TransitEncrypt, the key: an active one, and the version that is current.
ReadForEncrypt(c, n) ==
  \E k \in Live(n) :
    /\ keys[k].active
    /\ Begin(c, [NoCall EXCEPT !.pc = "seal", !.key = k, !.current = keys[k].current])
    /\ UNCHANGED <<keys, versions, tokens>>

\* openTransitMaterial and transit.Seal.
Encrypt(c) ==
  /\ op[c].pc = "seal" /\ Cardinality(tokens) < MaxTokens
  /\ \E r \in versions :
       /\ r.key = op[c].key /\ r.version = op[c].current
       /\ tokens' = tokens \cup {[name |-> keys[r.key].name, version |-> r.version,
                                  key |-> r.key, material |-> r.material]}
  /\ op' = [op EXCEPT ![c] = NoCall]
  /\ UNCHANGED <<keys, versions>>

\* TransitDecrypt, the key the token names; a disabled one still decrypts.
ReadForDecrypt(c, t) ==
  \E k \in Live(t.name) :
    /\ t.version >= keys[k].floor
    /\ Begin(c, [NoCall EXCEPT !.pc = "open", !.key = k, !.token = t])
    /\ UNCHANGED <<keys, versions, tokens>>

\* openTransitMaterial and transit.Open: what the row of the key that was found holds is
\* what has to have sealed the token.
Decrypt(c) ==
  LET t == op[c].token
  IN
  /\ op[c].pc = "open"
  /\ op' = [op EXCEPT ![c] =
              IF \E r \in versions : /\ r.key = op[c].key /\ r.version = t.version
                                     /\ r.material = t.material
              THEN [@ EXCEPT !.pc = "opened"] ELSE NoCall]
  /\ UNCHANGED <<keys, versions, tokens>>

\* Any request for a name no key has is refused.
NotFound(c, n) ==
  /\ op[c].pc = "idle" /\ Live(n) = {}
  /\ UNCHANGED transitVars

\* The answer is given, or the request ends early and its transaction is rolled back.
Finish(c) ==
  /\ op[c].pc # "idle"
  /\ op' = [op EXCEPT ![c] = NoCall]
  /\ UNCHANGED <<keys, versions, tokens>>

TransitNext ==
  \E c \in Clients :
    \/ \E n \in Names :
         \/ Create(c, n) \/ Rotate(c, n) \/ ReadForDelete(c, n) \/ ReadForEncrypt(c, n)
         \/ NotFound(c, n)
         \/ \E floor \in 0..MaxVersion, status \in {"", "active", "disabled"} :
              ReadForUpdate(c, n, floor, status)
    \/ Publish(c) \/ Update(c) \/ Delete(c) \/ Encrypt(c) \/ Decrypt(c) \/ Finish(c)
    \/ \E t \in tokens : ReadForDecrypt(c, t)

TransitSpec == TransitInit /\ [][TransitNext]_transitVars

-----------------------------------------------------------------------------
\* Every variable has its type, and a name has one live key.
TransitTypeOK ==
  /\ keys \in Seq(Key) /\ Len(keys) <= MaxKeys
  /\ versions \subseteq KeyVersion
  /\ tokens \subseteq Token
  /\ op \in [Clients -> Op]
  /\ \A j, k \in DOMAIN keys :
       ~keys[j].deleted /\ ~keys[k].deleted /\ keys[j].name = keys[k].name => j = k

Opens(t) ==
  \E k \in Live(t.name) :
    /\ t.version >= keys[k].floor
    /\ \E r \in versions : r.key = k /\ r.version = t.version /\ r.material = t.material

\* However a key is rotated, updated, deleted and made again while tokens are being sealed:
\* a token of a key that is there opens, unless the floor was raised above its version, and
\* one of the current version opens whatever the floor is ("a floor above the current
\* version refuses every token", transit.go:322).
TokensKeepOpening ==
  \A t \in tokens :
    /\ ~keys[t.key].deleted =>
         (Opens(t) <=> keys[t.key].floor <= t.version)
    /\ ~keys[t.key].deleted /\ t.version = keys[t.key].current => Opens(t)
    /\ keys[t.key].deleted => ~Opens(t)

\* A rotation that was begun is never refused because another one took its number
\* (transit.go:142), whatever else is going on with the key.
RotationsNumberApart ==
  \A c \in Clients :
    op[c].pc = "rotate" =>
      /\ ~Taken(op[c].key, op[c].current + 1)
      /\ ~keys[op[c].key].deleted

\* The floor retires compromised material.  It comes down only when a caller asks for it,
\* or when an update that says nothing of the floor had read the key before another update
\* was written ("zero leaves the floor unchanged", transit.go:298, fails that way).
FloorFallsOnRequest ==
  [][\A k \in DOMAIN keys :
       keys'[k].floor < keys[k].floor =>
         \E c \in Clients :
           op[c].pc = "update" /\ op[c].key = k /\ (op[c].asked \/ op[c].overtaken)]_transitVars

-----------------------------------------------------------------------------
\* A claim of the documentation that the code refutes.
\* transit.go:298: an update that names no floor leaves the floor as it is.
UnaskedFloorStays ==
  [][\A k \in DOMAIN keys :
       keys'[k].floor < keys[k].floor =>
         \E c \in Clients : op[c].pc = "update" /\ op[c].key = k /\ op[c].asked]_transitVars

=============================================================================
