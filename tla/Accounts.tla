------------------------------- MODULE Accounts -------------------------------
(***************************************************************************)
(* Admin users and S3 access keys: createUser, updateUser, deleteUser,      *)
(* createAccessKey, updateAccessKey, rotateAccessKey and deleteAccessKey    *)
(* (internal/admin/service.go), the lookup of a key when an S3 request is   *)
(* verified (main.go, internal/auth/sigv4.go) and the tables behind them    *)
(* (internal/meta/memory.go).                                               *)
(*                                                                         *)
(* A repository method runs under the lock and is one action; a handler     *)
(* that reads a record, waits for the body of the request and writes the    *)
(* whole record back is a request that carries a copy in between.           *)
(*                                                                         *)
(* A draw stands for the random values taken at one time: the id of a row,  *)
(* an access-key id and a secret.  A row is named by the draw that created  *)
(* it; a rotation gives it the id and secret of another.                    *)
(*                                                                         *)
(* home, revoked, removed, strays and the flags stale and orphan are        *)
(* history: no handler reads them.                                          *)
(***************************************************************************)
EXTENDS Users

CONSTANTS
    Draws,
    DevDraw,     \* the row, id and secret of the configured development key
    Requests

VARIABLES
    keys,      \* keys[d]: the access key in row d
    areq,      \* areq[r]: request r and the record it carries
    home,      \* history: the row a draw was made for, None while it is not made
    revoked,   \* history: ids that were taken out while no request carried them
    removed,   \* history: rows that were taken out while no request carried them
    strays     \* history: rows whose owner was deleted while they were written

accountVars == <<users, keys, areq, home, revoked, removed, strays>>

AccessKey == [id : Draws, secret : Draws, owner : Emails, status : Statuses,
              used : BOOLEAN]

ASSUME AccountsAssumption == DevDraw \in Draws

ASSUME AccountsSentinelAssumption == None \notin AccessKey \cup Draws

KeyExists(d) == keys[d] # None

(***************************************************************************)
(* Requests                                                                *)
(***************************************************************************)

\* user: the user as it was read.
UserRequest == [pc : {"saveUser"}, email : Emails, user : User, stale : BOOLEAN]

\* owner: a user that was found.
CreateRequest == [pc : {"createKey"}, owner : Emails, orphan : BOOLEAN]

\* key: the key as it was read, from saveKey on with the owner it will have.
KeyRequest == [pc : {"findOwner", "saveKey", "rotate"}, row : Draws, key : AccessKey,
               stale : BOOLEAN, orphan : BOOLEAN]

LookupRequest == [pc : {"touch"}, id : Draws]

NoRequest == [pc |-> "idle"]

AccountRequests == UserRequest \cup CreateRequest \cup KeyRequest \cup LookupRequest \cup {NoRequest}

Idle(r) == areq[r].pc = "idle"
Carries(r, d) == areq[r].pc \in {"findOwner", "saveKey", "rotate"} /\ areq[r].row = d
CarriesId(r, d) == areq[r].pc \in {"findOwner", "saveKey"} /\ areq[r].key.id = d
CarriesUser(r, e) == areq[r].pc = "saveUser" /\ areq[r].email = e

\* The owner with which r will write a key.
WritesOwner(r, e) ==
    \/ areq[r].pc = "createKey" /\ areq[r].owner = e
    \/ areq[r].pc \in {"saveKey", "rotate"} /\ areq[r].key.owner = e

Finish(r) == areq' = [areq EXCEPT ![r] = NoRequest]

\* History: every other request that carries a record of a set of rows.
FinishStaling(r, rows) ==
    areq' = [q \in Requests |->
        IF q = r THEN NoRequest
        ELSE IF \E d \in rows : Carries(q, d) THEN [areq[q] EXCEPT !.stale = TRUE]
        ELSE areq[q]]

FinishStalingUser(r, e) ==
    areq' = [q \in Requests |->
        IF q = r THEN NoRequest
        ELSE IF CarriesUser(q, e) THEN [areq[q] EXCEPT !.stale = TRUE]
        ELSE areq[q]]

UserStep == UNCHANGED <<keys, home, revoked, removed, strays>>

(***************************************************************************)
(* Initial state: what SeedRootAdmin and SeedDevAccessKey put into the      *)
(* empty tables before the servers start.                                   *)
(***************************************************************************)

SeededKeys ==
    [d \in Draws |-> IF d = DevDraw
                     THEN [id |-> d, secret |-> d, owner |-> Root, status |-> "Active",
                           used |-> FALSE]
                     ELSE None]

AccountsInit ==
    /\ users = SeededUsers
    /\ keys = SeededKeys
    /\ areq = [r \in Requests |-> NoRequest]
    /\ home = [d \in Draws |-> IF d = DevDraw THEN d ELSE None]
    /\ revoked = {}
    /\ removed = {}
    /\ strays = {}

(***************************************************************************)
(* Users                                                                   *)
(***************************************************************************)

\* createUser decodes its request before its one call.
CreateUser(r, e, profile, password) ==
    /\ Idle(r)
    /\ UpsertAdminUser(e, [profile |-> profile, password |-> password])
    /\ FinishStalingUser(r, e)
    /\ UserStep

ReadUser(r, e) ==
    /\ Idle(r)
    /\ UserExists(e)
    /\ areq' = [areq EXCEPT ![r] =
                  [pc |-> "saveUser", email |-> e, user |-> users[e], stale |-> FALSE]]
    /\ UNCHANGED users /\ UserStep

\* Mutant: what the request says of the password is stored, if anything or not.
SaveUserAsSent(r, profile, password) ==
    /\ areq[r].pc = "saveUser"
    /\ UpsertAdminUser(areq[r].email, [profile |-> profile, password |-> password])
    /\ FinishStalingUser(r, areq[r].email)
    /\ UserStep

\* Without a password in the request the one that was read is written back.
SaveUser(r, profile, password) ==
    /\ areq[r].pc = "saveUser"
    /\ UpsertAdminUser(areq[r].email,
         [profile |-> profile,
          password |-> IF password = None THEN areq[r].user.password ELSE password])
    /\ FinishStalingUser(r, areq[r].email)
    /\ UserStep

KeysOf(e) == {d \in Draws : KeyExists(d) /\ keys[d].owner = e}

\* History: the ids and the rows that nothing but the table held.
RevokeIds(r, rows) ==
    revoked' = revoked \cup
        {i \in {keys[d].id : d \in rows} : \A q \in Requests \ {r} : ~CarriesId(q, i)}

RemoveRows(r, rows) ==
    removed' = removed \cup {d \in rows : \A q \in Requests \ {r} : ~Carries(q, d)}

\* Mutant: the keys of the user stay.
DeleteUserOnly(r, e) ==
    /\ Idle(r)
    /\ RemoveAdminUser(e)
    /\ FinishStalingUser(r, e)
    /\ UserStep

\* The user and every key it owns, under one lock.
DeleteUser(r, e) ==
    /\ Idle(r)
    /\ RemoveAdminUser(e)
    /\ keys' = [d \in Draws |-> IF d \in KeysOf(e) THEN None ELSE keys[d]]
    /\ RevokeIds(r, KeysOf(e))
    /\ RemoveRows(r, KeysOf(e))
    /\ areq' = [q \in Requests |->
         IF q = r THEN NoRequest
         ELSE IF CarriesUser(q, e) THEN [areq[q] EXCEPT !.stale = TRUE]
         ELSE IF areq[q].pc = "createKey" THEN [areq[q] EXCEPT !.orphan = @ \/ WritesOwner(q, e)]
         ELSE IF \E d \in Draws : Carries(q, d)
              THEN [areq[q] EXCEPT !.stale  = @ \/ areq[q].row \in KeysOf(e),
                                   !.orphan = @ \/ WritesOwner(q, e)]
         ELSE areq[q]]
    /\ UNCHANGED <<home, strays>>

(***************************************************************************)
(* Access keys.  An update keeps the time of the last use that is in the    *)
(* table, not the one the request read.  The branches of UpsertAccessKey    *)
(* for a missing id or secret are left out: no caller comes without.        *)
(***************************************************************************)

UseOf(d, key) == IF KeyExists(d) THEN keys[d].used ELSE key.used

\* Mutant: the time of the last use that was read is written back.
UpsertAccessKeyWhole(d, key) == keys' = [keys EXCEPT ![d] = key]

UpsertAccessKey(d, key) ==
    keys' = [keys EXCEPT ![d] = [key EXCEPT !.used = UseOf(d, key)]]

\* History: a row written for an owner that was deleted meanwhile.
MarkStray(r, d) ==
    strays' = IF areq[r].orphan THEN strays \cup {d} ELSE strays \ {d}

FindOwner(r, e) ==
    /\ Idle(r)
    /\ UserExists(e)
    /\ areq' = [areq EXCEPT ![r] = [pc |-> "createKey", owner |-> e, orphan |-> FALSE]]
    /\ UNCHANGED users /\ UserStep

CreateAccessKey(r, d, status) ==
    /\ areq[r].pc = "createKey"
    /\ home[d] = None
    /\ UpsertAccessKey(d, [id |-> d, secret |-> d, owner |-> areq[r].owner,
                           status |-> status, used |-> FALSE])
    /\ home' = [home EXCEPT ![d] = d]
    /\ MarkStray(r, d)
    /\ Finish(r)
    /\ UNCHANGED <<users, revoked, removed>>

ReadKey(r, d, pc) ==
    /\ Idle(r)
    /\ KeyExists(d)
    /\ areq' = [areq EXCEPT ![r] = [pc |-> pc, row |-> d, key |-> keys[d],
                                    stale |-> FALSE, orphan |-> d \in strays]]
    /\ UNCHANGED users /\ UserStep

FindNewOwner(r, e) ==
    /\ areq[r].pc = "findOwner"
    /\ UserExists(e)
    /\ areq' = [areq EXCEPT ![r].pc = "saveKey", ![r].key.owner = e, ![r].orphan = FALSE]
    /\ UNCHANGED users /\ UserStep

SaveAccessKey(r, status) ==
    /\ areq[r].pc = "saveKey"
    /\ LET d == areq[r].row
       IN  /\ UpsertAccessKey(d, [areq[r].key EXCEPT !.status = status])
           /\ MarkStray(r, d)
           /\ FinishStaling(r, {d})
    /\ UNCHANGED <<users, home, revoked, removed>>

\* Mutant: the secret is new and the id stays.
RotateSecretOnly(r, d) ==
    /\ areq[r].pc = "rotate"
    /\ home[d] = None
    /\ LET row == areq[r].row
       IN  /\ UpsertAccessKey(row, [areq[r].key EXCEPT !.secret = d, !.status = "Active"])
           /\ home' = [home EXCEPT ![d] = row]
           /\ RevokeIds(r, {row} \cap {c \in Draws : KeyExists(c)})
           /\ MarkStray(r, row)
           /\ FinishStaling(r, {row})
    /\ UNCHANGED <<users, removed>>

\* A rotation also activates the key.
RotateAccessKey(r, d) ==
    /\ areq[r].pc = "rotate"
    /\ home[d] = None
    /\ LET row == areq[r].row
       IN  /\ UpsertAccessKey(row, [areq[r].key EXCEPT !.id = d, !.secret = d,
                                                       !.status = "Active"])
           /\ home' = [home EXCEPT ![d] = row]
           /\ RevokeIds(r, {row} \cap {c \in Draws : KeyExists(c)})
           /\ MarkStray(r, row)
           /\ FinishStaling(r, {row})
    /\ UNCHANGED <<users, removed>>

DeleteAccessKey(r, d) ==
    /\ Idle(r)
    /\ KeyExists(d)
    /\ keys' = [keys EXCEPT ![d] = None]
    /\ RevokeIds(r, {d})
    /\ RemoveRows(r, {d})
    /\ FinishStaling(r, {d})
    /\ UNCHANGED <<users, home, strays>>

\* The body is no JSON or lacks a name or a label, or the owner does not exist.
Refuse(r) ==
    /\ areq[r].pc \in {"saveUser", "findOwner"}
    /\ Finish(r)
    /\ UNCHANGED users /\ UserStep

(***************************************************************************)
(* The lookup of the key of an S3 request: found and active, then marked as *)
(* used under whatever row has the id by then.  The signature is verified   *)
(* with the secret that was found.                                          *)
(***************************************************************************)

Lookup(r, i) ==
    /\ Idle(r)
    /\ \E d \in Draws : KeyExists(d) /\ keys[d].id = i /\ keys[d].status = "Active"
    /\ areq' = [areq EXCEPT ![r] = [pc |-> "touch", id |-> i]]
    /\ UNCHANGED users /\ UserStep

TouchAccessKey(i) ==
    \/ \E d \in Draws : KeyExists(d) /\ keys[d].id = i /\ keys' = [keys EXCEPT ![d].used = TRUE]
    \/ (\A d \in Draws : KeyExists(d) => keys[d].id # i) /\ UNCHANGED keys

Touch(r) ==
    /\ areq[r].pc = "touch"
    /\ TouchAccessKey(areq[r].id)
    /\ Finish(r)
    /\ UNCHANGED <<users, home, revoked, removed, strays>>

(***************************************************************************)
(* The end of the process: the tables are empty again and are seeded again, *)
(* which brings the development key back, whatever was done to it.          *)
(***************************************************************************)

Restart ==
    /\ users' = SeededUsers
    /\ keys' = SeededKeys
    /\ areq' = [r \in Requests |-> NoRequest]
    /\ revoked' = revoked \ {DevDraw}
    /\ removed' = removed \ {DevDraw}
    /\ strays' = {}
    /\ UNCHANGED home

(***************************************************************************)
(* The specification                                                       *)
(***************************************************************************)

UserNext(r) ==
    \/ \E e \in Emails, p \in Profiles, w \in Passwords : CreateUser(r, e, p, w)
    \/ \E e \in Emails : ReadUser(r, e) \/ DeleteUser(r, e)
    \/ \E p \in Profiles, w \in Passwords \cup {None} : SaveUser(r, p, w)

KeyNext(r) ==
    \/ \E e \in Emails : FindOwner(r, e) \/ FindNewOwner(r, e)
    \/ \E d \in Draws, s \in Statuses : CreateAccessKey(r, d, s)
    \/ \E d \in Draws, pc \in {"findOwner", "rotate"} : ReadKey(r, d, pc)
    \/ \E s \in Statuses : SaveAccessKey(r, s)
    \/ \E d \in Draws : RotateAccessKey(r, d) \/ DeleteAccessKey(r, d) \/ Lookup(r, d)
    \/ Touch(r)

AccountsNext ==
    \/ \E r \in Requests : UserNext(r) \/ KeyNext(r) \/ Refuse(r)
    \/ Restart

AccountsSpec == AccountsInit /\ [][AccountsNext]_accountVars

(***************************************************************************)
(* Properties                                                              *)
(***************************************************************************)

\* Type invariant of the accounts: the tables, and what requests carry.
AccountsTypeOK ==
    /\ UsersTypeOK
    /\ keys \in [Draws -> AccessKey \cup {None}]
    /\ areq \in [Requests -> AccountRequests]
    /\ home \in [Draws -> Draws \cup {None}]
    /\ revoked \subseteq Draws /\ removed \subseteq Draws /\ strays \subseteq Draws

\* The lookup, which takes the first row with the id it is given in the random
\* order of a Go map, has one row to find, and the secret that row answers with
\* was issued together with the id, though updates write back whole copies of
\* rows that rotations change in between.
CredentialsUnambiguous ==
    \A c, d \in Draws : KeyExists(c) /\ KeyExists(d) =>
        /\ keys[c].id = keys[d].id => c = d
        /\ keys[c].secret = keys[c].id

\* An id that a rotation or a deletion took out authenticates nobody again, and
\* a key that was deleted, alone or with its owner, does not come back, as long
\* as no update or rotation had read the key before.  (One that had brings it
\* back; so does a restart, for the development key.)
RevokedStaysOut ==
    \A d \in Draws : KeyExists(d) => d \notin removed /\ keys[d].id \notin revoked

\* Every key has an owner, unless the owner was deleted while the key was on its
\* way into the table (createAccessKey, updateAccessKey and rotateAccessKey look
\* first and write later).
KeysHaveOwners ==
    \A d \in Draws : KeyExists(d) /\ d \notin strays => UserExists(keys[d].owner)

\* An update or a rotation that no other write of the record overlapped changes
\* what it was asked to change and nothing else: it finds the record still
\* there, an update of a key leaves id and secret alone, a rotation leaves the
\* owner alone, an update of a user without a password leaves the password alone.
UpdatesAreNarrow ==
    [][\A r \in Requests :
        /\ \A s \in Statuses : SaveAccessKey(r, s) /\ ~areq[r].stale =>
             LET d == areq[r].row
             IN  /\ KeyExists(d)
                 /\ keys'[d] = [keys[d] EXCEPT !.owner = areq[r].key.owner, !.status = s]
        /\ \A i \in Draws : RotateAccessKey(r, i) /\ ~areq[r].stale =>
             LET d == areq[r].row
             IN  /\ KeyExists(d)
                 /\ keys'[d] = [keys[d] EXCEPT !.id = i, !.secret = i, !.status = "Active"]
        /\ \A p \in Profiles : SaveUser(r, p, None) /\ ~areq[r].stale =>
             LET e == areq[r].email
             IN  /\ UserExists(e)
                 /\ users'[e] = [users[e] EXCEPT !.profile = p]
      ]_accountVars

\* A key that has been used is never again shown as unused while it is in the
\* table, though updates and rotations write back rows they read before the use.
UseIsRemembered ==
    [][\A d \in Draws :
          KeyExists(d) /\ keys[d].used /\ keys'[d] # None => keys'[d].used \/ Restart
      ]_accountVars
=============================================================================
