---------------------------- MODULE AccountsProofs ----------------------------
(***************************************************************************)
(* Proofs about users and access keys, for every number of users, keys and  *)
(* requests.                                                                *)
(*                                                                         *)
(* None of the properties is inductive, since requests write back rows they *)
(* read long before.  The invariant therefore says of every copy that a     *)
(* request carries what it says of the rows of the table: its id was drawn  *)
(* for its row, it holds nothing that was revoked, and the owner that was   *)
(* looked up for it is there or was deleted under its eyes (RequestSound).  *)
(***************************************************************************)
EXTENDS Accounts, TLAPS

KeyPcs == {"findOwner", "saveKey", "rotate"}

\* The id of a key was drawn for the row, together with its secret.
DrawnFor(d, key) == home[d] # None /\ home[key.id] = d /\ key.secret = key.id

TableSound == \A d \in Draws : KeyExists(d) => DrawnFor(d, keys[d])

\* What was revoked had been drawn.
HistorySound == \A d \in revoked \cup removed : home[d] # None

\* A copy of a key is of its row, and of nothing that was revoked.
CopySound(q) ==
    q.pc \in KeyPcs =>
        /\ DrawnFor(q.row, q.key)
        /\ q.row \notin removed
        /\ q.pc # "rotate" => q.key.id \notin revoked

\* A copy that no write made stale is what the table holds.
CopyFresh(q) ==
    q.pc \in KeyPcs /\ ~q.stale =>
        /\ KeyExists(q.row)
        /\ keys[q.row].id = q.key.id
        /\ q.pc # "saveKey" => keys[q.row].owner = q.key.owner

UserFresh(q) ==
    q.pc = "saveUser" /\ ~q.stale => UserExists(q.email) /\ users[q.email] = q.user

OwnerFound(q) ==
    /\ q.pc = "createKey" /\ ~q.orphan => UserExists(q.owner)
    /\ q.pc \in {"saveKey", "rotate"} /\ ~q.orphan => UserExists(q.key.owner)

RequestSound(q) ==
    /\ q \in AccountRequests
    /\ CopySound(q) /\ CopyFresh(q) /\ UserFresh(q) /\ OwnerFound(q)

\* The development key is in its own row after every restart.
DevHome == home[DevDraw] = DevDraw

AccountsInv ==
    /\ AccountsTypeOK
    /\ DevHome
    /\ TableSound
    /\ HistorySound
    /\ RevokedStaysOut
    /\ KeysHaveOwners
    /\ \A r \in Requests : RequestSound(areq[r])

(***************************************************************************)
(* Requests                                                                *)
(***************************************************************************)

\* Where a request is in its handler tells what it carries.
LEMMA RequestKinds ==
  ASSUME NEW q \in AccountRequests
  PROVE  /\ q.pc \in KeyPcs => q \in KeyRequest
         /\ q.pc = "saveUser" => q \in UserRequest
         /\ q.pc = "createKey" => q \in CreateRequest
         /\ q.pc = "touch" => q \in LookupRequest
         /\ q.pc = "idle" => q = NoRequest
  BY DEF AccountRequests, UserRequest, CreateRequest, KeyRequest, LookupRequest, NoRequest, KeyPcs

\* A request that has ended carries nothing.
LEMMA NoRequestSound == RequestSound(NoRequest)
  BY DEF RequestSound, CopySound, CopyFresh, UserFresh, OwnerFound, NoRequest, AccountRequests,
         KeyPcs

LEMMA NoRequestStaysSound == RequestSound(NoRequest)'
  BY DEF RequestSound, CopySound, CopyFresh, UserFresh, OwnerFound, NoRequest, AccountRequests,
         KeyPcs

\* Marking a user request stale leaves one that claims nothing.
LEMMA StaleUserSound ==
  ASSUME NEW q \in UserRequest
  PROVE  LET p == [q EXCEPT !.stale = TRUE]
         IN  /\ p \in AccountRequests /\ p.pc = "saveUser" /\ p.stale
  BY DEF UserRequest, AccountRequests

(***************************************************************************)
(* Steps that change one request and no table                              *)
(***************************************************************************)

LEMMA MoveInv ==
  ASSUME AccountsInv, NEW r \in Requests, NEW q, RequestSound(q),
         areq' = [areq EXCEPT ![r] = q],
         UNCHANGED <<users, keys, home, revoked, removed, strays>>
  PROVE  AccountsInv'
<1> USE DEF AccountsInv
<1>1. AccountsTypeOK'
  BY DEF AccountsTypeOK, UsersTypeOK, RequestSound
<1>2. TableSound' /\ HistorySound' /\ RevokedStaysOut' /\ KeysHaveOwners'
  BY DEF TableSound, HistorySound, RevokedStaysOut, KeysHaveOwners, KeyExists, DrawnFor, UserExists
<1>3. \A p : RequestSound(p) => RequestSound(p)'
  BY DEF RequestSound, CopySound, CopyFresh, UserFresh, OwnerFound, KeyExists, DrawnFor,
         UserExists
<1>4. ASSUME NEW p \in Requests
      PROVE  RequestSound(areq[p])'
  <2>1. areq'[p] = IF p = r THEN q ELSE areq[p]
    BY DEF AccountsTypeOK
  <2>2. RequestSound(areq[p])
    OBVIOUS
  <2>3. QED
    BY <1>3, <2>1, <2>2
<1>5. DevHome'
  BY DEF DevHome
<1>6. QED
  BY <1>1, <1>2, <1>4, <1>5

LEMMA InitInv == AccountsInit => AccountsInv
<1> SUFFICES ASSUME AccountsInit PROVE AccountsInv
  OBVIOUS
<1> USE AccountsAssumption, UsersAssumption DEF AccountsInit
<1>1. [profile |-> RootProfile, password |-> RootPassword] \in User
  BY DEF User
<1>2. SeededUsers \in [Emails -> User \cup {None}]
  BY <1>1 DEF SeededUsers
<1>3. [id |-> DevDraw, secret |-> DevDraw, owner |-> Root, status |-> "Active", used |-> FALSE]
        \in AccessKey
  BY DEF AccessKey, Statuses
<1>4. SeededKeys \in [Draws -> AccessKey \cup {None}]
  BY <1>3 DEF SeededKeys
<1>5. NoRequest \in AccountRequests
  BY DEF AccountRequests
<1>6. AccountsTypeOK
  BY <1>2, <1>4, <1>5 DEF AccountsTypeOK, UsersTypeOK
<1>7. \A d \in Draws : KeyExists(d) => d = DevDraw
  BY DEF KeyExists, SeededKeys
<1>8. keys[DevDraw].id = DevDraw /\ keys[DevDraw].secret = DevDraw /\ keys[DevDraw].owner = Root
  BY DEF SeededKeys
<1>9. DevDraw # None /\ home[DevDraw] = DevDraw
  BY AccountsSentinelAssumption
<1>10. TableSound /\ HistorySound /\ RevokedStaysOut
  BY <1>7, <1>8, <1>9 DEF TableSound, HistorySound, RevokedStaysOut, DrawnFor
<1>11. UserExists(Root)
  BY <1>1, UserSentinelAssumption DEF UserExists, SeededUsers
<1>12. KeysHaveOwners
  BY <1>7, <1>8, <1>11 DEF KeysHaveOwners
<1>13. DevHome
  BY <1>9 DEF DevHome
<1>14. QED
  BY <1>6, <1>10, <1>12, NoRequestSound, <1>13 DEF AccountsInv

(***************************************************************************)
(* Steps that write the table of users                                     *)
(***************************************************************************)

\* createUser and updateUser replace a user or add one.
LEMMA WriteUserInv ==
  ASSUME AccountsInv, NEW r \in Requests, NEW e \in Emails, NEW user \in User,
         UpsertAdminUser(e, user), FinishStalingUser(r, e), UserStep
  PROVE  AccountsInv'
<1> USE DEF AccountsInv
<1>1. users' = [users EXCEPT ![e] = user] /\ UsersTypeOK'
  BY DEF UpsertAdminUser, UsersTypeOK, AccountsTypeOK
<1>2. UserExists(e)' /\ \A f \in Emails : UserExists(f) => UserExists(f)'
  BY <1>1, UserSentinelAssumption DEF UserExists, AccountsTypeOK, UsersTypeOK
<1>3. TableSound' /\ HistorySound' /\ RevokedStaysOut' /\ KeysHaveOwners'
  <2>1. TableSound' /\ HistorySound' /\ RevokedStaysOut'
    BY DEF UserStep, TableSound, HistorySound, RevokedStaysOut, KeyExists, DrawnFor
  <2>2. \A d \in Draws : KeyExists(d) => keys[d].owner \in Emails
    BY DEF AccountsTypeOK, KeyExists, AccessKey
  <2>3. KeysHaveOwners'
    BY <1>2, <2>2 DEF UserStep, KeysHaveOwners, KeyExists
  <2>4. QED
    BY <2>1, <2>3
<1>4. ASSUME NEW p \in Requests
      PROVE  RequestSound(areq[p])'
  <2>0. PICK q : q = areq[p]
    OBVIOUS
  <2>1. RequestSound(q) /\ q \in AccountRequests
    BY <2>0 DEF RequestSound
  <2>2. CASE p = r
    <3>1. areq'[p] = NoRequest
      BY <2>2 DEF FinishStalingUser
    <3>2. RequestSound(NoRequest)'
      BY NoRequestStaysSound
    <3>3. QED
      BY <3>1, <3>2
  <2>3. CASE p # r /\ CarriesUser(p, e)
    <3>1. q \in UserRequest
      BY <2>0, <2>1, <2>3, RequestKinds DEF CarriesUser
    <3>2. areq'[p] = [q EXCEPT !.stale = TRUE]
      BY <2>0, <2>3 DEF FinishStalingUser
    <3>3. areq'[p] \in AccountRequests /\ areq'[p].pc = "saveUser" /\ areq'[p].stale
      BY <3>1, <3>2, StaleUserSound
    <3>4. QED
      BY <3>3 DEF RequestSound, CopySound, CopyFresh, UserFresh, OwnerFound, KeyPcs
  <2>4. CASE p # r /\ ~CarriesUser(p, e)
    <3>1. areq'[p] = q
      BY <2>0, <2>4 DEF FinishStalingUser
    <3>2. CopySound(q)' /\ CopyFresh(q)'
      BY <2>1 DEF UserStep, RequestSound, CopySound, CopyFresh, KeyExists, DrawnFor
    <3>3. UserFresh(q)'
      <4> SUFFICES ASSUME q.pc = "saveUser", ~q.stale
                   PROVE  UserExists(q.email)' /\ users'[q.email] = q.user
        BY DEF UserFresh
      <4>1. q \in UserRequest
        BY <2>1, RequestKinds
      <4>2. q.email # e /\ q.email \in Emails
        BY <2>0, <2>4, <4>1 DEF CarriesUser, UserRequest
      <4>3. QED
        BY <1>1, <2>1, <4>2 DEF RequestSound, UserFresh, UserExists, AccountsTypeOK, UsersTypeOK
    <3>4. OwnerFound(q)'
      <4>1. q.pc = "createKey" => q.owner \in Emails
        BY <2>1, RequestKinds DEF CreateRequest
      <4>2. q.pc \in {"saveKey", "rotate"} => q.key.owner \in Emails
        BY <2>1, RequestKinds DEF KeyRequest, AccessKey, KeyPcs
      <4>3. QED
        BY <1>2, <2>1, <4>1, <4>2 DEF RequestSound, OwnerFound
    <3>5. QED
      BY <2>1, <3>1, <3>2, <3>3, <3>4 DEF RequestSound
  <2>5. QED
    BY <2>2, <2>3, <2>4
<1>5. AccountsTypeOK'
  <2>1. \A p \in Requests : areq'[p] \in AccountRequests
    BY <1>4 DEF RequestSound
  <2>2. areq' = [p \in Requests |-> areq'[p]]
    BY DEF FinishStalingUser
  <2>3. areq' \in [Requests -> AccountRequests]
    BY <2>1, <2>2
  <2>4. QED
    BY <1>1, <2>3 DEF AccountsTypeOK, UserStep
<1>6. DevHome'
  BY DEF DevHome, UserStep
<1>7. QED
  BY <1>3, <1>4, <1>5, <1>6

(***************************************************************************)
(* Steps that write a row of the table of keys                             *)
(***************************************************************************)

\* Requests that carry a row are marked stale when it is written.
LEMMA StaledRequest ==
  ASSUME AccountsInv, NEW r \in Requests, NEW rows \in SUBSET Draws, FinishStaling(r, rows),
         NEW p \in Requests \ {r}, NEW q, q = areq[p]
  PROVE  \/ areq'[p] = q /\ (q.pc \in KeyPcs => q.row \notin rows)
         \/ /\ q \in KeyRequest /\ q.row \in rows
            /\ areq'[p] \in KeyRequest /\ areq'[p] \in AccountRequests
            /\ areq'[p].pc = q.pc /\ areq'[p].row = q.row /\ areq'[p].key = q.key
            /\ areq'[p].orphan = q.orphan /\ areq'[p].stale
<1>1. q \in AccountRequests
  BY DEF AccountsInv, RequestSound
<1>2. CASE \E d \in rows : Carries(p, d)
  <2>1. q \in KeyRequest /\ q.row \in rows
    BY <1>1, <1>2, RequestKinds DEF Carries, KeyPcs
  <2>2. areq'[p] = [q EXCEPT !.stale = TRUE]
    BY <1>2 DEF FinishStaling
  <2>3. QED
    BY <2>1, <2>2 DEF KeyRequest, AccountRequests
<1>3. CASE ~ \E d \in rows : Carries(p, d)
  <2>1. areq'[p] = q
    BY <1>3 DEF FinishStaling
  <2>2. QED
    BY <1>3, <2>1 DEF Carries, KeyPcs
<1>4. QED
  BY <1>2, <1>3

\* What CopySound says of a copy does not change when ids are drawn, and when
\* nothing is revoked that it holds.
LEMMA CopyStaysSound ==
  ASSUME AccountsInv, NEW q \in AccountRequests, CopySound(q),
         \A d \in Draws : home[d] # None => home'[d] = home[d],
         q.pc \in KeyPcs => q.row \notin removed',
         q.pc \in KeyPcs /\ q.pc # "rotate" => q.key.id \notin revoked'
  PROVE  CopySound(q)'
<1> SUFFICES ASSUME q.pc \in KeyPcs
             PROVE  DrawnFor(q.row, q.key)'
  BY DEF CopySound
<1>1. q.row \in Draws /\ q.key.id \in Draws
  BY RequestKinds DEF KeyRequest, AccessKey
<1>2. q.row # None
  BY <1>1, AccountsSentinelAssumption
<1>3. QED
  BY <1>1, <1>2 DEF CopySound, DrawnFor

LEMMA WriteRowInv ==
  ASSUME AccountsInv, NEW r \in Requests, NEW d \in Draws, NEW key \in AccessKey,
         UpsertAccessKey(d, key), MarkStray(r, d), FinishStaling(r, {d}),
         UNCHANGED <<users, removed>>,
         d \notin removed,
         ~areq[r].orphan => UserExists(key.owner),
         home' \in [Draws -> Draws \cup {None}],
         \A c \in Draws : home[c] # None => home'[c] = home[c],
         DrawnFor(d, key)',
         revoked' \subseteq Draws, key.id \notin revoked',
         \A i \in revoked' \ revoked :
            /\ KeyExists(d) /\ i = keys[d].id
            /\ \A q \in Requests \ {r} : ~CarriesId(q, i)
  PROVE  AccountsInv'
<1> USE DEF AccountsInv
<1> DEFINE new == [key EXCEPT !.used = UseOf(d, key)]
<1>1. new \in AccessKey /\ new.id = key.id /\ new.secret = key.secret /\ new.owner = key.owner
  BY DEF AccessKey, UseOf, AccountsTypeOK, KeyExists
<1>2. keys' = [keys EXCEPT ![d] = new]
  BY DEF UpsertAccessKey
<1> HIDE DEF new
<1>3. keys' \in [Draws -> AccessKey \cup {None}] /\ keys'[d] = new
  BY <1>1, <1>2 DEF AccountsTypeOK
<1>4. \A c \in Draws \ {d} : keys'[c] = keys[c]
  BY <1>2 DEF AccountsTypeOK
<1>5. \A c \in Draws : KeyExists(c) => keys[c].id \in Draws /\ home[keys[c].id] = c /\ c # None
  BY AccountsSentinelAssumption DEF TableSound, DrawnFor, AccountsTypeOK, KeyExists, AccessKey
<1>6. TableSound'
  <2> SUFFICES ASSUME NEW c \in Draws, KeyExists(c)'
               PROVE  DrawnFor(c, keys[c])'
    BY DEF TableSound
  <2>1. CASE c = d
    BY <1>1, <1>3, <2>1 DEF DrawnFor
  <2>2. CASE c # d
    <3>1. KeyExists(c) /\ keys'[c] = keys[c]
      BY <1>4, <2>2 DEF KeyExists
    <3>2. DrawnFor(c, keys[c])
      BY <3>1 DEF TableSound
    <3>3. QED
      BY <1>5, <3>1, <3>2 DEF DrawnFor
  <2>3. QED
    BY <2>1, <2>2
<1>7. HistorySound'
  <2> SUFFICES ASSUME NEW c \in revoked' \cup removed'
               PROVE  home'[c] # None
    BY DEF HistorySound
  <2>1. CASE c \in revoked \cup removed
    BY <2>1 DEF HistorySound, AccountsTypeOK
  <2>2. CASE c \in revoked' \ revoked
    BY <1>5, <2>2
  <2>3. QED
    BY <2>1, <2>2
<1>8. RevokedStaysOut'
  <2> SUFFICES ASSUME NEW c \in Draws, KeyExists(c)'
               PROVE  c \notin removed /\ keys'[c].id \notin revoked'
    BY DEF RevokedStaysOut
  <2>1. CASE c = d
    BY <1>1, <1>3, <2>1
  <2>2. CASE c # d
    <3>1. KeyExists(c) /\ keys'[c] = keys[c]
      BY <1>4, <2>2 DEF KeyExists
    <3>2. c \notin removed /\ keys[c].id \notin revoked
      BY <3>1 DEF RevokedStaysOut
    <3>3. KeyExists(d) => keys[c].id # keys[d].id
      BY <1>5, <2>2, <3>1
    <3>4. QED
      BY <3>1, <3>2, <3>3
  <2>3. QED
    BY <2>1, <2>2
<1>9. KeysHaveOwners'
  <2> SUFFICES ASSUME NEW c \in Draws, KeyExists(c)', c \notin strays'
               PROVE  UserExists(keys'[c].owner)
    BY DEF KeysHaveOwners, UserExists
  <2>1. CASE c = d
    BY <1>1, <1>3, <2>1 DEF MarkStray
  <2>2. CASE c # d
    BY <1>4, <2>2 DEF MarkStray, KeysHaveOwners, KeyExists
  <2>3. QED
    BY <2>1, <2>2
<1>10. ASSUME NEW p \in Requests
       PROVE  RequestSound(areq[p])'
  <2>1. CASE p = r
    BY <2>1, NoRequestStaysSound DEF FinishStaling
  <2>2. CASE p # r
    <3>1. PICK q : q = areq[p]
      OBVIOUS
    <3>2. RequestSound(q) /\ q \in AccountRequests
      BY <3>1 DEF RequestSound
    <3>3. CopySound(q)'
      <4>1. q.pc \in KeyPcs => q.row \notin removed'
        BY <3>2 DEF RequestSound, CopySound
      <4>2. q.pc \in KeyPcs /\ q.pc # "rotate" => q.key.id \notin revoked'
        BY <2>2, <3>1, <3>2 DEF RequestSound, CopySound, CarriesId, KeyPcs
      <4>3. QED
        BY <3>2, <4>1, <4>2, CopyStaysSound DEF RequestSound
    <3>4. OwnerFound(q)' /\ UserFresh(q)'
      BY <3>2 DEF RequestSound, OwnerFound, UserFresh, UserExists
    <3>5. CASE areq'[p] = q /\ (q.pc \in KeyPcs => q.row # d)
      <4>1. CopyFresh(q)'
        <5>1. q.pc \in KeyPcs => q.row \in Draws \ {d}
          BY <3>2, <3>5, RequestKinds DEF KeyRequest
        <5>2. QED
          BY <1>4, <3>2, <5>1 DEF RequestSound, CopyFresh, KeyExists
      <4>2. QED
        BY <3>2, <3>3, <3>4, <3>5, <4>1 DEF RequestSound
    <3>6. CASE ~(areq'[p] = q /\ (q.pc \in KeyPcs => q.row # d))
      <4>1. /\ q \in KeyRequest /\ areq'[p] \in KeyRequest /\ areq'[p] \in AccountRequests
            /\ areq'[p].pc = q.pc /\ areq'[p].row = q.row /\ areq'[p].key = q.key
            /\ areq'[p].orphan = q.orphan /\ areq'[p].stale
        BY <2>2, <3>1, <3>6, StaledRequest
      <4>2. QED
        BY <3>3, <3>4, <4>1 DEF RequestSound, CopySound, CopyFresh, UserFresh, OwnerFound,
           KeyRequest
    <3>7. QED
      BY <3>5, <3>6
  <2>3. QED
    BY <2>1, <2>2
<1>11. AccountsTypeOK'
  <2>1. \A p \in Requests : areq'[p] \in AccountRequests
    BY <1>10 DEF RequestSound
  <2>2. areq' = [p \in Requests |-> areq'[p]]
    BY DEF FinishStaling
  <2>3. areq' \in [Requests -> AccountRequests]
    BY <2>1, <2>2
  <2>4. strays' \subseteq Draws
    BY DEF MarkStray, AccountsTypeOK
  <2>5. QED
    BY <1>3, <2>3, <2>4 DEF AccountsTypeOK, UsersTypeOK
<1>12. DevHome'
  BY AccountsAssumption, AccountsSentinelAssumption DEF DevHome
<1>13. QED
  BY <1>6, <1>7, <1>8, <1>9, <1>10, <1>11, <1>12

\* createAccessKey writes a row that nobody can have carried.
LEMMA CreateAccessKeyInv ==
  ASSUME AccountsInv, NEW r \in Requests, NEW d \in Draws, NEW status \in Statuses,
         CreateAccessKey(r, d, status)
  PROVE  AccountsInv'
<1> USE DEF AccountsInv
<1> DEFINE key == [id |-> d, secret |-> d, owner |-> areq[r].owner, status |-> status,
                   used |-> FALSE]
<1>1. areq[r] \in CreateRequest /\ areq[r].pc = "createKey" /\ home[d] = None
  BY RequestKinds DEF CreateAccessKey, RequestSound
<1>2. key \in AccessKey /\ key.id = d /\ key.secret = d /\ key.owner = areq[r].owner
  BY <1>1 DEF AccessKey, CreateRequest
<1>3. UpsertAccessKey(d, key) /\ MarkStray(r, d) /\ UNCHANGED <<users, removed, revoked>>
  BY DEF CreateAccessKey
<1> HIDE DEF key
<1>4. \A p \in Requests : ~Carries(p, d)
  BY <1>1, RequestKinds DEF Carries, RequestSound, CopySound, DrawnFor, KeyPcs
<1>5. FinishStaling(r, {d})
  BY <1>4 DEF CreateAccessKey, Finish, FinishStaling, AccountsTypeOK
<1>6. home' = [home EXCEPT ![d] = d] /\ d # None
  BY AccountsSentinelAssumption DEF CreateAccessKey
<1>7. home' \in [Draws -> Draws \cup {None}] /\ \A c \in Draws : home[c] # None => home'[c] = home[c]
  BY <1>1, <1>6 DEF AccountsTypeOK
<1>9. d \notin removed /\ d \notin revoked
  BY <1>1 DEF HistorySound
<1>10. ~areq[r].orphan => UserExists(key.owner)
  BY <1>1, <1>2 DEF RequestSound, OwnerFound
<1>11. PICK k \in AccessKey : k = key
  BY <1>2
<1>12. DrawnFor(d, k)'
  BY <1>2, <1>6, <1>11 DEF DrawnFor, AccountsTypeOK
<1>13. QED
  BY <1>2, <1>3, <1>5, <1>7, <1>9, <1>10, <1>11, <1>12, WriteRowInv DEF AccountsTypeOK

\* updateAccessKey writes back the id and the secret that it carries.
LEMMA SaveAccessKeyInv ==
  ASSUME AccountsInv, NEW r \in Requests, NEW status \in Statuses, SaveAccessKey(r, status)
  PROVE  AccountsInv'
<1> USE DEF AccountsInv
<1>1. areq[r] \in KeyRequest /\ areq[r].pc = "saveKey" /\ RequestSound(areq[r])
  BY RequestKinds DEF SaveAccessKey, RequestSound, KeyPcs
<1>2. PICK d \in Draws, key \in AccessKey :
        /\ d = areq[r].row
        /\ key = [areq[r].key EXCEPT !.status = status]
  BY <1>1 DEF KeyRequest, AccessKey
<1>3. key.id = areq[r].key.id /\ key.secret = areq[r].key.secret /\ key.owner = areq[r].key.owner
  BY <1>1, <1>2 DEF KeyRequest, AccessKey
<1>4. /\ UpsertAccessKey(d, key) /\ MarkStray(r, d) /\ FinishStaling(r, {d})
      /\ UNCHANGED <<users, home, revoked, removed>>
  BY <1>2 DEF SaveAccessKey
<1>5. DrawnFor(d, key) /\ d \notin removed /\ key.id \notin revoked
  BY <1>1, <1>2, <1>3 DEF RequestSound, CopySound, DrawnFor, KeyPcs
<1>6. DrawnFor(d, key)'
  BY <1>4, <1>5 DEF DrawnFor
<1>7. ~areq[r].orphan => UserExists(key.owner)
  BY <1>1, <1>3 DEF RequestSound, OwnerFound
<1>8. QED
  BY <1>4, <1>5, <1>6, <1>7, WriteRowInv DEF AccountsTypeOK

\* rotateAccessKey draws an id and a secret for the row it carries, and revokes
\* the id the row has by then.
LEMMA RotateAccessKeyInv ==
  ASSUME AccountsInv, NEW r \in Requests, NEW i \in Draws, RotateAccessKey(r, i)
  PROVE  AccountsInv'
<1> USE DEF AccountsInv
<1>1. areq[r] \in KeyRequest /\ areq[r].pc = "rotate" /\ RequestSound(areq[r]) /\ home[i] = None
  BY RequestKinds DEF RotateAccessKey, RequestSound, KeyPcs
<1>2. PICK d \in Draws, key \in AccessKey :
        /\ d = areq[r].row
        /\ key = [areq[r].key EXCEPT !.id = i, !.secret = i, !.status = "Active"]
  BY <1>1 DEF KeyRequest, AccessKey, Statuses
<1>3. key.id = i /\ key.secret = i /\ key.owner = areq[r].key.owner
  BY <1>1, <1>2 DEF KeyRequest, AccessKey
<1>4. /\ UpsertAccessKey(d, key) /\ MarkStray(r, d) /\ FinishStaling(r, {d})
      /\ home' = [home EXCEPT ![i] = d]
      /\ RevokeIds(r, {d} \cap {c \in Draws : KeyExists(c)})
      /\ UNCHANGED <<users, removed>>
  BY <1>2 DEF RotateAccessKey
<1>5. home[d] # None /\ d \notin removed
  BY <1>1, <1>2 DEF RequestSound, CopySound, DrawnFor, KeyPcs
<1>6. /\ home' \in [Draws -> Draws \cup {None}]
      /\ \A c \in Draws : home[c] # None => home'[c] = home[c]
      /\ home'[i] = d
  BY <1>1, <1>4 DEF AccountsTypeOK
<1>7. DrawnFor(d, key)'
  BY <1>3, <1>5, <1>6 DEF DrawnFor
<1>8. \A j \in revoked' \ revoked :
        /\ KeyExists(d) /\ j = keys[d].id
        /\ \A q \in Requests \ {r} : ~CarriesId(q, j)
  BY <1>4 DEF RevokeIds
<1>9. KeyExists(d) => keys[d].id \in Draws /\ home[keys[d].id] = d /\ d # None
  BY AccountsSentinelAssumption DEF TableSound, DrawnFor, AccountsTypeOK, KeyExists, AccessKey
<1>10. revoked' \subseteq Draws
  BY <1>8, <1>9 DEF AccountsTypeOK
<1>11. i \notin revoked'
  BY <1>1, <1>8, <1>9 DEF HistorySound
<1>12. ~areq[r].orphan => UserExists(key.owner)
  BY <1>1, <1>3 DEF RequestSound, OwnerFound
<1>13. QED
  BY <1>3, <1>4, <1>5, <1>6, <1>7, <1>8, <1>10, <1>11, <1>12, WriteRowInv

(***************************************************************************)
(* Steps that take rows out                                                *)
(***************************************************************************)

\* The tables after a set of rows is taken out, and what copies of keys are
\* worth then.
LEMMA TakeOut ==
  ASSUME AccountsInv, NEW r \in Requests, NEW rows \in SUBSET Draws,
         \A d \in rows : KeyExists(d),
         keys' = [d \in Draws |-> IF d \in rows THEN None ELSE keys[d]],
         RevokeIds(r, rows), RemoveRows(r, rows), UNCHANGED <<home, strays>>
  PROVE  /\ TableSound' /\ HistorySound' /\ RevokedStaysOut'
         /\ keys' \in [Draws -> AccessKey \cup {None}]
         /\ revoked' \subseteq Draws /\ removed' \subseteq Draws
         /\ \A d \in Draws : KeyExists(d)' => d \notin rows /\ KeyExists(d) /\ keys'[d] = keys[d]
         /\ \A d \in Draws \ rows : keys'[d] = keys[d]
         /\ \A p \in Requests \ {r} : CopySound(areq[p]) =>
              \A q : q = areq[p] => CopySound(q)'
<1> USE DEF AccountsInv
<1>1. /\ keys' \in [Draws -> AccessKey \cup {None}]
      /\ \A d \in Draws : KeyExists(d)' => d \notin rows /\ KeyExists(d) /\ keys'[d] = keys[d]
      /\ \A d \in Draws \ rows : keys'[d] = keys[d]
  BY DEF AccountsTypeOK, KeyExists
<1>2. \A d \in Draws : KeyExists(d) => keys[d].id \in Draws /\ home[keys[d].id] = d /\ d # None
  BY AccountsSentinelAssumption DEF TableSound, DrawnFor, AccountsTypeOK, KeyExists, AccessKey
<1>3. TableSound'
  BY <1>1 DEF TableSound, DrawnFor
<1>4. /\ removed' \subseteq removed \cup rows
      /\ \A i \in revoked' : i \in revoked \/ \E d \in rows : i = keys[d].id
  BY DEF RevokeIds, RemoveRows
<1>5. revoked' \subseteq Draws /\ removed' \subseteq Draws
  BY <1>2, <1>4 DEF AccountsTypeOK
<1>6. HistorySound'
  <2>1. \A d \in rows : home[d] # None
    BY DEF TableSound, DrawnFor
  <2>2. QED
    BY <1>2, <1>4, <2>1 DEF HistorySound
<1>7. RevokedStaysOut'
  <2> SUFFICES ASSUME NEW d \in Draws, KeyExists(d)'
               PROVE  d \notin removed' /\ keys'[d].id \notin revoked'
    BY DEF RevokedStaysOut
  <2>1. d \notin rows /\ KeyExists(d) /\ keys'[d] = keys[d]
    BY <1>1
  <2>2. d \notin removed /\ keys[d].id \notin revoked
    BY <2>1 DEF RevokedStaysOut
  <2>3. \A c \in rows : keys[c].id # keys[d].id
    BY <1>2, <2>1
  <2>4. QED
    BY <1>4, <2>1, <2>2, <2>3
<1>8. ASSUME NEW p \in Requests \ {r}, CopySound(areq[p]), NEW q, q = areq[p]
      PROVE  CopySound(q)'
  <2>1. q \in AccountRequests
    BY <1>8 DEF RequestSound
  <2>2. q.pc \in KeyPcs => q.row \notin removed' /\ q.row \in Draws
    <3>1. CASE q.pc \in KeyPcs
      <4>1. q.row \in Draws /\ Carries(p, q.row)
        BY <1>8, <2>1, <3>1, RequestKinds DEF KeyRequest, Carries, KeyPcs
      <4>2. q.row \notin removed
        BY <1>8, <3>1 DEF CopySound
      <4>3. QED
        BY <4>1, <4>2 DEF RemoveRows
    <3>2. QED
      BY <3>1
  <2>3. q.pc \in KeyPcs /\ q.pc # "rotate" => q.key.id \notin revoked'
    <3>1. CASE q.pc \in KeyPcs /\ q.pc # "rotate"
      <4>1. CarriesId(p, q.key.id)
        BY <1>8, <3>1 DEF CarriesId, KeyPcs
      <4>2. q.key.id \notin revoked
        BY <1>8, <3>1 DEF CopySound
      <4>3. QED
        BY <4>1, <4>2 DEF RevokeIds
    <3>2. QED
      BY <3>1
  <2>4. QED
    BY <1>8, <2>1, <2>2, <2>3, CopyStaysSound
<1>9. QED
  BY <1>1, <1>3, <1>5, <1>6, <1>7, <1>8

\* deleteAccessKey takes out one row.
LEMMA DeleteAccessKeyInv ==
  ASSUME AccountsInv, NEW r \in Requests, NEW d \in Draws, DeleteAccessKey(r, d)
  PROVE  AccountsInv'
<1> USE DEF AccountsInv
<1>1. /\ KeyExists(d) /\ RevokeIds(r, {d}) /\ RemoveRows(r, {d}) /\ FinishStaling(r, {d})
      /\ UNCHANGED <<users, home, strays>>
      /\ keys' = [c \in Draws |-> IF c \in {d} THEN None ELSE keys[c]]
  BY DEF DeleteAccessKey, AccountsTypeOK
<1>2. /\ TableSound' /\ HistorySound' /\ RevokedStaysOut'
      /\ keys' \in [Draws -> AccessKey \cup {None}]
      /\ revoked' \subseteq Draws /\ removed' \subseteq Draws
      /\ \A c \in Draws : KeyExists(c)' => KeyExists(c) /\ keys'[c] = keys[c]
      /\ \A c \in Draws \ {d} : keys'[c] = keys[c]
      /\ \A p \in Requests \ {r} : CopySound(areq[p]) =>
           \A q : q = areq[p] => CopySound(q)'
  BY <1>1, TakeOut
<1>3. KeysHaveOwners'
  BY <1>1, <1>2 DEF KeysHaveOwners, UserExists
<1>4. ASSUME NEW p \in Requests
      PROVE  RequestSound(areq[p])'
  <2>1. CASE p = r
    BY <1>1, <2>1, NoRequestStaysSound DEF FinishStaling
  <2>2. CASE p # r
    <3>1. PICK q : q = areq[p]
      OBVIOUS
    <3>2. RequestSound(q) /\ q \in AccountRequests
      BY <3>1 DEF RequestSound
    <3>3. CopySound(q)'
      BY <1>2, <2>2, <3>1, <3>2 DEF RequestSound
    <3>4. OwnerFound(q)' /\ UserFresh(q)'
      BY <1>1, <3>2 DEF RequestSound, OwnerFound, UserFresh, UserExists
    <3>5. CASE areq'[p] = q /\ (q.pc \in KeyPcs => q.row # d)
      <4>1. q.pc \in KeyPcs => q.row \in Draws \ {d}
        BY <3>2, <3>5, RequestKinds DEF KeyRequest
      <4>2. CopyFresh(q)'
        BY <1>2, <3>2, <4>1 DEF RequestSound, CopyFresh, KeyExists
      <4>3. QED
        BY <3>2, <3>3, <3>4, <3>5, <4>2 DEF RequestSound
    <3>6. CASE ~(areq'[p] = q /\ (q.pc \in KeyPcs => q.row # d))
      <4>1. /\ q \in KeyRequest /\ areq'[p] \in KeyRequest /\ areq'[p] \in AccountRequests
            /\ areq'[p].pc = q.pc /\ areq'[p].row = q.row /\ areq'[p].key = q.key
            /\ areq'[p].orphan = q.orphan /\ areq'[p].stale
        BY <1>1, <2>2, <3>1, <3>6, StaledRequest
      <4>2. QED
        BY <3>3, <3>4, <4>1 DEF RequestSound, CopySound, CopyFresh, UserFresh, OwnerFound,
           KeyRequest
    <3>7. QED
      BY <3>5, <3>6
  <2>3. QED
    BY <2>1, <2>2
<1>5. AccountsTypeOK'
  <2>1. \A p \in Requests : areq'[p] \in AccountRequests
    BY <1>4 DEF RequestSound
  <2>2. areq' = [p \in Requests |-> areq'[p]]
    BY <1>1 DEF FinishStaling
  <2>3. areq' \in [Requests -> AccountRequests]
    BY <2>1, <2>2
  <2>4. QED
    BY <1>1, <1>2, <2>3 DEF AccountsTypeOK, UsersTypeOK
<1>6. DevHome'
  BY DEF DevHome, DeleteAccessKey
<1>7. QED
  BY <1>2, <1>3, <1>4, <1>5, <1>6

\* deleteUser takes out the user and its keys; whoever has looked the user up
\* for a key is left with an owner that is gone.
LEMMA DeleteUserInv ==
  ASSUME AccountsInv, NEW r \in Requests, NEW e \in Emails, DeleteUser(r, e)
  PROVE  AccountsInv'
<1> USE DEF AccountsInv
<1>1. /\ \A d \in KeysOf(e) : KeyExists(d)
      /\ KeysOf(e) \subseteq Draws
      /\ RevokeIds(r, KeysOf(e)) /\ RemoveRows(r, KeysOf(e)) /\ UNCHANGED <<home, strays>>
      /\ keys' = [d \in Draws |-> IF d \in KeysOf(e) THEN None ELSE keys[d]]
  BY DEF DeleteUser, KeysOf
<1>2. /\ TableSound' /\ HistorySound' /\ RevokedStaysOut'
      /\ keys' \in [Draws -> AccessKey \cup {None}]
      /\ revoked' \subseteq Draws /\ removed' \subseteq Draws
      /\ \A c \in Draws : KeyExists(c)' => c \notin KeysOf(e) /\ KeyExists(c) /\ keys'[c] = keys[c]
      /\ \A c \in Draws \ KeysOf(e) : keys'[c] = keys[c]
      /\ \A p \in Requests \ {r} : CopySound(areq[p]) =>
           \A q : q = areq[p] => CopySound(q)'
  BY <1>1, TakeOut
<1>3. users' = [users EXCEPT ![e] = None]
  BY DEF DeleteUser, RemoveAdminUser
<1>4. UsersTypeOK' /\ \A f \in Emails \ {e} : UserExists(f)' <=> UserExists(f)
  BY <1>3 DEF UsersTypeOK, AccountsTypeOK, UserExists
<1>5. KeysHaveOwners'
  <2> SUFFICES ASSUME NEW d \in Draws, KeyExists(d)', d \notin strays'
               PROVE  UserExists(keys[d].owner)'
    BY DEF KeysHaveOwners
  <2>1. d \notin KeysOf(e) /\ KeyExists(d) /\ keys'[d] = keys[d]
    BY <1>2
  <2>2. keys[d].owner \in Emails \ {e}
    BY <2>1 DEF KeysOf, AccountsTypeOK, KeyExists, AccessKey
  <2>3. UserExists(keys[d].owner)
    BY <1>1, <2>1 DEF KeysHaveOwners
  <2>4. users'[keys[d].owner] # None
    BY <1>3, <2>2, <2>3 DEF UserExists, AccountsTypeOK, UsersTypeOK
  <2>5. QED
    BY <2>1, <2>4 DEF UserExists
<1>6. ASSUME NEW p \in Requests
      PROVE  RequestSound(areq[p])'
  <2>1. CASE p = r
    BY <2>1, NoRequestStaysSound DEF DeleteUser
  <2>2. CASE p # r
    <3>1. PICK q : q = areq[p]
      OBVIOUS
    <3>2. RequestSound(q) /\ q \in AccountRequests
      BY <3>1 DEF RequestSound
    <3>3. CopySound(q)'
      BY <1>2, <2>2, <3>1, <3>2 DEF RequestSound
    <3>4. CASE q.pc = "saveUser"
      <4>1. q \in UserRequest
        BY <3>2, <3>4, RequestKinds
      <4>2. CASE q.email = e
        <5>1. areq'[p] = [q EXCEPT !.stale = TRUE]
          BY <2>2, <3>1, <3>4, <4>2 DEF DeleteUser, CarriesUser
        <5>2. areq'[p] \in AccountRequests /\ areq'[p].pc = "saveUser" /\ areq'[p].stale
          BY <4>1, <5>1, StaleUserSound
        <5>3. QED
          BY <5>2 DEF RequestSound, CopySound, CopyFresh, UserFresh, OwnerFound, KeyPcs
      <4>3. CASE q.email # e
        <5>1. areq'[p] = q
          BY <2>2, <3>1, <3>4, <4>3 DEF DeleteUser, CarriesUser, Carries
        <5>2. q.email \in Emails \ {e}
          BY <4>1, <4>3 DEF UserRequest
        <5>3. users'[q.email] = users[q.email]
          BY <1>3, <5>2 DEF AccountsTypeOK, UsersTypeOK
        <5>4. QED
          BY <3>2, <3>4, <5>1, <5>3 DEF RequestSound, CopySound, CopyFresh, UserFresh,
             OwnerFound, KeyPcs, UserExists
      <4>4. QED
        BY <4>2, <4>3
    <3>5. CASE q.pc = "createKey"
      <4>1. q \in CreateRequest
        BY <3>2, <3>5, RequestKinds
      <4>2. areq'[p] = [q EXCEPT !.orphan = @ \/ q.owner = e]
        BY <2>2, <3>1, <3>5 DEF DeleteUser, CarriesUser, WritesOwner
      <4>3. /\ areq'[p] \in AccountRequests /\ areq'[p].pc = "createKey"
            /\ areq'[p].owner = q.owner /\ areq'[p].orphan = (q.orphan \/ q.owner = e)
        <5>1. q.orphan \in BOOLEAN /\ q.owner \in Emails /\ (q.orphan \/ q.owner = e) \in BOOLEAN
          BY <4>1 DEF CreateRequest
        <5>2. areq'[p] = [pc |-> "createKey", owner |-> q.owner, orphan |-> (q.orphan \/ q.owner = e)]
          BY <4>1, <4>2 DEF CreateRequest
        <5>3. QED
          BY <5>1, <5>2 DEF CreateRequest, AccountRequests
      <4>4. ~areq'[p].orphan => UserExists(q.owner)'
        BY <1>4, <3>2, <3>5, <4>1, <4>3 DEF RequestSound, OwnerFound, CreateRequest
      <4>5. QED
        BY <4>3, <4>4 DEF RequestSound, CopySound, CopyFresh, UserFresh, OwnerFound, KeyPcs,
           UserExists
    <3>6. CASE q.pc \in KeyPcs
      <4>1. q \in KeyRequest
        BY <3>2, <3>6, RequestKinds
      <4> DEFINE s == q.stale \/ q.row \in KeysOf(e)
                 o == q.orphan \/ (q.pc \in {"saveKey", "rotate"} /\ q.key.owner = e)
      <4>2. areq'[p] = [q EXCEPT !.stale = s, !.orphan = o]
        <5>1. Carries(p, q.row) /\ q.row \in Draws /\ ~CarriesUser(p, e) /\ areq[p].pc # "createKey"
          BY <3>1, <3>6, <4>1 DEF Carries, CarriesUser, KeyRequest, KeyPcs
        <5>2. WritesOwner(p, e) <=> q.pc \in {"saveKey", "rotate"} /\ q.key.owner = e
          BY <3>1, <3>6 DEF WritesOwner, KeyPcs
        <5>3. areq'[p] = [areq[p] EXCEPT !.stale = @ \/ areq[p].row \in KeysOf(e),
                                         !.orphan = @ \/ WritesOwner(p, e)]
          BY <2>2, <5>1 DEF DeleteUser
        <5>4. o = (q.orphan \/ WritesOwner(p, e))
          BY <5>2
        <5>5. QED
          BY <3>1, <4>1, <5>3, <5>4 DEF KeyRequest
      <4>3. s \in BOOLEAN /\ o \in BOOLEAN
        BY <4>1 DEF KeyRequest
      <4>4. (~s => ~q.stale /\ q.row \notin KeysOf(e))
            /\ (~o => ~q.orphan /\ (q.pc \in {"saveKey", "rotate"} => q.key.owner # e))
        OBVIOUS
      <4> HIDE DEF s, o
      <4>5. /\ areq'[p] \in KeyRequest /\ areq'[p] \in AccountRequests
            /\ areq'[p].pc = q.pc /\ areq'[p].row = q.row /\ areq'[p].key = q.key
            /\ areq'[p].stale = s /\ areq'[p].orphan = o
        BY <4>1, <4>2, <4>3 DEF KeyRequest, AccountRequests
      <4>6. CopySound(areq[p])'
        BY <3>3, <4>5 DEF CopySound
      <4>7. CopyFresh(areq[p])'
        <5>1. q.row \in Draws
          BY <4>1 DEF KeyRequest
        <5>2. ~s => keys'[q.row] = keys[q.row]
          BY <1>2, <4>4, <5>1
        <5>3. QED
          BY <3>2, <4>4, <4>5, <5>2 DEF RequestSound, CopyFresh, KeyExists
      <4>8. OwnerFound(areq[p])'
        <5>1. q.key.owner \in Emails
          BY <4>1 DEF KeyRequest, AccessKey
        <5>2. ASSUME q.pc \in {"saveKey", "rotate"}, ~o
              PROVE  users'[q.key.owner] # None
          <6>1. q.key.owner \in Emails \ {e} /\ UserExists(q.key.owner)
            BY <3>2, <4>4, <5>1, <5>2 DEF RequestSound, OwnerFound
          <6>2. QED
            BY <1>3, <6>1 DEF UserExists, AccountsTypeOK, UsersTypeOK
        <5>3. QED
          BY <3>6, <4>5, <5>2 DEF OwnerFound, UserExists, KeyPcs
      <4>9. UserFresh(areq[p])'
        BY <3>6, <4>5 DEF UserFresh, KeyPcs
      <4>10. QED
        BY <4>5, <4>6, <4>7, <4>8, <4>9 DEF RequestSound
    <3>7. CASE q.pc \in {"touch", "idle"}
      <4>1. areq'[p] = q
        BY <2>2, <3>1, <3>7 DEF DeleteUser, CarriesUser, Carries
      <4>2. QED
        BY <3>2, <3>7, <4>1 DEF RequestSound, CopySound, CopyFresh, UserFresh, OwnerFound, KeyPcs
    <3>8. q.pc \in {"saveUser", "createKey", "touch", "idle"} \cup KeyPcs
      BY <3>2 DEF AccountRequests, UserRequest, CreateRequest, KeyRequest, LookupRequest,
         NoRequest, KeyPcs
    <3>9. QED
      BY <3>4, <3>5, <3>6, <3>7, <3>8
  <2>3. QED
    BY <2>1, <2>2
<1>7. AccountsTypeOK'
  <2>1. \A p \in Requests : areq'[p] \in AccountRequests
    BY <1>6 DEF RequestSound
  <2>2. areq' = [p \in Requests |-> areq'[p]]
    BY DEF DeleteUser
  <2>3. areq' \in [Requests -> AccountRequests]
    BY <2>1, <2>2
  <2>4. QED
    BY <1>1, <1>2, <1>4, <2>3 DEF AccountsTypeOK
<1>8. DevHome'
  BY DEF DevHome, DeleteUser
<1>9. QED
  BY <1>2, <1>5, <1>6, <1>7, <1>8

(***************************************************************************)
(* The other steps                                                         *)
(***************************************************************************)

\* Marking a key as used changes nothing that the invariant speaks of.
LEMMA TouchInv ==
  ASSUME AccountsInv, NEW r \in Requests, Touch(r)
  PROVE  AccountsInv'
<1> USE DEF AccountsInv
<1>1. areq' = [areq EXCEPT ![r] = NoRequest] /\ UNCHANGED <<users, home, revoked, removed, strays>>
  BY DEF Touch, Finish
<1>2. /\ keys' \in [Draws -> AccessKey \cup {None}]
      /\ \A d \in Draws : KeyExists(d)' <=> KeyExists(d)
      /\ \A d \in Draws : KeyExists(d) =>
           /\ keys'[d].id = keys[d].id /\ keys'[d].secret = keys[d].secret
           /\ keys'[d].owner = keys[d].owner
  <2>1. CASE UNCHANGED keys
    BY <2>1 DEF AccountsTypeOK, KeyExists
  <2>2. CASE \E d \in Draws : KeyExists(d) /\ keys' = [keys EXCEPT ![d].used = TRUE]
    <3>1. PICK d \in Draws : KeyExists(d) /\ keys' = [keys EXCEPT ![d].used = TRUE]
      BY <2>2
    <3>2. keys[d] \in AccessKey
      BY <3>1 DEF AccountsTypeOK, KeyExists
    <3>3. /\ keys'[d] \in AccessKey
          /\ keys'[d].id = keys[d].id /\ keys'[d].secret = keys[d].secret
          /\ keys'[d].owner = keys[d].owner
      BY <3>1, <3>2 DEF AccessKey, AccountsTypeOK
    <3>4. keys'[d] # None
      BY <3>3, AccountsSentinelAssumption
    <3>5. \A c \in Draws \ {d} : keys'[c] = keys[c]
      BY <3>1 DEF AccountsTypeOK
    <3>6. keys' \in [Draws -> AccessKey \cup {None}]
      BY <3>1, <3>3, <3>5 DEF AccountsTypeOK
    <3>7. QED
      BY <3>1, <3>3, <3>4, <3>5, <3>6 DEF KeyExists
  <2>3. QED
    BY <2>1, <2>2 DEF Touch, TouchAccessKey
<1>3. TableSound' /\ HistorySound' /\ RevokedStaysOut' /\ KeysHaveOwners'
  BY <1>1, <1>2 DEF TableSound, HistorySound, RevokedStaysOut, KeysHaveOwners, DrawnFor, UserExists
<1>4. ASSUME NEW p \in Requests
      PROVE  RequestSound(areq[p])'
  <2>1. CASE p = r
    <3>1. areq'[p] = NoRequest
      BY <1>1, <2>1 DEF AccountsTypeOK
    <3>2. QED
      BY <3>1, NoRequestStaysSound
  <2>2. CASE p # r
    <3>1. PICK q : q = areq[p]
      OBVIOUS
    <3>2. RequestSound(q) /\ q \in AccountRequests /\ areq'[p] = q
      BY <1>1, <2>2, <3>1 DEF RequestSound, AccountsTypeOK
    <3>3. q.pc \in KeyPcs => q.row \in Draws
      BY <3>2, RequestKinds DEF KeyRequest
    <3>4. QED
      BY <1>1, <1>2, <3>2, <3>3 DEF RequestSound, CopySound, CopyFresh, UserFresh, OwnerFound,
         DrawnFor, UserExists
  <2>3. QED
    BY <2>1, <2>2
<1>5. AccountsTypeOK'
  BY <1>1, <1>2 DEF AccountsTypeOK, UsersTypeOK, AccountRequests
<1>6. DevHome'
  BY <1>1 DEF DevHome
<1>7. QED
  BY <1>3, <1>4, <1>5, <1>6

\* A restart seeds the tables again and forgets every request.
LEMMA RestartInv ==
  ASSUME AccountsInv, Restart
  PROVE  AccountsInv'
<1> USE AccountsAssumption, UsersAssumption DEF Restart
<1>1. [profile |-> RootProfile, password |-> RootPassword] \in User
  BY DEF User
<1>2. SeededUsers \in [Emails -> User \cup {None}]
  BY <1>1 DEF SeededUsers
<1>3. [id |-> DevDraw, secret |-> DevDraw, owner |-> Root, status |-> "Active", used |-> FALSE]
        \in AccessKey
  BY DEF AccessKey, Statuses
<1>4. SeededKeys \in [Draws -> AccessKey \cup {None}]
  BY <1>3 DEF SeededKeys
<1>5. AccountsTypeOK'
  BY <1>2, <1>4 DEF AccountsTypeOK, UsersTypeOK, AccountRequests, AccountsInv
<1>6. \A d \in Draws : KeyExists(d)' => d = DevDraw
  BY DEF KeyExists, SeededKeys
<1>7. keys'[DevDraw].id = DevDraw /\ keys'[DevDraw].secret = DevDraw /\ keys'[DevDraw].owner = Root
  BY DEF SeededKeys
<1>8. home[DevDraw] = DevDraw /\ DevDraw # None
  BY AccountsSentinelAssumption DEF AccountsInv, DevHome
<1>9. TableSound' /\ HistorySound' /\ RevokedStaysOut'
  BY <1>6, <1>7, <1>8 DEF TableSound, HistorySound, RevokedStaysOut, DrawnFor, AccountsInv
<1>10. users'[Root] # None
  BY <1>1, UserSentinelAssumption DEF SeededUsers
<1>11. KeysHaveOwners'
  BY <1>6, <1>7, <1>10 DEF KeysHaveOwners, UserExists
<1>12. \A p \in Requests : RequestSound(areq[p])'
  BY NoRequestStaysSound
<1>13. DevHome'
  BY DEF DevHome, AccountsInv
<1>14. QED
  BY <1>5, <1>9, <1>11, <1>12, <1>13 DEF AccountsInv

\* A read, a check of an owner, a lookup or a refusal changes one request.
LEMMA ReadInv ==
  ASSUME AccountsInv, NEW r \in Requests,
         \/ \E e \in Emails : ReadUser(r, e) \/ FindOwner(r, e) \/ FindNewOwner(r, e)
         \/ \E d \in Draws, pc \in {"findOwner", "rotate"} : ReadKey(r, d, pc)
         \/ \E d \in Draws : Lookup(r, d)
         \/ Refuse(r)
  PROVE  AccountsInv'
<1> USE DEF AccountsInv
<1> DEFINE Moves(q) == areq' = [areq EXCEPT ![r] = q]
<1>1. UNCHANGED <<users, keys, home, revoked, removed, strays>>
  BY DEF ReadUser, FindOwner, FindNewOwner, ReadKey, Lookup, Refuse, UserStep
<1>2. ASSUME NEW e \in Emails, ReadUser(r, e)
      PROVE  \E q : RequestSound(q) /\ Moves(q)
  <2>1. [pc |-> "saveUser", email |-> e, user |-> users[e], stale |-> FALSE] \in UserRequest
    BY <1>2 DEF ReadUser, UserExists, UserRequest, AccountsTypeOK, UsersTypeOK
  <2>2. RequestSound([pc |-> "saveUser", email |-> e, user |-> users[e], stale |-> FALSE])
    BY <1>2, <2>1 DEF ReadUser, RequestSound, CopySound, CopyFresh, UserFresh, OwnerFound, KeyPcs,
       AccountRequests
  <2>3. QED
    BY <1>2, <2>2 DEF ReadUser
<1>3. ASSUME NEW e \in Emails, FindOwner(r, e)
      PROVE  \E q : RequestSound(q) /\ Moves(q)
  <2>1. RequestSound([pc |-> "createKey", owner |-> e, orphan |-> FALSE])
    BY <1>3 DEF FindOwner, RequestSound, CopySound, CopyFresh, UserFresh, OwnerFound, KeyPcs,
       AccountRequests, CreateRequest
  <2>2. QED
    BY <1>3, <2>1 DEF FindOwner
<1>4. ASSUME NEW e \in Emails, FindNewOwner(r, e)
      PROVE  \E q : RequestSound(q) /\ Moves(q)
  <2>1. areq[r] \in KeyRequest /\ areq[r].pc = "findOwner" /\ RequestSound(areq[r])
    BY <1>4, RequestKinds DEF FindNewOwner, RequestSound, KeyPcs
  <2>2. PICK q : q = [areq[r] EXCEPT !.pc = "saveKey", !.key.owner = e, !.orphan = FALSE]
    OBVIOUS
  <2>3. /\ q \in KeyRequest /\ q.pc = "saveKey" /\ q.row = areq[r].row
        /\ q.key.id = areq[r].key.id /\ q.key.secret = areq[r].key.secret
        /\ q.key.owner = e /\ ~q.orphan /\ q.stale = areq[r].stale
    BY <2>1, <2>2 DEF KeyRequest, AccessKey
  <2>4. q \in AccountRequests
    BY <2>3 DEF AccountRequests
  <2>5. RequestSound(q)
    BY <1>4, <2>1, <2>3, <2>4 DEF FindNewOwner, RequestSound, CopySound, CopyFresh, UserFresh,
       OwnerFound, DrawnFor, KeyPcs
  <2>6. areq' = [areq EXCEPT ![r] = q]
    BY <1>4, <2>2 DEF FindNewOwner
  <2>7. QED
    BY <2>5, <2>6
<1>5. ASSUME NEW d \in Draws, NEW pc \in {"findOwner", "rotate"}, ReadKey(r, d, pc)
      PROVE  \E q : RequestSound(q) /\ Moves(q)
  <2>1. PICK q : q = [pc |-> pc, row |-> d, key |-> keys[d], stale |-> FALSE,
                      orphan |-> d \in strays]
    OBVIOUS
  <2>2. keys[d] \in AccessKey /\ KeyExists(d)
    BY <1>5 DEF ReadKey, KeyExists, AccountsTypeOK
  <2>3. (d \in strays) \in BOOLEAN
    OBVIOUS
  <2>4. /\ q \in KeyRequest /\ q.pc = pc /\ q.row = d /\ q.key = keys[d]
        /\ q.stale = FALSE /\ q.orphan = (d \in strays)
    BY <2>1, <2>2, <2>3 DEF KeyRequest
  <2>5. q \in AccountRequests
    BY <2>4 DEF AccountRequests
  <2>6. CopySound(q) /\ CopyFresh(q) /\ UserFresh(q)
    BY <2>2, <2>4 DEF CopySound, CopyFresh, UserFresh, TableSound, RevokedStaysOut
  <2>7. OwnerFound(q)
    BY <2>2, <2>4 DEF OwnerFound, KeysHaveOwners
  <2>8. RequestSound(q)
    BY <2>5, <2>6, <2>7 DEF RequestSound
  <2>9. QED
    BY <1>5, <2>1, <2>8 DEF ReadKey
<1>6. ASSUME NEW d \in Draws, Lookup(r, d)
      PROVE  \E q : RequestSound(q) /\ Moves(q)
  <2>1. RequestSound([pc |-> "touch", id |-> d])
    BY DEF RequestSound, CopySound, CopyFresh, UserFresh, OwnerFound, KeyPcs,
       AccountRequests, LookupRequest
  <2>2. QED
    BY <1>6, <2>1 DEF Lookup
<1>7. ASSUME Refuse(r)
      PROVE  \E q : RequestSound(q) /\ Moves(q)
  <2>1. Moves(NoRequest)
    BY <1>7 DEF Refuse, Finish
  <2>2. QED
    BY <2>1, NoRequestSound
<1>8. \E q : RequestSound(q) /\ Moves(q)
  <2> HIDE DEF Moves
  <2>1. QED
    BY <1>2, <1>3, <1>4, <1>5, <1>6, <1>7
<1>9. QED
  BY <1>1, <1>8, MoveInv

\* A step that leaves every variable alone keeps the invariant.
LEMMA AccountsStutterInv == AccountsInv /\ UNCHANGED accountVars => AccountsInv'
<1> SUFFICES ASSUME AccountsInv, UNCHANGED accountVars PROVE AccountsInv'
  OBVIOUS
<1>1. AccountsTypeOK' /\ DevHome'
  BY DEF AccountsInv, AccountsTypeOK, UsersTypeOK, DevHome, accountVars
<1>2. TableSound' /\ HistorySound' /\ RevokedStaysOut' /\ KeysHaveOwners'
  BY DEF AccountsInv, TableSound, HistorySound, RevokedStaysOut, KeysHaveOwners, KeyExists,
     DrawnFor, UserExists, accountVars
<1>3. \A r \in Requests : RequestSound(areq[r])'
  BY DEF AccountsInv, RequestSound, CopySound, CopyFresh, UserFresh, OwnerFound, KeyExists,
     DrawnFor, UserExists, accountVars
<1>4. QED
  BY <1>1, <1>2, <1>3 DEF AccountsInv

\* updateUser writes a user: the password is that of the request or the one it read.
LEMMA SaveUserInv ==
  ASSUME AccountsInv, NEW r \in Requests, NEW profile \in Profiles,
         NEW password \in Passwords \cup {None}, SaveUser(r, profile, password)
  PROVE  AccountsInv'
<1>1. areq[r] \in UserRequest
  BY RequestKinds DEF SaveUser, AccountsInv, RequestSound
<1>2. PICK user \in User :
        user = [profile |-> profile,
                password |-> IF password = None THEN areq[r].user.password ELSE password]
  BY <1>1 DEF UserRequest, User
<1>3. areq[r].email \in Emails
  BY <1>1 DEF UserRequest
<1>4. UpsertAdminUser(areq[r].email, user) /\ FinishStalingUser(r, areq[r].email) /\ UserStep
  BY <1>2 DEF SaveUser
<1>5. QED
  BY <1>3, <1>4, WriteUserInv

\* Every step of the specification keeps the invariant.
LEMMA AccountsStepInv == AccountsInv /\ [AccountsNext]_accountVars => AccountsInv'
<1> SUFFICES ASSUME AccountsInv, [AccountsNext]_accountVars PROVE AccountsInv'
  OBVIOUS
<1>1. ASSUME NEW r \in Requests, UserNext(r) PROVE AccountsInv'
  <2>1. ASSUME NEW e \in Emails, NEW p \in Profiles, NEW w \in Passwords, CreateUser(r, e, p, w)
        PROVE  AccountsInv'
    <3>1. PICK user \in User : user = [profile |-> p, password |-> w]
      BY DEF User
    <3>2. UpsertAdminUser(e, user) /\ FinishStalingUser(r, e) /\ UserStep
      BY <2>1, <3>1 DEF CreateUser
    <3>3. QED
      BY <3>2, WriteUserInv
  <2>2. ASSUME NEW e \in Emails, ReadUser(r, e) PROVE AccountsInv'
    BY <2>2, ReadInv
  <2>3. ASSUME NEW e \in Emails, DeleteUser(r, e) PROVE AccountsInv'
    BY <2>3, DeleteUserInv
  <2>4. ASSUME NEW p \in Profiles, NEW w \in Passwords \cup {None}, SaveUser(r, p, w)
        PROVE  AccountsInv'
    BY <2>4, SaveUserInv
  <2>5. QED
    BY <1>1, <2>1, <2>2, <2>3, <2>4 DEF UserNext
<1>2. ASSUME NEW r \in Requests, KeyNext(r) PROVE AccountsInv'
  <2>1. ASSUME NEW e \in Emails, FindOwner(r, e) \/ FindNewOwner(r, e) PROVE AccountsInv'
    BY <2>1, ReadInv
  <2>2. ASSUME NEW d \in Draws, NEW s \in Statuses, CreateAccessKey(r, d, s) PROVE AccountsInv'
    BY <2>2, CreateAccessKeyInv
  <2>3. ASSUME NEW d \in Draws, NEW pc \in {"findOwner", "rotate"}, ReadKey(r, d, pc)
        PROVE  AccountsInv'
    BY <2>3, ReadInv
  <2>4. ASSUME NEW s \in Statuses, SaveAccessKey(r, s) PROVE AccountsInv'
    BY <2>4, SaveAccessKeyInv
  <2>5. ASSUME NEW d \in Draws, RotateAccessKey(r, d) PROVE AccountsInv'
    BY <2>5, RotateAccessKeyInv
  <2>6. ASSUME NEW d \in Draws, DeleteAccessKey(r, d) PROVE AccountsInv'
    BY <2>6, DeleteAccessKeyInv
  <2>7. ASSUME NEW d \in Draws, Lookup(r, d) PROVE AccountsInv'
    BY <2>7, ReadInv
  <2>8. CASE Touch(r)
    BY <2>8, TouchInv
  <2>9. QED
    BY <1>2, <2>1, <2>2, <2>3, <2>4, <2>5, <2>6, <2>7, <2>8 DEF KeyNext
<1>3. ASSUME NEW r \in Requests, Refuse(r) PROVE AccountsInv'
  BY <1>3, ReadInv
<1>4. CASE Restart
  BY <1>4, RestartInv
<1>5. CASE UNCHANGED accountVars
  BY <1>5, AccountsStutterInv
<1>6. QED
  BY <1>1, <1>2, <1>3, <1>4, <1>5 DEF AccountsNext

\* An update of a key that no other write overlapped.
LEMMA SaveAccessKeyNarrow ==
  ASSUME AccountsInv, NEW r \in Requests, NEW s \in Statuses,
         SaveAccessKey(r, s), ~areq[r].stale
  PROVE  /\ KeyExists(areq[r].row)
         /\ keys'[areq[r].row] =
              [keys[areq[r].row] EXCEPT !.owner = areq[r].key.owner, !.status = s]
<1>1. areq[r] \in KeyRequest /\ RequestSound(areq[r]) /\ areq[r].pc = "saveKey"
  BY RequestKinds DEF AccountsInv, RequestSound, SaveAccessKey, KeyPcs
<1>2. PICK d \in Draws, key \in AccessKey : d = areq[r].row /\ key = areq[r].key
  BY <1>1 DEF KeyRequest
<1>3. KeyExists(d) /\ keys[d].id = key.id /\ key.secret = key.id
  BY <1>1, <1>2 DEF RequestSound, CopyFresh, CopySound, DrawnFor, KeyPcs
<1>4. keys[d] \in AccessKey /\ keys[d].secret = keys[d].id
  BY <1>3 DEF AccountsInv, AccountsTypeOK, KeyExists, TableSound, DrawnFor
<1>5. keys'[d] = [[key EXCEPT !.status = s] EXCEPT !.used = keys[d].used]
  BY <1>2, <1>3 DEF SaveAccessKey, UpsertAccessKey, UseOf, AccountsInv, AccountsTypeOK
<1>6. keys'[d] = [keys[d] EXCEPT !.owner = key.owner, !.status = s]
  BY <1>3, <1>4, <1>5 DEF AccessKey
<1>7. QED
  BY <1>2, <1>3, <1>6

\* A rotation that no other write overlapped.
LEMMA RotateAccessKeyNarrow ==
  ASSUME AccountsInv, NEW r \in Requests, NEW i \in Draws,
         RotateAccessKey(r, i), ~areq[r].stale
  PROVE  /\ KeyExists(areq[r].row)
         /\ keys'[areq[r].row] =
              [keys[areq[r].row] EXCEPT !.id = i, !.secret = i, !.status = "Active"]
<1>1. areq[r] \in KeyRequest /\ RequestSound(areq[r]) /\ areq[r].pc = "rotate"
  BY RequestKinds DEF AccountsInv, RequestSound, RotateAccessKey, KeyPcs
<1>2. PICK d \in Draws, key \in AccessKey : d = areq[r].row /\ key = areq[r].key
  BY <1>1 DEF KeyRequest
<1>3. KeyExists(d) /\ keys[d].owner = key.owner
  BY <1>1, <1>2 DEF RequestSound, CopyFresh, KeyPcs
<1>4. keys[d] \in AccessKey
  BY <1>3 DEF AccountsInv, AccountsTypeOK, KeyExists
<1>5. keys'[d] = [[key EXCEPT !.id = i, !.secret = i, !.status = "Active"]
                     EXCEPT !.used = keys[d].used]
  BY <1>2, <1>3 DEF RotateAccessKey, UpsertAccessKey, UseOf, AccountsInv, AccountsTypeOK
<1>6. keys'[d] = [keys[d] EXCEPT !.id = i, !.secret = i, !.status = "Active"]
  BY <1>3, <1>4, <1>5 DEF AccessKey
<1>7. QED
  BY <1>2, <1>3, <1>6

\* An update without a password that no other write of the user overlapped.
LEMMA SaveUserNarrow ==
  ASSUME AccountsInv, NEW r \in Requests, NEW p \in Profiles,
         SaveUser(r, p, None), ~areq[r].stale
  PROVE  /\ UserExists(areq[r].email)
         /\ users'[areq[r].email] = [users[areq[r].email] EXCEPT !.profile = p]
<1>1. areq[r] \in UserRequest /\ RequestSound(areq[r]) /\ areq[r].pc = "saveUser"
  BY RequestKinds DEF AccountsInv, RequestSound, SaveUser
<1>2. PICK e \in Emails, user \in User : e = areq[r].email /\ user = areq[r].user
  BY <1>1 DEF UserRequest
<1>3. UserExists(e) /\ users[e] = user
  BY <1>1, <1>2 DEF RequestSound, UserFresh
<1>4. users'[e] = [profile |-> p, password |-> user.password]
  BY <1>2 DEF SaveUser, UpsertAdminUser, AccountsInv, AccountsTypeOK, UsersTypeOK
<1>5. QED
  BY <1>2, <1>3, <1>4 DEF User

(***************************************************************************)
(* Theorems                                                                *)
(***************************************************************************)

\* The tables of users and keys, and every record that a handler carries
\* between its read and its write, are always sound.
THEOREM AccountsInvariant == AccountsSpec => []AccountsInv
<1>1. QED
  BY InitInv, AccountsStepInv, PTL DEF AccountsSpec

\* Tables and requests always have their types.
THEOREM AccountsTypeCorrect == AccountsSpec => []AccountsTypeOK
<1>1. AccountsInv => AccountsTypeOK
  BY DEF AccountsInv
<1>2. QED
  BY <1>1, AccountsInvariant, PTL

\* GetAccessKeyByAccessKeyID has at most one row to find.
THEOREM CredentialsAlwaysUnambiguous == AccountsSpec => []CredentialsUnambiguous
<1>1. AccountsInv => CredentialsUnambiguous
  BY DEF AccountsInv, TableSound, DrawnFor, CredentialsUnambiguous
<1>2. QED
  BY <1>1, AccountsInvariant, PTL

\* What a rotation or a deletion took out while no request carried it stays out.
THEOREM RevokedNeverReturns == AccountsSpec => []RevokedStaysOut
<1>1. AccountsInv => RevokedStaysOut
  BY DEF AccountsInv
<1>2. QED
  BY <1>1, AccountsInvariant, PTL

\* Every key has an owner that was not deleted under the eyes of its writer.
THEOREM KeysAlwaysHaveOwners == AccountsSpec => []KeysHaveOwners
<1>1. AccountsInv => KeysHaveOwners
  BY DEF AccountsInv
<1>2. QED
  BY <1>1, AccountsInvariant, PTL

\* An update or rotation that nothing overlapped changes what it was asked to
\* change: its copy is what the table holds (CopyFresh, UserFresh).
THEOREM UpdatesAlwaysNarrow == AccountsSpec => UpdatesAreNarrow
<1>1. AccountsInv =>
        \A r \in Requests :
          /\ \A s \in Statuses : SaveAccessKey(r, s) /\ ~areq[r].stale =>
               LET d == areq[r].row
               IN  /\ KeyExists(d)
                   /\ keys'[d] = [keys[d] EXCEPT !.owner = areq[r].key.owner, !.status = s]
          /\ \A i \in Draws : RotateAccessKey(r, i) /\ ~areq[r].stale =>
               LET d == areq[r].row
               IN  /\ KeyExists(d)
                   /\ keys'[d] = [keys[d] EXCEPT !.id = i, !.secret = i, !.status = "Active"]
          /\ \A p \in Profiles : SaveUser(r, p, None) /\ ~areq[r].stale =>
               LET e == areq[r].email
               IN  /\ UserExists(e)
                   /\ users'[e] = [users[e] EXCEPT !.profile = p]
  BY SaveAccessKeyNarrow, RotateAccessKeyNarrow, SaveUserNarrow
<1>2. QED
  BY <1>1, AccountsInvariant, PTL DEF UpdatesAreNarrow

\* Writing back an old copy of a row does not make a used key look unused.
THEOREM UseAlwaysRemembered == AccountsSpec => UseIsRemembered
<1> DEFINE Remembered(d) ==
      KeyExists(d) /\ keys[d].used /\ keys'[d] # None => keys'[d].used \/ Restart
<1>1. ASSUME AccountsInv, NEW d \in Draws, NEW c \in Draws, NEW key \in AccessKey,
             UpsertAccessKey(c, key)
      PROVE  Remembered(d)
  <2>1. keys \in [Draws -> AccessKey \cup {None}]
    BY <1>1 DEF AccountsInv, AccountsTypeOK
  <2>2. CASE d = c
    BY <1>1, <2>1, <2>2 DEF UpsertAccessKey, UseOf, AccessKey
  <2>3. CASE d # c
    BY <1>1, <2>1, <2>3 DEF UpsertAccessKey
  <2>4. QED
    BY <2>2, <2>3
<1>2. ASSUME AccountsInv, AccountsNext, NEW d \in Draws PROVE Remembered(d)
  <2>1. keys \in [Draws -> AccessKey \cup {None}]
    BY <1>2 DEF AccountsInv, AccountsTypeOK
  <2>2. ASSUME NEW r \in Requests, UserNext(r) PROVE Remembered(d)
    BY <2>1, <2>2 DEF UserNext, CreateUser, ReadUser, SaveUser, DeleteUser, UserStep
  <2>3. ASSUME NEW r \in Requests, KeyNext(r) PROVE Remembered(d)
    <3>1. ASSUME NEW e \in Emails, FindOwner(r, e) \/ FindNewOwner(r, e) PROVE Remembered(d)
      BY <3>1 DEF FindOwner, FindNewOwner, UserStep
    <3>2. ASSUME NEW c \in Draws, NEW s \in Statuses, CreateAccessKey(r, c, s)
          PROVE  Remembered(d)
      <4>1. areq[r] \in CreateRequest
        BY <1>2, <3>2, RequestKinds DEF CreateAccessKey, AccountsInv, RequestSound
      <4>2. PICK key \in AccessKey :
              key = [id |-> c, secret |-> c, owner |-> areq[r].owner, status |-> s,
                     used |-> FALSE]
        BY <4>1 DEF AccessKey, CreateRequest
      <4>3. UpsertAccessKey(c, key)
        BY <3>2, <4>2 DEF CreateAccessKey
      <4>4. QED
        BY <1>1, <1>2, <4>3
    <3>3. ASSUME NEW c \in Draws, NEW pc \in {"findOwner", "rotate"}, ReadKey(r, c, pc)
          PROVE  Remembered(d)
      BY <3>3 DEF ReadKey, UserStep
    <3>4. ASSUME NEW s \in Statuses, SaveAccessKey(r, s) PROVE Remembered(d)
      <4>1. areq[r] \in KeyRequest
        BY <1>2, <3>4, RequestKinds DEF SaveAccessKey, AccountsInv, RequestSound, KeyPcs
      <4>2. PICK c \in Draws, key \in AccessKey :
              c = areq[r].row /\ key = [areq[r].key EXCEPT !.status = s]
        BY <4>1 DEF KeyRequest, AccessKey
      <4>3. UpsertAccessKey(c, key)
        BY <3>4, <4>2 DEF SaveAccessKey
      <4>4. QED
        BY <1>1, <1>2, <4>3
    <3>5. ASSUME NEW i \in Draws, RotateAccessKey(r, i) PROVE Remembered(d)
      <4>1. areq[r] \in KeyRequest
        BY <1>2, <3>5, RequestKinds DEF RotateAccessKey, AccountsInv, RequestSound, KeyPcs
      <4>2. PICK c \in Draws, key \in AccessKey :
              /\ c = areq[r].row
              /\ key = [areq[r].key EXCEPT !.id = i, !.secret = i, !.status = "Active"]
        BY <4>1 DEF KeyRequest, AccessKey, Statuses
      <4>3. UpsertAccessKey(c, key)
        BY <3>5, <4>2 DEF RotateAccessKey
      <4>4. QED
        BY <1>1, <1>2, <4>3
    <3>6. ASSUME NEW c \in Draws, DeleteAccessKey(r, c) PROVE Remembered(d)
      BY <2>1, <3>6 DEF DeleteAccessKey
    <3>7. ASSUME NEW c \in Draws, Lookup(r, c) PROVE Remembered(d)
      BY <3>7 DEF Lookup, UserStep
    <3>8. CASE Touch(r)
      <4>1. CASE UNCHANGED keys
        BY <4>1
      <4>2. ASSUME NEW c \in Draws, KeyExists(c), keys' = [keys EXCEPT ![c].used = TRUE]
            PROVE  Remembered(d)
        <5>1. keys[c] \in AccessKey
          BY <2>1, <4>2 DEF KeyExists
        <5>2. QED
          BY <2>1, <4>2, <5>1 DEF AccessKey
      <4>3. QED
        BY <3>8, <4>1, <4>2 DEF Touch, TouchAccessKey
    <3>9. QED
      BY <2>3, <3>1, <3>2, <3>3, <3>4, <3>5, <3>6, <3>7, <3>8 DEF KeyNext
  <2>4. ASSUME NEW r \in Requests, Refuse(r) PROVE Remembered(d)
    BY <2>4 DEF Refuse, UserStep
  <2>5. QED
    BY <1>2, <2>2, <2>3, <2>4 DEF AccountsNext
<1>3. AccountsInv /\ [AccountsNext]_accountVars =>
        [\A d \in Draws : Remembered(d)]_accountVars
  BY <1>2
<1>4. QED
  BY <1>3, AccountsInvariant, PTL DEF AccountsSpec, UseIsRemembered
=============================================================================
