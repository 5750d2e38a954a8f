---------------------------- MODULE SessionsProofs ----------------------------
(***************************************************************************)
(* Proofs about the sessions of the admin API, for every number of users,   *)
(* sessions and requests: whatever calls to Redis fail, take effect without *)
(* an answer, or come late.                                                 *)
(*                                                                         *)
(* The properties speak of what a request has found; the invariant says why *)
(* it found that.  Both copies of a session are of the user it was handed   *)
(* out to (StoredForOwner); a session that was handed out and is in neither *)
(* place stays dead and has a reason to be (DeadHasEnded), for its id is    *)
(* not drawn again and only a login that has not handed it out yet writes   *)
(* it (KeepOK); and a request carries no more than it has read (AskOK).     *)
(***************************************************************************)
EXTENDS Sessions, TLAPS

\* The session was handed out, and no store holds it any more.
Dead(s) == owner[s] # None /\ redis[s] = None /\ ~Fresh(s)

StoredForOwner ==
    \A s \in SessionIds :
        /\ owner[s] # None => redis[s] \in {owner[s], None}
        /\ fallback[s] # None => owner[s] # None /\ fallback[s].email = owner[s]

DeadHasEnded == \A s \in SessionIds : Dead(s) => s \in ended

GoneIsDead == \A s \in gone : Dead(s)

\* A login that Redis did not acknowledge still has its id for itself.
KeepOK(q) ==
    q.pc = "keep" => owner[q.session] = None /\ redis[q.session] \in {q.email, None}

KeptOnce ==
    \A q, r \in Requests :
        /\ q # r
        /\ sreq[q].pc = "keep"
        /\ sreq[r].pc = "keep"
        => sreq[q].session # sreq[r].session

LogoutOK(q) ==
    q.pc \in {"del", "drop"} =>
        /\ owner[q.session] # None
        /\ q.session \in ended
        /\ q.pc = "drop" /\ q.reached => redis[q.session] = None

AskOK(q) ==
    q.pc \in {"redis", "fallback", "check", "record"} =>
        /\ owner[q.session] # None
        /\ q.late => q.for = "session" /\ Dead(q.session)
        /\ q.pc = "fallback" /\ q.answered => redis[q.session] = None
        /\ q.pc = "check" => q.for = "user" /\ q.email \in {owner[q.session], System}
        /\ q.for = "actor" /\ q.pc # "record" => q.email = owner[q.session]
        /\ q.pc = "record" =>
             /\ q.for = "actor" /\ q.email \in {owner[q.session], System}
             /\ q.email = System /\ q.answered => q.session \in ended

RequestOK(q) == KeepOK(q) /\ LogoutOK(q) /\ AskOK(q)

SessionsInv ==
    /\ SessionsTypeOK
    /\ StoredForOwner
    /\ DeadHasEnded
    /\ GoneIsDead
    /\ KeptOnce
    /\ \A r \in Requests : RequestOK(sreq[r])

\* What a request carries at each step of its handler.
LEMMA Carries ==
  ASSUME NEW q \in SessionRequests
  PROVE  /\ q.pc = "set" => q \in LoginRequest
         /\ q.pc = "keep" => q \in KeepRequest
         /\ q.pc \in {"del", "drop"} => q \in LogoutRequest
         /\ q.pc \in {"redis", "fallback", "check", "record"} => q \in GuardedRequest
         /\ \/ q.pc \in {"idle", "set", "keep", "del", "drop", "redis", "fallback", "check",
                      "record"}
  BY DEF SessionRequests, LoginRequest, KeepRequest, LogoutRequest, GuardedRequest, NoRequest

\* The table of users stays well typed.
LEMMA SeededType == SeededUsers \in [Emails -> User \cup {None}]
  BY UsersAssumption DEF SeededUsers, User

LEMMA ChangeUsersType ==
  ASSUME UsersTypeOK, ChangeUsers
  PROVE  UsersTypeOK'
  BY DEF ChangeUsers, UsersTypeOK, RemoveAdminUser, UpsertAdminUser

\* No session is there when the process first starts.
LEMMA SessionsInitInv == SessionsInit => SessionsInv
<1> SUFFICES ASSUME SessionsInit PROVE SessionsInv
  OBVIOUS
<1> USE DEF SessionsInit
<1>1. SessionsTypeOK
  BY SeededType DEF SessionsTypeOK, UsersTypeOK, SessionRequests
<1>2. StoredForOwner /\ DeadHasEnded /\ GoneIsDead
  BY DEF StoredForOwner, DeadHasEnded, GoneIsDead, Dead
<1>3. KeptOnce /\ \A r \in Requests : RequestOK(sreq[r])
  BY DEF KeptOnce, RequestOK, KeepOK, LogoutOK, AskOK, NoRequest
<1>4. QED
  BY <1>1, <1>2, <1>3 DEF SessionsInv

(***************************************************************************)
(* What a step leaves alone                                                *)
(***************************************************************************)

\* No session is handed out; the stores forget sessions and learn none.
OnlyForgets ==
    /\ owner' = owner
    /\ ended \subseteq ended'
    /\ \A s \in SessionIds :
         /\ redis'[s] \in {redis[s], None}
         /\ fallback'[s] # None => fallback[s] # None /\ fallback'[s].email = fallback[s].email
         /\ Fresh(s)' => Fresh(s)

\* A request that does not move keeps what it relies on: a dead session stays dead.
LEMMA ForgettingKeeps ==
  ASSUME SessionsTypeOK, OnlyForgets, NEW q \in SessionRequests, RequestOK(q)
  PROVE  RequestOK(q)'
<1>1. \A s \in SessionIds : /\ Dead(s) => Dead(s)'
                            /\ redis[s] = None => redis'[s] = None
                            /\ owner'[s] = owner[s]
  BY DEF OnlyForgets, Dead
<1>2. KeepOK(q)'
  <2> SUFFICES ASSUME q.pc = "keep"
               PROVE  owner'[q.session] = None /\ redis'[q.session] \in {q.email, None}
    BY DEF KeepOK
  <2>1. q.session \in SessionIds
    BY Carries DEF KeepRequest
  <2>2. QED
    BY <1>1, <2>1 DEF RequestOK, KeepOK, OnlyForgets
<1>3. LogoutOK(q)'
  <2> SUFFICES ASSUME q.pc \in {"del", "drop"}
               PROVE  /\ owner'[q.session] # None
                      /\ q.session \in ended'
                      /\ q.pc = "drop" /\ q.reached => redis'[q.session] = None
    BY DEF LogoutOK
  <2>1. q.session \in SessionIds
    BY Carries DEF LogoutRequest
  <2>2. QED
    BY <1>1, <2>1 DEF RequestOK, LogoutOK, OnlyForgets
<1>4. AskOK(q)'
  <2>1. q.pc \in {"redis", "fallback", "check", "record"} => q.session \in SessionIds
    BY Carries DEF GuardedRequest
  <2>2. QED
    BY <1>1, <2>1 DEF RequestOK, AskOK, OnlyForgets
<1>5. QED
  BY <1>2, <1>3, <1>4 DEF RequestOK

\* The stores: what is kept is still kept for its owner, and the dead are dead.
LEMMA ForgettingStores ==
  ASSUME SessionsInv, OnlyForgets
  PROVE  StoredForOwner' /\ (\A s \in gone : Dead(s)')
<1>1. StoredForOwner'
  BY DEF SessionsInv, StoredForOwner, OnlyForgets
<1>2. \A s \in gone : Dead(s)'
  BY DEF SessionsInv, SessionsTypeOK, GoneIsDead, OnlyForgets, Dead
<1>3. QED
  BY <1>1, <1>2

\* A step of request r that stores nothing: it is enough to look at what becomes
\* of r, and at the sessions that die of the step.
LEMMA ForgettingStep ==
  ASSUME SessionsInv, OnlyForgets, SessionsTypeOK',
         NEW R \in SUBSET Requests,
         \A r \in Requests \ R : sreq'[r] = sreq[r],
         \A r \in R : sreq'[r].pc # "keep" /\ RequestOK(sreq[r])',
         \A s \in SessionIds : Dead(s)' => Dead(s) \/ s \in ended',
         \A s \in gone' \ gone : Dead(s)'
  PROVE  SessionsInv'
<1>1. StoredForOwner' /\ (\A s \in gone : Dead(s)')
  BY ForgettingStores
<1>2. GoneIsDead'
  BY <1>1 DEF GoneIsDead
<1>3. DeadHasEnded'
  BY DEF SessionsInv, DeadHasEnded, OnlyForgets
<1>4. KeptOnce'
  BY DEF SessionsInv, KeptOnce
<1>5. ASSUME NEW r \in Requests
      PROVE  RequestOK(sreq[r])'
  <2>1. CASE r \in R
    BY <2>1
  <2>2. CASE r \notin R
    <3>1. PICK q \in SessionRequests : q = sreq[r]
      BY DEF SessionsInv, SessionsTypeOK
    <3>2. RequestOK(q)'
      BY <3>1, ForgettingKeeps DEF SessionsInv
    <3>3. sreq'[r] = q
      BY <2>2, <3>1
    <3>4. QED
      BY <3>2, <3>3 DEF RequestOK, KeepOK, LogoutOK, AskOK
  <2>3. QED
    BY <2>1, <2>2
<1>6. QED
  BY <1>1, <1>2, <1>3, <1>4, <1>5 DEF SessionsInv

\* Nothing changes but the users and the requests.
LEMMA QuietForgets ==
  ASSUME UNCHANGED <<redis, fallback, owner, gone, ended>>
  PROVE  OnlyForgets /\ (\A s \in SessionIds : Dead(s)' <=> Dead(s))
  BY DEF OnlyForgets, Dead, Fresh

\* A step of request r that stores nothing, one argument at a time.
LEMMA ForgettingMove ==
  ASSUME SessionsInv, OnlyForgets, NEW r \in Requests, NEW q \in SessionRequests,
         q.pc # "keep", RequestOK(q)', sreq' = [sreq EXCEPT ![r] = q],
         users' = users,
         redis' \in [SessionIds -> Emails \cup {None}],
         fallback' \in [SessionIds -> Items \cup {None}],
         gone' \subseteq SessionIds, ended' \subseteq SessionIds,
         \A s \in SessionIds : Dead(s)' => Dead(s) \/ s \in ended',
         \A s \in gone' \ gone : Dead(s)'
  PROVE  SessionsInv'
<1>1. SessionsTypeOK'
  BY DEF SessionsInv, SessionsTypeOK, UsersTypeOK, OnlyForgets
<1>2. sreq'[r] = q /\ \A p \in Requests \ {r} : sreq'[p] = sreq[p]
  BY DEF SessionsInv, SessionsTypeOK
<1>3. RequestOK(sreq[r])'
  BY <1>2 DEF RequestOK, KeepOK, LogoutOK, AskOK
<1>4. /\ {r} \in SUBSET Requests
      /\ \A p \in Requests \ {r} : sreq'[p] = sreq[p]
      /\ \A p \in {r} : sreq'[p].pc # "keep" /\ RequestOK(sreq[p])'
  BY <1>2, <1>3
<1>5. QED
  BY <1>1, <1>4, ForgettingStep

\* A step of request r that changes nothing but the request.
LEMMA RequestMoves ==
  ASSUME SessionsInv, NEW r \in Requests, NEW q \in SessionRequests, q.pc # "keep",
         RequestOK(q), sreq' = [sreq EXCEPT ![r] = q],
         UNCHANGED <<users, redis, fallback, owner, gone, ended>>
  PROVE  SessionsInv'
<1>1. OnlyForgets /\ (\A s \in SessionIds : Dead(s)' <=> Dead(s))
  BY QuietForgets
<1>2. RequestOK(q)'
  BY <1>1, ForgettingKeeps DEF SessionsInv
<1>3. gone' \ gone = {}
  OBVIOUS
<1>4. QED
  BY <1>1, <1>2, <1>3, ForgettingMove DEF SessionsInv, SessionsTypeOK

(***************************************************************************)
(* login and logout                                                        *)
(***************************************************************************)

\* The credentials are checked; nothing is stored yet.
LEMMA CheckCredentialsInv ==
  ASSUME SessionsInv, NEW r \in Requests, NEW e \in Emails, NEW w \in Passwords,
         CheckCredentials(r, e, w)
  PROVE  SessionsInv'
<1> DEFINE q == [pc |-> "set", email |-> e]
<1>1. q \in SessionRequests /\ q.pc # "keep" /\ RequestOK(q)
  BY DEF SessionRequests, LoginRequest, RequestOK, KeepOK, LogoutOK, AskOK
<1>2. QED
  BY <1>1, RequestMoves DEF CheckCredentials

\* A logout begins: from here on the session has a reason to be found nowhere.
LEMMA LogoutInv ==
  ASSUME SessionsInv, NEW r \in Requests, NEW s \in SessionIds, Logout(r, s)
  PROVE  SessionsInv'
<1> DEFINE q == [pc |-> "del", session |-> s, reached |-> FALSE]
<1>1. q \in SessionRequests
  BY DEF SessionRequests, LogoutRequest
<1>2. q.pc # "keep" /\ RequestOK(q)'
  BY DEF Logout, RequestOK, KeepOK, LogoutOK, AskOK
<1>3. OnlyForgets /\ (\A t \in SessionIds : Dead(t)' => Dead(t)) /\ gone' \ gone = {}
  BY DEF Logout, OnlyForgets, Dead, Fresh
<1>4. QED
  BY <1>1, <1>2, <1>3, ForgettingMove DEF Logout, SessionsInv, SessionsTypeOK

\* The call to Redis may fail and have been carried out all the same.
LEMMA DelInv ==
  ASSUME SessionsInv, NEW r \in Requests, Del(r)
  PROVE  SessionsInv'
<1>1. /\ sreq[r].pc = "del" /\ sreq[r] \in LogoutRequest /\ sreq[r].session \in SessionIds
      /\ owner[sreq[r].session] # None /\ sreq[r].session \in ended
  BY Carries DEF SessionsInv, SessionsTypeOK, Del, RequestOK, LogoutOK, LogoutRequest
<1>2. PICK s \in SessionIds : s = sreq[r].session
  BY <1>1
<1>3. PICK reached \in BOOLEAN :
        /\ \/ redis' = [redis EXCEPT ![s] = None]
           \/ ~reached /\ UNCHANGED redis
        /\ sreq' = [sreq EXCEPT ![r].pc = "drop", ![r].reached = reached]
  BY <1>2 DEF Del
<1>4. PICK q \in SessionRequests :
        /\ sreq' = [sreq EXCEPT ![r] = q]
        /\ q.pc = "drop" /\ q.session = s
        /\ q.reached => reached
  <2> DEFINE q == [sreq[r] EXCEPT !.pc = "drop", !.reached = reached]
  <2>1. q \in LogoutRequest /\ q.pc = "drop" /\ q.session = s
    BY <1>1, <1>2 DEF LogoutRequest
  <2>2. q.reached => reached
    BY <1>1 DEF LogoutRequest
  <2>3. sreq' = [sreq EXCEPT ![r] = q]
    BY <1>3 DEF SessionsInv, SessionsTypeOK
  <2> HIDE DEF q
  <2>4. QED
    BY <2>1, <2>2, <2>3 DEF SessionRequests
<1>5. OnlyForgets
  BY <1>3 DEF Del, OnlyForgets, Fresh, SessionsInv, SessionsTypeOK
<1>6. redis' \in [SessionIds -> Emails \cup {None}] /\ (reached => redis'[s] = None)
  BY <1>3 DEF SessionsInv, SessionsTypeOK
<1>7. q.pc # "keep" /\ RequestOK(q)'
  BY <1>1, <1>2, <1>4, <1>6 DEF Del, RequestOK, KeepOK, LogoutOK, AskOK
<1>8. \A t \in SessionIds : Dead(t)' => Dead(t) \/ t \in ended'
  BY <1>1, <1>2, <1>3 DEF Del, Dead, Fresh, SessionsInv, SessionsTypeOK
<1>9. gone' \ gone = {}
  BY DEF Del
<1>10. QED
  BY <1>4, <1>5, <1>6, <1>7, <1>8, <1>9, ForgettingMove DEF Del, SessionsInv, SessionsTypeOK

\* The copy in the process goes; where Redis answered the session is gone.
LEMMA DelFallbackInv ==
  ASSUME SessionsInv, NEW r \in Requests, DelFallback(r)
  PROVE  SessionsInv'
<1>1. /\ sreq[r].pc = "drop" /\ sreq[r] \in LogoutRequest /\ sreq[r].session \in SessionIds
      /\ owner[sreq[r].session] # None /\ sreq[r].session \in ended
      /\ sreq[r].reached => redis[sreq[r].session] = None
  BY Carries DEF SessionsInv, SessionsTypeOK, DelFallback, RequestOK, LogoutOK, LogoutRequest
<1>2. PICK s \in SessionIds : s = sreq[r].session
  BY <1>1
<1>3. fallback' = [fallback EXCEPT ![s] = None]
  BY <1>2 DEF DelFallback
<1>4. OnlyForgets
  BY <1>3 DEF DelFallback, OnlyForgets, Fresh, SessionsInv, SessionsTypeOK
<1>5. NoRequest \in SessionRequests /\ NoRequest.pc # "keep" /\ RequestOK(NoRequest)'
  BY DEF SessionRequests, NoRequest, RequestOK, KeepOK, LogoutOK, AskOK
<1>6. \A t \in SessionIds : Dead(t)' => Dead(t) \/ t \in ended'
  BY <1>1, <1>2, <1>3 DEF DelFallback, Dead, Fresh, SessionsInv, SessionsTypeOK
<1>7. gone' \subseteq SessionIds /\ \A t \in gone' \ gone : Dead(t)'
  BY <1>1, <1>2, <1>3 DEF DelFallback, EndLogout, Dead, Fresh, SessionsInv, SessionsTypeOK
<1>8. QED
  BY <1>3, <1>4, <1>5, <1>6, <1>7, ForgettingMove
     DEF DelFallback, EndLogout, Finish, SessionsInv, SessionsTypeOK

(***************************************************************************)
(* A session is stored                                                     *)
(***************************************************************************)

\* What holds of the sessions other than s that a login writes, and of requests.
LEMMA OthersKeep ==
  ASSUME SessionsInv, NEW s \in SessionIds, owner[s] = None, gone' = gone, ended' = ended,
         \A t \in SessionIds \ {s} :
            redis'[t] = redis[t] /\ fallback'[t] = fallback[t] /\ owner'[t] = owner[t],
         NEW q \in SessionRequests, RequestOK(q), q.pc = "keep" => q.session # s
  PROVE  RequestOK(q)'
<1>1. \A t \in SessionIds \ {s} : Dead(t)' <=> Dead(t)
  BY DEF Dead, Fresh
<1>2. /\ q.pc = "keep" => q.session \in SessionIds
      /\ q.pc \in {"del", "drop"} => q.session \in SessionIds
      /\ q.pc \in {"redis", "fallback", "check", "record"} => q.session \in SessionIds
  BY Carries DEF KeepRequest, LogoutRequest, GuardedRequest
<1>3. KeepOK(q)'
  BY <1>2 DEF RequestOK, KeepOK
<1>4. LogoutOK(q)'
  BY <1>2 DEF RequestOK, LogoutOK
<1>5. AskOK(q)'
  BY <1>1, <1>2 DEF RequestOK, AskOK
<1>6. QED
  BY <1>3, <1>4, <1>5 DEF RequestOK

\* A step of a login that writes one session, which nobody has been given yet.
LEMMA StoringStep ==
  ASSUME SessionsInv, SessionsTypeOK', NEW r \in Requests, NEW s \in SessionIds,
         owner[s] = None, gone' = gone, ended' = ended,
         \A t \in SessionIds \ {s} :
            redis'[t] = redis[t] /\ fallback'[t] = fallback[t] /\ owner'[t] = owner[t],
         owner'[s] # None => redis'[s] \in {owner'[s], None},
         fallback'[s] # None => owner'[s] # None /\ fallback'[s].email = owner'[s],
         ~Dead(s)',
         \A p \in Requests \ {r} : sreq'[p] = sreq[p],
         \A p \in Requests \ {r} : sreq[p].pc = "keep" => sreq[p].session # s,
         RequestOK(sreq[r])',
         sreq'[r].pc = "keep" => sreq'[r].session = s
  PROVE  SessionsInv'
<1>1. \A t \in SessionIds \ {s} : Dead(t)' <=> Dead(t)
  BY DEF Dead, Fresh
<1>2. StoredForOwner'
  BY DEF SessionsInv, StoredForOwner
<1>3. DeadHasEnded'
  BY <1>1 DEF SessionsInv, DeadHasEnded
<1>4. GoneIsDead'
  <2>1. s \notin gone
    BY DEF SessionsInv, GoneIsDead, Dead
  <2>2. QED
    BY <1>1, <2>1 DEF SessionsInv, SessionsTypeOK, GoneIsDead
<1>5. KeptOnce'
  BY DEF SessionsInv, KeptOnce
<1>6. ASSUME NEW p \in Requests, p # r
      PROVE  RequestOK(sreq[p])'
  <2>1. PICK q \in SessionRequests : q = sreq[p]
    BY DEF SessionsInv, SessionsTypeOK
  <2>2. RequestOK(q)'
    BY <1>6, <2>1, OthersKeep DEF SessionsInv
  <2>3. sreq'[p] = q
    BY <1>6, <2>1
  <2>4. QED
    BY <2>2, <2>3 DEF RequestOK, KeepOK, LogoutOK, AskOK
<1>7. QED
  BY <1>2, <1>3, <1>4, <1>5, <1>6 DEF SessionsInv

\* The call to Redis succeeds, or fails and leaves it to the process.
LEMMA SetInv ==
  ASSUME SessionsInv, NEW r \in Requests, NEW s \in SessionIds, Set(r, s)
  PROVE  SessionsInv'
<1>1. PICK e \in Emails : sreq[r].pc = "set" /\ e = sreq[r].email
  BY Carries DEF Set, SessionsInv, SessionsTypeOK, LoginRequest
<1>2. /\ redis[s] = None /\ fallback[s] = None /\ owner[s] = None
      /\ \A p \in Requests : sreq[p].pc = "keep" => sreq[p].session # s
      /\ gone' = gone /\ ended' = ended /\ fallback' = fallback
  BY DEF Set, Unused
<1>3. CASE redis' = [redis EXCEPT ![s] = e] /\ HandOut(r, s)
  <2>1. owner' = [owner EXCEPT ![s] = e] /\ sreq' = [sreq EXCEPT ![r] = NoRequest]
    BY <1>1, <1>3 DEF HandOut, Finish
  <2>2. redis'[s] = e /\ owner'[s] = e /\ sreq'[r] = NoRequest /\ e # None
    BY <1>3, <2>1, UserSentinelAssumption DEF SessionsInv, SessionsTypeOK
  <2>3. SessionsTypeOK'
    BY <1>3, <2>1 DEF Set, SessionsInv, SessionsTypeOK, UsersTypeOK, SessionRequests
  <2>4. RequestOK(sreq[r])'
    BY <2>2 DEF NoRequest, RequestOK, KeepOK, LogoutOK, AskOK
  <2>5. ~Dead(s)' /\ sreq'[r].pc # "keep"
    BY <2>2 DEF Dead, NoRequest
  <2>6. /\ \A p \in Requests \ {r} : sreq'[p] = sreq[p]
        /\ \A t \in SessionIds \ {s} :
              redis'[t] = redis[t] /\ fallback'[t] = fallback[t] /\ owner'[t] = owner[t]
    BY <1>2, <1>3, <2>1 DEF SessionsInv, SessionsTypeOK
  <2>7. QED
    BY <1>2, <2>2, <2>3, <2>4, <2>5, <2>6, StoringStep
<1>4. CASE /\ redis' = [redis EXCEPT ![s] = e] \/ UNCHANGED redis
           /\ sreq' = [sreq EXCEPT ![r] = [pc |-> "keep", email |-> e, session |-> s]]
           /\ UNCHANGED owner
  <2> DEFINE q == [pc |-> "keep", email |-> e, session |-> s]
  <2>1. q \in SessionRequests
    BY DEF SessionRequests, KeepRequest
  <2>2. sreq'[r] = q /\ \A p \in Requests \ {r} : sreq'[p] = sreq[p]
    BY <1>4 DEF SessionsInv, SessionsTypeOK
  <2>3. redis'[s] \in {e, None}
    BY <1>2, <1>4 DEF SessionsInv, SessionsTypeOK
  <2>4. SessionsTypeOK'
    BY <1>2, <1>4, <2>1 DEF Set, SessionsInv, SessionsTypeOK, UsersTypeOK
  <2>5. RequestOK(sreq[r])' /\ sreq'[r].session = s
    BY <1>2, <1>4, <2>2, <2>3 DEF RequestOK, KeepOK, LogoutOK, AskOK
  <2>6. /\ ~Dead(s)' /\ owner'[s] = None /\ fallback'[s] = None
        /\ \A t \in SessionIds \ {s} :
              redis'[t] = redis[t] /\ fallback'[t] = fallback[t] /\ owner'[t] = owner[t]
    BY <1>2, <1>4 DEF Dead, SessionsInv, SessionsTypeOK
  <2>7. QED
    BY <1>2, <2>2, <2>4, <2>5, <2>6, StoringStep
<1>5. QED
  BY <1>1, <1>3, <1>4 DEF Set

\* The copy in the process is written, and the client is given the session.
LEMMA SetFallbackInv ==
  ASSUME SessionsInv, NEW r \in Requests, SetFallback(r)
  PROVE  SessionsInv'
<1>1. sreq[r].pc = "keep" /\ sreq[r] \in KeepRequest
  BY Carries DEF SetFallback, SessionsInv, SessionsTypeOK
<1>2. PICK e \in Emails, s \in SessionIds : e = sreq[r].email /\ s = sreq[r].session
  BY <1>1 DEF KeepRequest
<1>3. /\ owner[s] = None /\ redis[s] \in {e, None}
      /\ \A p \in Requests \ {r} : sreq[p].pc = "keep" => sreq[p].session # s
  BY <1>1, <1>2 DEF SessionsInv, RequestOK, KeepOK, KeptOnce
<1> DEFINE item == [email |-> e, expired |-> FALSE]
<1>4. /\ fallback' = [fallback EXCEPT ![s] = item]
      /\ owner' = [owner EXCEPT ![s] = e]
      /\ sreq' = [sreq EXCEPT ![r] = NoRequest]
      /\ redis' = redis /\ gone' = gone /\ ended' = ended /\ users' = users
  BY <1>2 DEF SetFallback, HandOut, Finish
<1>5. item \in Items /\ item # None /\ e # None
  <2>1. item \in Items
    BY DEF Items
  <2>2. QED
    BY <2>1, SessionSentinelAssumption, UserSentinelAssumption
<1>6. /\ fallback'[s] = item /\ owner'[s] = e /\ sreq'[r] = NoRequest
      /\ \A p \in Requests \ {r} : sreq'[p] = sreq[p]
      /\ \A t \in SessionIds \ {s} :
            redis'[t] = redis[t] /\ fallback'[t] = fallback[t] /\ owner'[t] = owner[t]
  BY <1>4 DEF SessionsInv, SessionsTypeOK
<1>7. SessionsTypeOK'
  BY <1>4, <1>5 DEF SessionsInv, SessionsTypeOK, UsersTypeOK, SessionRequests
<1>8. RequestOK(sreq[r])' /\ sreq'[r].pc # "keep"
  BY <1>6 DEF NoRequest, RequestOK, KeepOK, LogoutOK, AskOK
<1>9. ~Dead(s)' /\ fallback'[s].email = owner'[s]
  BY <1>5, <1>6 DEF Dead, Fresh
<1>10. QED
  BY <1>3, <1>4, <1>5, <1>6, <1>7, <1>8, <1>9, StoringStep

(***************************************************************************)
(* Requests with a session                                                 *)
(***************************************************************************)

\* A request that arrives late has a dead session, for gone sessions stay dead.
LEMMA ArriveInv ==
  ASSUME SessionsInv, NEW r \in Requests, NEW s \in SessionIds, NEW route \in Routes,
         Arrive(r, s, route)
  PROVE  SessionsInv'
<1>1. PICK late \in BOOLEAN : late <=> s \in gone \/ (redis[s] = None /\ ~Fresh(s))
  OBVIOUS
<1>2. PICK q \in GuardedRequest :
        /\ sreq' = [sreq EXCEPT ![r] = q]
        /\ q.pc = "redis" /\ q.for = "session" /\ q.session = s
        /\ q.late => Dead(s)
  <2> DEFINE q == [pc |-> "redis", for |-> "session", session |-> s, route |-> route,
                   answered |-> FALSE, email |-> None,
                   late |-> s \in gone \/ (redis[s] = None /\ ~Fresh(s))]
  <2>1. q \in GuardedRequest
    BY DEF GuardedRequest
  <2>2. q.late => Dead(s)
    BY DEF Arrive, SessionsInv, GoneIsDead, Dead
  <2>3. sreq' = [sreq EXCEPT ![r] = q]
    BY DEF Arrive
  <2>4. q.pc = "redis" /\ q.for = "session" /\ q.session = s
    OBVIOUS
  <2> HIDE DEF q
  <2>5. QED
    BY <2>1, <2>2, <2>3, <2>4
<1>3. q \in SessionRequests /\ q.pc # "keep" /\ RequestOK(q)
  BY <1>2 DEF Arrive, SessionRequests, RequestOK, KeepOK, LogoutOK, AskOK
<1>4. QED
  BY <1>2, <1>3, RequestMoves DEF Arrive

\* What a request that asks the cache carries.
LEMMA Asks ==
  ASSUME SessionsInv, NEW r \in Requests, sreq[r].pc \in {"redis", "fallback", "check", "record"}
  PROVE  /\ sreq[r] \in GuardedRequest /\ sreq[r].session \in SessionIds
         /\ owner[sreq[r].session] # None /\ owner[sreq[r].session] \in Emails
         /\ sreq[r].late => sreq[r].for = "session" /\ Dead(sreq[r].session)
         /\ sreq[r].for = "actor" /\ sreq[r].pc # "record" =>
              sreq[r].email = owner[sreq[r].session]
<1>1. sreq[r] \in GuardedRequest
  BY Carries DEF SessionsInv, SessionsTypeOK
<1>2. sreq[r].session \in SessionIds
  BY <1>1 DEF GuardedRequest
<1>3. QED
  BY <1>1, <1>2 DEF SessionsInv, SessionsTypeOK, RequestOK, AskOK

\* The request ends.
LEMMA FinishMove ==
  ASSUME NEW r \in Requests, Finish(r)
  PROVE  \E q \in SessionRequests :
           q.pc # "keep" /\ RequestOK(q) /\ sreq' = [sreq EXCEPT ![r] = q]
<1>1. NoRequest \in SessionRequests /\ NoRequest.pc # "keep" /\ RequestOK(NoRequest)
  BY DEF SessionRequests, NoRequest, RequestOK, KeepOK, LogoutOK, AskOK
<1>2. QED
  BY <1>1 DEF Finish

\* The request asks once more: for the user, or as the user who owns the session.
LEMMA AskAgainMove ==
  ASSUME SessionsInv, NEW r \in Requests, sreq[r].pc \in {"redis", "fallback", "check", "record"},
         ~sreq[r].late, NEW what \in {"user", "actor"}, NEW e \in Emails \cup {None},
         AskAgain(r, what, e), what = "actor" => e = owner[sreq[r].session]
  PROVE  \E q \in SessionRequests :
           q.pc # "keep" /\ RequestOK(q) /\ sreq' = [sreq EXCEPT ![r] = q]
<1> DEFINE q == [sreq[r] EXCEPT !.pc = "redis", !.for = what, !.email = e]
<1>1. /\ q \in GuardedRequest /\ q.pc = "redis" /\ q.for = what /\ q.email = e
      /\ q.session = sreq[r].session
  BY Asks DEF GuardedRequest
<1>2. ~q.late
  BY Asks DEF GuardedRequest
<1>3. sreq' = [sreq EXCEPT ![r] = q]
  BY DEF AskAgain, SessionsInv, SessionsTypeOK
<1> HIDE DEF q
<1>4. q \in SessionRequests
  BY <1>1 DEF SessionRequests
<1>5. RequestOK(q)
  BY <1>1, <1>2, Asks DEF RequestOK, KeepOK, LogoutOK, AskOK
<1>6. QED
  BY <1>1, <1>3, <1>4, <1>5

\* The request has the email under which it looks for the user.
LEMMA CheckMove ==
  ASSUME SessionsInv, NEW r \in Requests, sreq[r].pc \in {"redis", "fallback"},
         sreq[r].for = "user", NEW e \in {owner[sreq[r].session], System}, Check(r, e)
  PROVE  \E q \in SessionRequests :
           q.pc # "keep" /\ RequestOK(q) /\ sreq' = [sreq EXCEPT ![r] = q]
<1> DEFINE q == [sreq[r] EXCEPT !.pc = "check", !.email = e]
<1>1. /\ q \in GuardedRequest /\ q.pc = "check" /\ q.for = "user" /\ q.email = e
      /\ q.session = sreq[r].session
  BY Asks DEF GuardedRequest
<1>2. ~q.late
  BY Asks DEF GuardedRequest
<1>3. sreq' = [sreq EXCEPT ![r] = q]
  BY DEF Check, SessionsInv, SessionsTypeOK
<1> HIDE DEF q
<1>4. q \in SessionRequests
  BY <1>1 DEF SessionRequests
<1>5. RequestOK(q)
  BY <1>1, <1>2, Asks DEF RequestOK, KeepOK, LogoutOK, AskOK
<1>6. QED
  BY <1>1, <1>3, <1>4, <1>5

\* The request has the email that its audit entry will name.
LEMMA ActorMove ==
  ASSUME SessionsInv, NEW r \in Requests, sreq[r].pc \in {"redis", "fallback"},
         sreq[r].for = "actor", NEW e \in {owner[sreq[r].session], System}, Actor(r, e),
         e = System /\ sreq[r].answered => sreq[r].session \in ended
  PROVE  \E q \in SessionRequests :
           q.pc # "keep" /\ RequestOK(q) /\ sreq' = [sreq EXCEPT ![r] = q]
<1> DEFINE q == [sreq[r] EXCEPT !.pc = "record", !.email = e]
<1>1. /\ q \in GuardedRequest /\ q.pc = "record" /\ q.for = "actor" /\ q.email = e
      /\ q.session = sreq[r].session
  BY Asks DEF GuardedRequest
<1>2. ~q.late /\ q.answered = sreq[r].answered
  BY Asks DEF GuardedRequest
<1>3. sreq' = [sreq EXCEPT ![r] = q]
  BY DEF Actor, SessionsInv, SessionsTypeOK
<1> HIDE DEF q
<1>4. q \in SessionRequests
  BY <1>1 DEF SessionRequests
<1>5. RequestOK(q)
  BY <1>1, <1>2, Asks DEF RequestOK, KeepOK, LogoutOK, AskOK
<1>6. QED
  BY <1>1, <1>3, <1>4, <1>5

\* The session is found, as its owner's.
LEMMA FoundMove ==
  ASSUME SessionsInv, NEW r \in Requests, sreq[r].pc \in {"redis", "fallback"},
         ~Dead(sreq[r].session), Found(r, owner[sreq[r].session])
  PROVE  \E q \in SessionRequests :
           q.pc # "keep" /\ RequestOK(q) /\ sreq' = [sreq EXCEPT ![r] = q]
<1>1. ~sreq[r].late
  BY Asks
<1>2. CASE Finish(r)
  BY <1>2, FinishMove
<1>3. CASE AskAgain(r, "user", None)
  BY <1>1, <1>3, AskAgainMove
<1>4. CASE sreq[r].for = "user" /\ Check(r, owner[sreq[r].session])
  BY <1>4, CheckMove
<1>5. CASE sreq[r].for = "actor" /\ Actor(r, owner[sreq[r].session])
  <2>1. owner[sreq[r].session] # System
    BY Asks, SystemAssumption
  <2>2. QED
    BY <1>5, <2>1, ActorMove
<1>6. QED
  BY <1>2, <1>3, <1>4, <1>5 DEF Found

\* The session is not found: it is dead, or Redis could not be asked.
LEMMA MissingMove ==
  ASSUME SessionsInv, NEW r \in Requests, sreq[r].pc = "fallback",
         ~Fresh(sreq[r].session), Missing(r)
  PROVE  \E q \in SessionRequests :
           q.pc # "keep" /\ RequestOK(q) /\ sreq' = [sreq EXCEPT ![r] = q]
<1>1. sreq[r].answered => sreq[r].session \in ended
  <2>1. sreq[r].answered => Dead(sreq[r].session)
    BY Asks DEF SessionsInv, RequestOK, AskOK, Dead
  <2>2. QED
    BY <2>1, Asks DEF SessionsInv, DeadHasEnded
<1>2. CASE Finish(r)
  BY <1>2, FinishMove
<1>3. CASE sreq[r].for = "user" /\ Check(r, System)
  BY <1>3, CheckMove
<1>4. CASE sreq[r].for = "actor" /\ Actor(r, System)
  BY <1>1, <1>4, ActorMove
<1>5. QED
  BY <1>2, <1>3, <1>4 DEF Missing

\* Redis has the session, answers that it has not, or fails.
LEMMA AskRedisInv ==
  ASSUME SessionsInv, NEW r \in Requests, AskRedis(r)
  PROVE  SessionsInv'
<1>1. sreq[r].pc = "redis"
  BY DEF AskRedis
<1>2. PICK s \in SessionIds : s = sreq[r].session
  BY <1>1, Asks
<1>3. owner[s] # None /\ redis[s] \in {owner[s], None}
  BY <1>1, <1>2, Asks DEF SessionsInv, StoredForOwner
<1>4. \E q \in SessionRequests :
        q.pc # "keep" /\ RequestOK(q) /\ sreq' = [sreq EXCEPT ![r] = q]
  <2>1. CASE redis[s] # None /\ Found(r, redis[s])
    BY <1>1, <1>2, <1>3, <2>1, FoundMove DEF Dead
  <2>2. ASSUME NEW answered \in BOOLEAN, answered => redis[s] = None,
               sreq' = [sreq EXCEPT ![r].pc = "fallback", ![r].answered = answered]
        PROVE  \E q \in SessionRequests :
                 q.pc # "keep" /\ RequestOK(q) /\ sreq' = [sreq EXCEPT ![r] = q]
    <3> DEFINE q == [sreq[r] EXCEPT !.pc = "fallback", !.answered = answered]
    <3>1. /\ q \in GuardedRequest /\ q.pc = "fallback" /\ q.for = sreq[r].for
          /\ q.session = s /\ q.email = sreq[r].email
      BY <1>1, <1>2, Asks DEF GuardedRequest
    <3>2. (q.answered => answered) /\ (q.late => sreq[r].late)
      BY <1>1, Asks DEF GuardedRequest
    <3>3. sreq' = [sreq EXCEPT ![r] = q]
      BY <2>2 DEF SessionsInv, SessionsTypeOK
    <3> HIDE DEF q
    <3>4. q \in SessionRequests
      BY <3>1 DEF SessionRequests
    <3>5. RequestOK(q)
      BY <1>1, <1>2, <1>3, <2>2, <3>1, <3>2, Asks DEF RequestOK, KeepOK, LogoutOK, AskOK
    <3>6. QED
      BY <3>1, <3>3, <3>4, <3>5
  <2>3. CASE redis[s] = None /\ sreq' = [sreq EXCEPT ![r].pc = "fallback", ![r].answered = TRUE]
    BY <2>2, <2>3
  <2>4. CASE sreq' = [sreq EXCEPT ![r].pc = "fallback", ![r].answered = FALSE]
    BY <2>2, <2>4
  <2>5. QED
    BY <1>2, <2>1, <2>3, <2>4 DEF AskRedis
<1>5. QED
  BY <1>4, RequestMoves DEF AskRedis

\* The process has the session, or has not; an item that has expired goes.
LEMMA AskFallbackInv ==
  ASSUME SessionsInv, NEW r \in Requests, AskFallback(r)
  PROVE  SessionsInv'
<1>1. sreq[r].pc = "fallback"
  BY DEF AskFallback
<1>2. PICK s \in SessionIds : s = sreq[r].session
  BY <1>1, Asks
<1>3. CASE Fresh(s) /\ Found(r, fallback[s].email) /\ UNCHANGED fallback
  <2>1. fallback[s].email = owner[s] /\ ~Dead(s)
    BY <1>2, <1>3 DEF Fresh, Dead, SessionsInv, StoredForOwner
  <2>2. QED
    BY <1>1, <1>2, <1>3, <2>1, FoundMove, RequestMoves DEF AskFallback
<1>4. CASE ~Fresh(s) /\ Missing(r) /\ fallback' = [fallback EXCEPT ![s] = None]
  <2>1. PICK q \in SessionRequests :
          q.pc # "keep" /\ RequestOK(q) /\ sreq' = [sreq EXCEPT ![r] = q]
    BY <1>1, <1>2, <1>4, MissingMove
  <2>2. OnlyForgets /\ (\A t \in SessionIds : Dead(t)' => Dead(t)) /\ gone' \ gone = {}
    BY <1>4 DEF AskFallback, OnlyForgets, Dead, Fresh, SessionsInv, SessionsTypeOK
  <2>3. RequestOK(q)'
    BY <2>1, <2>2, ForgettingKeeps DEF SessionsInv
  <2>4. QED
    BY <1>4, <2>1, <2>2, <2>3, ForgettingMove DEF AskFallback, SessionsInv, SessionsTypeOK
<1>5. QED
  BY <1>2, <1>3, <1>4 DEF AskFallback

\* The user that is admitted is the owner of the session: System is no user.
LEMMA CheckUserInv ==
  ASSUME SessionsInv, NEW r \in Requests, CheckUser(r)
  PROVE  SessionsInv'
<1>1. sreq[r].pc = "check" /\ UNCHANGED <<users, redis, fallback, owner, gone, ended>>
  BY DEF CheckUser
<1>2. ~sreq[r].late /\ sreq[r].email \in {owner[sreq[r].session], System}
  BY <1>1, Asks DEF SessionsInv, RequestOK, AskOK
<1>3. CASE Finish(r)
  BY <1>1, <1>3, FinishMove, RequestMoves
<1>4. CASE sreq[r].email \in Emails /\ AskAgain(r, "actor", sreq[r].email)
  <2>1. PICK e \in Emails : e = sreq[r].email
    BY <1>4
  <2>2. e = owner[sreq[r].session]
    BY <1>2, <2>1, SystemAssumption
  <2>3. \E q \in SessionRequests :
          q.pc # "keep" /\ RequestOK(q) /\ sreq' = [sreq EXCEPT ![r] = q]
    BY <1>1, <1>2, <1>4, <2>1, <2>2, AskAgainMove
  <2>4. QED
    BY <1>1, <2>3, RequestMoves
<1>5. QED
  BY <1>3, <1>4 DEF CheckUser

\* The audit entry is written, and the request ends.
LEMMA AddAuditInv ==
  ASSUME SessionsInv, NEW r \in Requests, AddAudit(r)
  PROVE  SessionsInv'
  BY FinishMove, RequestMoves DEF AddAudit

(***************************************************************************)
(* Time, administrators and the end of the process                          *)
(***************************************************************************)

\* A copy of a session expires.
LEMMA ExpireInv ==
  ASSUME SessionsInv, NEW s \in SessionIds, ExpireRedis(s) \/ ExpireFallback(s)
  PROVE  SessionsInv'
<1>1. CASE ExpireRedis(s)
  <2>1. SessionsTypeOK' /\ OnlyForgets /\ gone' \ gone = {}
    BY <1>1 DEF ExpireRedis, OnlyForgets, Fresh, SessionsInv, SessionsTypeOK, UsersTypeOK
  <2>2. \A t \in SessionIds : Dead(t)' => Dead(t) \/ t \in ended'
    BY <1>1 DEF ExpireRedis, Dead, Fresh, SessionsInv, SessionsTypeOK
  <2>3. {} \in SUBSET Requests /\ \A r \in Requests \ {} : sreq'[r] = sreq[r]
    BY <1>1 DEF ExpireRedis
  <2>4. QED
    BY <2>1, <2>2, <2>3, ForgettingStep
<1>2. CASE ExpireFallback(s)
  <2>1. [fallback[s] EXCEPT !.expired = TRUE] \in Items
    BY <1>2 DEF ExpireFallback, Fresh, SessionsInv, SessionsTypeOK, Items
  <2>2. SessionsTypeOK'
    BY <1>2, <2>1 DEF ExpireFallback, SessionsInv, SessionsTypeOK, UsersTypeOK
  <2>3. fallback[s] \in Items /\ fallback[s] # None
    BY <1>2 DEF ExpireFallback, Fresh, SessionsInv, SessionsTypeOK
  <2>4. /\ fallback'[s].email = fallback[s].email
        /\ fallback'[s].expired
        /\ \A t \in SessionIds \ {s} : fallback'[t] = fallback[t]
    BY <1>2, <2>3 DEF ExpireFallback, SessionsInv, SessionsTypeOK, Items
  <2>5. OnlyForgets /\ gone' \ gone = {}
    BY <1>2, <2>3, <2>4 DEF ExpireFallback, OnlyForgets, Fresh
  <2>6. \A t \in SessionIds : Dead(t)' => Dead(t) \/ t \in ended'
    BY <1>2, <2>4 DEF ExpireFallback, Dead, Fresh
  <2>7. {} \in SUBSET Requests /\ \A r \in Requests \ {} : sreq'[r] = sreq[r]
    BY <1>2 DEF ExpireFallback
  <2>8. QED
    BY <2>2, <2>5, <2>6, <2>7, ForgettingStep
<1>3. QED
  BY <1>1, <1>2

\* The process ends: its copies are lost, and so are the requests.
LEMMA RestartInv ==
  ASSUME SessionsInv, Restart
  PROVE  SessionsInv'
<1>1. SessionsTypeOK'
  BY SeededType DEF Restart, SessionsInv, SessionsTypeOK, UsersTypeOK, SessionRequests
<1>2. OnlyForgets /\ gone' \ gone = {}
  BY DEF Restart, OnlyForgets, Fresh
<1>3. \A t \in SessionIds : Dead(t)' => Dead(t) \/ t \in ended'
  BY DEF Restart, Dead, Fresh
<1>4. \A r \in Requests : sreq'[r].pc # "keep" /\ RequestOK(sreq[r])'
  BY DEF Restart, NoRequest, RequestOK, KeepOK, LogoutOK, AskOK
<1>5. Requests \in SUBSET Requests /\ \A r \in Requests \ Requests : sreq'[r] = sreq[r]
  OBVIOUS
<1>6. QED
  BY <1>1, <1>2, <1>3, <1>4, <1>5, ForgettingStep

\* Only the users change, or nothing does.
LEMMA UsersOnlyInv ==
  ASSUME SessionsInv, UsersTypeOK', UNCHANGED <<redis, fallback, sreq, owner, gone, ended>>
  PROVE  SessionsInv'
<1>1. SessionsTypeOK' /\ gone' \ gone = {}
  BY DEF SessionsInv, SessionsTypeOK
<1>2. OnlyForgets /\ (\A s \in SessionIds : Dead(s)' <=> Dead(s))
  BY QuietForgets
<1>3. {} \in SUBSET Requests /\ \A r \in Requests \ {} : sreq'[r] = sreq[r]
  OBVIOUS
<1>4. QED
  BY <1>1, <1>2, <1>3, ForgettingStep

\* Every step keeps the invariant.
LEMMA SessionsStep == SessionsInv /\ [SessionsNext]_sessionVars => SessionsInv'
<1> SUFFICES ASSUME SessionsInv, [SessionsNext]_sessionVars PROVE SessionsInv'
  OBVIOUS
<1>1. ASSUME NEW r \in Requests, NEW e \in Emails, NEW w \in Passwords,
             CheckCredentials(r, e, w)
      PROVE  SessionsInv'
  BY <1>1, CheckCredentialsInv
<1>2. ASSUME NEW r \in Requests, NEW s \in SessionIds, Set(r, s) \/ Logout(r, s)
      PROVE  SessionsInv'
  BY <1>2, SetInv, LogoutInv
<1>3. ASSUME NEW r \in Requests, NEW s \in SessionIds, NEW route \in Routes,
             Arrive(r, s, route)
      PROVE  SessionsInv'
  BY <1>3, ArriveInv
<1>4. ASSUME NEW r \in Requests,
             \/ SetFallback(r) \/ Del(r) \/ DelFallback(r)
             \/ AskRedis(r) \/ AskFallback(r) \/ CheckUser(r) \/ AddAudit(r)
      PROVE  SessionsInv'
  BY <1>4, SetFallbackInv, DelInv, DelFallbackInv, AskRedisInv, AskFallbackInv,
     CheckUserInv, AddAuditInv
<1>5. ASSUME NEW s \in SessionIds, ExpireRedis(s) \/ ExpireFallback(s)
      PROVE  SessionsInv'
  BY <1>5, ExpireInv
<1>6. CASE ChangeUsers
  <2>1. UsersTypeOK'
    BY <1>6, ChangeUsersType DEF SessionsInv, SessionsTypeOK
  <2>2. UNCHANGED <<redis, fallback, sreq, owner, gone, ended>>
    BY <1>6 DEF ChangeUsers
  <2>3. QED
    BY <2>1, <2>2, UsersOnlyInv
<1>7. CASE Restart
  BY <1>7, RestartInv
<1>8. CASE UNCHANGED sessionVars
  BY <1>8, UsersOnlyInv DEF sessionVars, SessionsInv, SessionsTypeOK, UsersTypeOK
<1>9. QED
  BY <1>1, <1>2, <1>3, <1>4, <1>5, <1>6, <1>7, <1>8 DEF SessionsNext

(***************************************************************************)
(* Theorems                                                                *)
(***************************************************************************)

\* The invariant holds of every behaviour of the sessions.
THEOREM SessionsInvariant == SessionsSpec => []SessionsInv
<1>1. SessionsInit => SessionsInv
  BY SessionsInitInv
<1>2. SessionsInv /\ [SessionsNext]_sessionVars => SessionsInv'
  BY SessionsStep
<1>3. QED
  BY <1>1, <1>2, PTL DEF SessionsSpec

\* Type correctness: what requests carry from one call to the next, and what the
\* two stores hold, is well formed.
THEOREM SessionsTypeCorrect == SessionsSpec => []SessionsTypeOK
<1>1. SessionsInv => SessionsTypeOK
  BY DEF SessionsInv
<1>2. QED
  BY <1>1, SessionsInvariant, PTL

\* A request that arrives after its session was logged out, or has expired
\* wherever it was kept, does not get past requireSession.
THEOREM EndedSessionsStayOut == SessionsSpec => []EndedStaysOut
<1>1. SessionsInv => EndedStaysOut
  BY DEF SessionsInv, RequestOK, AskOK, EndedStaysOut, Asking
<1>2. QED
  BY <1>1, SessionsInvariant, PTL

\* A session that is found nowhere was logged out, has expired, or was kept by a
\* process that has ended: a login is not forgotten for a failed call to Redis.
THEOREM SessionsAlwaysEndForAReason == SessionsSpec => []SessionsEndForAReason
<1>1. SessionsInv => SessionsEndForAReason
  <2> SUFFICES ASSUME SessionsInv, NEW r \in Requests, sreq[r].pc = "fallback",
                      sreq[r].answered, ~Fresh(sreq[r].session)
               PROVE  sreq[r].session \in ended
    BY DEF SessionsEndForAReason
  <2>1. Dead(sreq[r].session) /\ sreq[r].session \in SessionIds
    BY Asks DEF SessionsInv, RequestOK, AskOK, Dead
  <2>2. QED
    BY <2>1 DEF SessionsInv, DeadHasEnded
<1>2. QED
  BY <1>1, SessionsInvariant, PTL

\* A handler that requireRoles admitted acts for the user who logged in, and its
\* audit entry names that user, or System when the session has ended meanwhile
\* or Redis could not be asked.
THEOREM HandlersActForTheOwner == SessionsSpec => []ActsAsItself
<1>1. SessionsInv => ActsAsItself
  BY DEF SessionsInv, RequestOK, AskOK, ActsAsItself, Asking
<1>2. QED
  BY <1>1, SessionsInvariant, PTL
=============================================================================
