------------------------------- MODULE Sessions -------------------------------
(***************************************************************************)
(* Sessions of the admin API: login, logout, requireSession, requireRoles,  *)
(* me and sessionEmail (internal/admin/service.go) over the cache that      *)
(* keeps them in Redis and, when Redis fails, in the process                *)
(* (internal/redisx/client.go).                                             *)
(*                                                                         *)
(* Every call to Redis may fail at any time, for Redis is away or for the   *)
(* client is (the request's context is cancelled), and a Set or Del that    *)
(* fails may have been carried out.  The copies of a session in Redis and   *)
(* in the process expire each by its own clock.                             *)
(*                                                                         *)
(* owner, gone, ended and the flag late are history: no handler reads them. *)
(***************************************************************************)
EXTENDS Users

CONSTANTS
    SessionIds,
    System,       \* the actor of a request whose session is not found
    Requests

\* No user is called "system".
ASSUME SystemAssumption == System \notin Emails \cup {None}

VARIABLES
    redis,      \* redis[s]: the email Redis holds for session s
    fallback,   \* fallback[s]: the email the process holds, and if it expired
    sreq,       \* sreq[r]: request r and where it is in its handler
    owner,      \* history: the user a session was handed out to
    gone,       \* history: sessions whose logout reached Redis and has ended
    ended       \* history: sessions with a logout, an expiry or a lost process

sessionVars == <<users, redis, fallback, sreq, owner, gone, ended>>

Items == [email : Emails, expired : BOOLEAN]

ASSUME SessionSentinelAssumption == None \notin Items

\* The copy in the process counts.
Fresh(s) == fallback[s] # None /\ ~fallback[s].expired

(***************************************************************************)
(* Requests                                                                *)
(***************************************************************************)

LoginRequest  == [pc : {"set"}, email : Emails]
KeepRequest   == [pc : {"keep"}, email : Emails, session : SessionIds]
LogoutRequest == [pc : {"del", "drop"}, session : SessionIds, reached : BOOLEAN]

Routes == {"open", "me", "operator", "admin"}

Allowed(route) ==
    CASE route = "me"       -> Roles
      [] route = "operator" -> {"Admin", "Operator"}
      [] route = "admin"    -> {"Admin"}

\* for: what asks the cache for the session.  answered: Redis did not fail.
GuardedRequest == [pc : {"redis", "fallback", "check", "record"}, for : {"session", "user", "actor"},
                   session : SessionIds, route : Routes, answered : BOOLEAN,
                   email : Emails \cup {System, None}, late : BOOLEAN]

NoRequest == [pc |-> "idle"]

SessionRequests ==
    LoginRequest \cup KeepRequest \cup LogoutRequest \cup GuardedRequest \cup {NoRequest}

Idle(r)   == sreq[r].pc = "idle"
Asking(r) == sreq[r].pc \in {"redis", "fallback", "check", "record"}

Finish(r) == sreq' = [sreq EXCEPT ![r] = NoRequest]

SessionsInit ==
    /\ users = SeededUsers
    /\ redis = [s \in SessionIds |-> None]
    /\ fallback = [s \in SessionIds |-> None]
    /\ sreq = [r \in Requests |-> NoRequest]
    /\ owner = [s \in SessionIds |-> None]
    /\ gone = {}
    /\ ended = {}

(***************************************************************************)
(* login: the user is read and checked, then the session is stored.        *)
(***************************************************************************)

CheckCredentials(r, e, password) ==
    /\ Idle(r)
    /\ UserExists(e)
    /\ users[e].password = password /\ users[e].profile.status # "Disabled"
    /\ sreq' = [sreq EXCEPT ![r] = [pc |-> "set", email |-> e]]
    /\ UNCHANGED <<users, redis, fallback, owner, gone, ended>>

\* A random id: one that no store holds and no client was given.
Unused(s) ==
    /\ redis[s] = None /\ fallback[s] = None /\ owner[s] = None
    /\ \A r \in Requests : sreq[r].pc = "keep" => sreq[r].session # s

\* The client is given the session.
HandOut(r, s) ==
    /\ owner' = [owner EXCEPT ![s] = sreq[r].email]
    /\ Finish(r)

\* Mutant: a session that Redis did not take is kept nowhere.
SetOnly(r, s) ==
    /\ sreq[r].pc = "set"
    /\ Unused(s)
    /\ redis' = [redis EXCEPT ![s] = sreq[r].email] \/ UNCHANGED redis
    /\ HandOut(r, s)
    /\ UNCHANGED <<users, fallback, gone, ended>>

Set(r, s) ==
    /\ sreq[r].pc = "set"
    /\ Unused(s)
    /\ \/ redis' = [redis EXCEPT ![s] = sreq[r].email] /\ HandOut(r, s)
       \/ /\ redis' = [redis EXCEPT ![s] = sreq[r].email] \/ UNCHANGED redis
          /\ sreq' = [sreq EXCEPT ![r] =
                        [pc |-> "keep", email |-> sreq[r].email, session |-> s]]
          /\ UNCHANGED owner
    /\ UNCHANGED <<users, fallback, gone, ended>>

SetFallback(r) ==
    /\ sreq[r].pc = "keep"
    /\ fallback' = [fallback EXCEPT ![sreq[r].session] =
                      [email |-> sreq[r].email, expired |-> FALSE]]
    /\ HandOut(r, sreq[r].session)
    /\ UNCHANGED <<users, redis, gone, ended>>

(***************************************************************************)
(* logout: what becomes of the call to Redis is ignored.                    *)
(***************************************************************************)

Logout(r, s) ==
    /\ Idle(r)
    /\ owner[s] # None
    /\ sreq' = [sreq EXCEPT ![r] = [pc |-> "del", session |-> s, reached |-> FALSE]]
    /\ ended' = ended \cup {s}
    /\ UNCHANGED <<users, redis, fallback, owner, gone>>

Del(r) ==
    /\ sreq[r].pc = "del"
    /\ \E reached \in BOOLEAN :
          /\ \/ redis' = [redis EXCEPT ![sreq[r].session] = None]
             \/ ~reached /\ UNCHANGED redis
          /\ sreq' = [sreq EXCEPT ![r].pc = "drop", ![r].reached = reached]
    /\ UNCHANGED <<users, fallback, owner, gone, ended>>

\* History: the session is gone if the call to Redis did not fail.
EndLogout(r) ==
    /\ gone' = IF sreq[r].reached THEN gone \cup {sreq[r].session} ELSE gone
    /\ Finish(r)

\* Mutant: the copy in the process is dropped only when Redis failed.
DelFallbackOnError(r) ==
    /\ sreq[r].pc = "drop"
    /\ fallback' = IF sreq[r].reached THEN fallback
                   ELSE [fallback EXCEPT ![sreq[r].session] = None]
    /\ EndLogout(r)
    /\ UNCHANGED <<users, redis, owner, ended>>

DelFallback(r) ==
    /\ sreq[r].pc = "drop"
    /\ fallback' = [fallback EXCEPT ![sreq[r].session] = None]
    /\ EndLogout(r)
    /\ UNCHANGED <<users, redis, owner, ended>>

(***************************************************************************)
(* A request with a session.  requireSession asks the cache for it; me and  *)
(* requireRoles ask again for the email and read the user; a handler that   *)
(* was admitted by its role, and has changed something, asks once more for  *)
(* the actor of its audit entry.  What the handlers do in between is in     *)
(* other modules.                                                          *)
(***************************************************************************)

Arrive(r, s, route) ==
    /\ Idle(r)
    /\ owner[s] # None
    /\ sreq' = [sreq EXCEPT ![r] =
         [pc |-> "redis", for |-> "session", session |-> s, route |-> route,
          answered |-> FALSE, email |-> None,
          late |-> s \in gone \/ (redis[s] = None /\ ~Fresh(s))]]
    /\ UNCHANGED <<users, redis, fallback, owner, gone, ended>>

AskAgain(r, what, email) ==
    sreq' = [sreq EXCEPT ![r].pc = "redis", ![r].for = what, ![r].email = email]

Check(r, email) == sreq' = [sreq EXCEPT ![r].pc = "check", ![r].email = email]

\* The email under which the audit entry will be written.
Actor(r, email) == sreq' = [sreq EXCEPT ![r].pc = "record", ![r].email = email]

Found(r, email) ==
    \/ sreq[r].for = "session" /\ sreq[r].route = "open" /\ Finish(r)
    \/ sreq[r].for = "session" /\ sreq[r].route # "open" /\ AskAgain(r, "user", None)
    \/ sreq[r].for = "user"    /\ Check(r, email)
    \/ sreq[r].for = "actor"   /\ Actor(r, email)

\* Mutant: a request without a session stands for the administrator.
MissingAsRoot(r) ==
    \/ sreq[r].for = "session" /\ Finish(r)
    \/ sreq[r].for = "user"    /\ Check(r, Root)
    \/ sreq[r].for = "actor"   /\ Actor(r, Root)

\* me takes an empty email where sessionEmail takes System: neither is a user.
Missing(r) ==
    \/ sreq[r].for = "session" /\ Finish(r)
    \/ sreq[r].for = "user"    /\ Check(r, System)
    \/ sreq[r].for = "actor"   /\ Actor(r, System)

AskRedis(r) ==
    /\ Asking(r) /\ sreq[r].pc = "redis"
    /\ \/ redis[sreq[r].session] # None /\ Found(r, redis[sreq[r].session])
       \/ /\ redis[sreq[r].session] = None
          /\ sreq' = [sreq EXCEPT ![r].pc = "fallback", ![r].answered = TRUE]
       \/ sreq' = [sreq EXCEPT ![r].pc = "fallback", ![r].answered = FALSE]
    /\ UNCHANGED <<users, redis, fallback, owner, gone, ended>>

\* An item that has expired is deleted.  (That takes the lock again; nothing
\* writes the item of a session twice, so nothing is lost in between.)
AskFallback(r) ==
    /\ Asking(r) /\ sreq[r].pc = "fallback"
    /\ LET s == sreq[r].session
       IN  \/ Fresh(s) /\ Found(r, fallback[s].email) /\ UNCHANGED fallback
           \/ ~Fresh(s) /\ Missing(r) /\ fallback' = [fallback EXCEPT ![s] = None]
    /\ UNCHANGED <<users, redis, owner, gone, ended>>

CheckUser(r) ==
    /\ Asking(r) /\ sreq[r].pc = "check"
    /\ LET e == sreq[r].email
       IN  \/ /\ e \in Emails /\ UserExists(e)
              /\ users[e].profile.role \in Allowed(sreq[r].route)
              /\ \/ Finish(r)
                 \/ sreq[r].route # "me" /\ AskAgain(r, "actor", e)
           \/ /\ e \in Emails /\ UserExists(e) => users[e].profile.role \notin Allowed(sreq[r].route)
              /\ Finish(r)
    /\ UNCHANGED <<users, redis, fallback, owner, gone, ended>>

\* The audit entry is written; its error is ignored.
AddAudit(r) ==
    /\ Asking(r) /\ sreq[r].pc = "record"
    /\ Finish(r)
    /\ UNCHANGED <<users, redis, fallback, owner, gone, ended>>

(***************************************************************************)
(* Time, administrators, and the end of the process, which takes its copies *)
(* of sessions with it and leaves those in Redis.                           *)
(***************************************************************************)

ExpireRedis(s) ==
    /\ redis[s] # None
    /\ redis' = [redis EXCEPT ![s] = None]
    /\ ended' = ended \cup {s}
    /\ UNCHANGED <<users, fallback, sreq, owner, gone>>

ExpireFallback(s) ==
    /\ Fresh(s)
    /\ fallback' = [fallback EXCEPT ![s].expired = TRUE]
    /\ ended' = ended \cup {s}
    /\ UNCHANGED <<users, redis, sreq, owner, gone>>

\* Accounts models the handlers.
ChangeUsers ==
    /\ \E e \in Emails : RemoveAdminUser(e) \/ \E user \in User : UpsertAdminUser(e, user)
    /\ UNCHANGED <<redis, fallback, sreq, owner, gone, ended>>

Restart ==
    /\ users' = SeededUsers
    /\ fallback' = [s \in SessionIds |-> None]
    /\ sreq' = [r \in Requests |-> NoRequest]
    /\ ended' = ended \cup {s \in SessionIds : fallback[s] # None}
    /\ UNCHANGED <<redis, owner, gone>>

(***************************************************************************)
(* The specification                                                       *)
(***************************************************************************)

SessionsNext ==
    \/ \E r \in Requests, e \in Emails, w \in Passwords : CheckCredentials(r, e, w)
    \/ \E r \in Requests, s \in SessionIds : Set(r, s) \/ Logout(r, s)
    \/ \E r \in Requests, s \in SessionIds, route \in Routes : Arrive(r, s, route)
    \/ \E r \in Requests : \/ SetFallback(r) \/ Del(r) \/ DelFallback(r)
                           \/ AskRedis(r) \/ AskFallback(r) \/ CheckUser(r) \/ AddAudit(r)
    \/ \E s \in SessionIds : ExpireRedis(s) \/ ExpireFallback(s)
    \/ ChangeUsers
    \/ Restart

SessionsSpec == SessionsInit /\ [][SessionsNext]_sessionVars

(***************************************************************************)
(* Properties                                                              *)
(***************************************************************************)

\* Type invariant of the sessions.
SessionsTypeOK ==
    /\ UsersTypeOK
    /\ redis \in [SessionIds -> Emails \cup {None}]
    /\ fallback \in [SessionIds -> Items \cup {None}]
    /\ sreq \in [Requests -> SessionRequests]
    /\ owner \in [SessionIds -> Emails \cup {None}]
    /\ gone \subseteq SessionIds /\ ended \subseteq SessionIds

\* A request that arrives after the logout of its session, or after the session
\* has expired wherever it was kept, does not get past requireSession, though a
\* session may be kept twice and logout ignores the errors of Redis.  (It does
\* get past when the logout failed to reach Redis.)
EndedStaysOut ==
    \A r \in Requests : Asking(r) /\ sreq[r].late => sreq[r].for = "session"

\* A session that Redis was asked for, and that is found nowhere, was logged out
\* or has expired, or a process that kept it has ended: a login that was told to
\* have succeeded is not forgotten because a call to Redis failed.
SessionsEndForAReason ==
    \A r \in Requests :
        sreq[r].pc = "fallback" /\ sreq[r].answered /\ ~Fresh(sreq[r].session)
            => sreq[r].session \in ended

\* A handler that requireRoles admitted acts for the user who logged in, though
\* the session is looked up anew and may be gone by then; and its audit entry
\* names that user too.  The entry names System instead only when Redis failed,
\* or when the session was logged out, expired or was lost with a process, which
\* may be after the handler was admitted.
ActsAsItself ==
    \A r \in Requests :
        Asking(r) /\ sreq[r].for = "actor" =>
            \/ sreq[r].email = owner[sreq[r].session]
            \/ /\ sreq[r].pc = "record" /\ sreq[r].email = System
               /\ sreq[r].answered => sreq[r].session \in ended
=============================================================================
