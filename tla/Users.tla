-------------------------------- MODULE Users --------------------------------
(***************************************************************************)
(* The table of admin users (internal/meta/memory.go): an email, the role   *)
(* and status that an administrator gives the user, and a password.         *)
(* Names, ids and times are left out; nothing reads them.                   *)
(***************************************************************************)

CONSTANTS
    Emails,
    Root,           \* the email of the administrator the process seeds
    Profiles,       \* the roles and statuses that clients give
    Passwords,
    RootPassword,
    None

Roles    == {"Admin", "Operator", "Viewer", "Auditor"}
Statuses == {"Active", "Disabled"}

RootProfile == [role |-> "Admin", status |-> "Active"]

ASSUME UsersAssumption ==
    /\ Root \in Emails
    /\ Profiles \subseteq [role : Roles, status : Statuses]
    /\ RootProfile \in Profiles
    /\ RootPassword \in Passwords

User == [profile : Profiles, password : Passwords]

ASSUME UserSentinelAssumption == None \notin User \cup Passwords \cup Emails

VARIABLE users   \* users[e]: the user with email e

UsersTypeOK == users \in [Emails -> User \cup {None}]

UserExists(e) == users[e] # None

\* SeedRootAdmin on an empty table.
SeededUsers ==
    [e \in Emails |-> IF e = Root THEN [profile |-> RootProfile, password |-> RootPassword]
                      ELSE None]

\* A user that is there is replaced.
UpsertAdminUser(e, user) == users' = [users EXCEPT ![e] = user]

RemoveAdminUser(e) ==
    /\ UserExists(e)
    /\ users' = [users EXCEPT ![e] = None]
=============================================================================
