-------------------------------- MODULE Console --------------------------------
(***************************************************************************)
(* What the admin API keeps beside objects and users: the system settings,  *)
(* the policies and the audit log (internal/admin/service.go over           *)
(* internal/meta/memory.go and postgres.go), and the handlers that go by    *)
(* the settings, login and uploadObject.                                    *)
(*                                                                         *)
(* A handler makes its change and adds the entry to the log in two calls of *)
(* the repository; the process may end between them, and with a database    *)
(* either call may fail.  Whom an entry names is in Sessions.               *)
(***************************************************************************)
EXTENDS Integers, Sequences

CONSTANTS
    Requests, PolicyIds, None,
    Sent,                      \* the settings that clients send
    Sizes,                     \* of uploads, in MB
    LogCap,                    \* 500
    DefaultShown, MaxShown,    \* 100 and 200
    Asked,                     \* the limits that clients ask of ListAudit
    MaxChanges                 \* bound: the changes of one behaviour

ASSUME ConsoleAssumption == {LogCap, DefaultShown, MaxShown, MaxChanges} \subseteq Nat \ {0}

\* How a settings document reads: whether the system has a name; the URL, of
\* which it matters whether it is missing, relative, or one to send to clients;
\* hours and MB.
Urls == {"", "relative", "default", "other"}

SystemSettings == [named : BOOLEAN, url : Urls, ttl : Int, mb : Int]

PolicyTimes == [created : Nat, updated : Nat]

ASSUME ConsoleTypesAssumption ==
    /\ Sent \subseteq SystemSettings
    /\ Sizes \subseteq Nat
    /\ Asked \subseteq Int
    /\ None \notin SystemSettings \cup PolicyTimes \cup Nat

VARIABLES
    database,   \* the repository is PostgresRepository, not MemoryRepository
    settings,   \* the saved settings, None before the first save
    policies,   \* policies[id]: when it was created and updated, or None
    log,        \* the audit log, newest entry first
    creq,       \* creq[r]: request r and where it is in its handler
    changes,    \* history: how many changes were made, the clock of the model
    added,      \* history: the entries ever added, oldest first
    born,       \* history: born[id]: when policy id was created, or None
    dead,       \* history: policies that were deleted
    chosen      \* history: the last settings accepted, as the client sent them

consoleVars == <<database, settings, policies, log, creq, changes, added, born, dead, chosen>>

(***************************************************************************)
(* Settings                                                                *)
(***************************************************************************)

defaultSystemSettings == [named |-> TRUE, url |-> "default", ttl |-> 24, mb |-> 1024]

\* Mutant: one hour too many.
ValidateLoosely(s) == s.named /\ s.url # "relative" /\ s.ttl \in 1 .. 721 /\ s.mb > 0

MaxUploadMB == 1024 * 1024

validateSystemSettings(s) ==
    /\ s.named
    /\ s.url # "relative"
    /\ s.ttl \in 1 .. 720
    /\ s.mb \in 1 .. MaxUploadMB

normalizeSystemSettings(s) ==
    [named |-> TRUE,
     url   |-> IF s.url = "" THEN "default" ELSE s.url,
     ttl   |-> IF s.ttl <= 0 THEN 24 ELSE IF s.ttl > 720 THEN 720 ELSE s.ttl,
     mb    |-> IF s.mb <= 0 THEN 1024 ELSE s.mb]

GetSystemSettings == IF settings = None THEN defaultSystemSettings ELSE settings

\* The handlers ignore the error of GetSystemSettings: they go on with zeros.
Unreadable == [named |-> FALSE, url |-> "", ttl |-> 0, mb |-> 0]

Readings == {GetSystemSettings} \cup (IF database THEN {Unreadable} ELSE {})

(***************************************************************************)
(* Requests                                                                *)
(***************************************************************************)

NoRequest == [pc |-> "idle"]

Now == changes + 1

Idle(r) == creq[r].pc = "idle"

Goto(r, state) == creq' = [creq EXCEPT ![r] = state]

\* A change was made; with a database its answer may be lost, and then the
\* handler ends with an error and no entry.
Changed(r) ==
    /\ Idle(r) /\ changes < MaxChanges
    /\ changes' = Now
    /\ \/ Goto(r, [pc |-> "audit", change |-> Now])
       \/ database /\ UNCHANGED creq
    /\ UNCHANGED <<database, log, added>>

SaveSettings(r) ==
    /\ \E s \in Sent :
         /\ validateSystemSettings(s)
         /\ settings' = normalizeSystemSettings(s)
         /\ chosen' = s
    /\ Changed(r)
    /\ UNCHANGED <<policies, born, dead>>

\* The id is random: no policy has had it.
CreatePolicy(r, id) ==
    /\ born[id] = None
    /\ policies' = [policies EXCEPT ![id] = [created |-> Now, updated |-> Now]]
    /\ born' = [born EXCEPT ![id] = Now]
    /\ Changed(r)
    /\ UNCHANGED <<settings, dead, chosen>>

\* Mutant: whether the policy is there is not looked at, and the policy is
\* stored as it was sent.
UpdatePolicyUnchecked(r, id) ==
    /\ born[id] # None
    /\ policies' = [policies EXCEPT ![id] = [created |-> Now, updated |-> Now]]
    /\ Changed(r)
    /\ UNCHANGED <<settings, born, dead, chosen>>

UpdatePolicy(r, id) ==
    /\ policies[id] # None
    /\ policies' = [policies EXCEPT ![id].updated = Now]
    /\ Changed(r)
    /\ UNCHANGED <<settings, born, dead, chosen>>

DeletePolicy(r, id) ==
    /\ policies[id] # None
    /\ policies' = [policies EXCEPT ![id] = None]
    /\ dead' = dead \cup {id}
    /\ Changed(r)
    /\ UNCHANGED <<settings, born, chosen>>

(***************************************************************************)
(* The audit log                                                           *)
(***************************************************************************)

Newest(s, n) == SubSeq(s, 1, IF n < Len(s) THEN n ELSE Len(s))

\* Mutant: the log is cut at the wrong end.
KeepOldest(s) == IF Len(s) <= LogCap THEN s ELSE SubSeq(s, Len(s) - LogCap + 1, Len(s))

\* The table of the database is never cut.
Keep(s) == IF database THEN s ELSE Newest(s, LogCap)

AddAudit(r) ==
    /\ creq[r].pc = "audit"
    /\ \/ /\ log' = Keep(<<creq[r].change>> \o log)
          /\ added' = Append(added, creq[r].change)
       \/ database /\ UNCHANGED <<log, added>>
    /\ Goto(r, NoRequest)
    /\ UNCHANGED <<database, settings, policies, changes, born, dead, chosen>>

\* The entries that a limit stands for.
Shown(limit) == IF limit <= 0 \/ limit > MaxShown THEN DefaultShown ELSE limit

ListAudit(limit) == Newest(log, Shown(limit))

(***************************************************************************)
(* Handlers that go by the settings                                        *)
(***************************************************************************)

\* Mutant: zeros are taken as they are.
LifetimeAsRead(s) == s.ttl

\* login: a session never gets the lifetime 0, which Redis takes for no end.
Lifetime(s) == IF s.ttl <= 0 THEN 24 ELSE s.ttl

Login(r) ==
    /\ Idle(r) /\ changes < MaxChanges
    /\ changes' = Now
    /\ \E s \in Readings :
         Goto(r, [pc |-> "audit", change |-> Now, ttl |-> Lifetime(s),
                  chosen |-> chosen])
    /\ UNCHANGED <<database, settings, policies, log, added, born, dead, chosen>>

\* uploadObject: a body that says it is too long is refused at once.
BeginUpload(r) ==
    /\ Idle(r)
    /\ \E s \in Readings, size \in Sizes, declared \in BOOLEAN :
         /\ s.mb > 0 /\ declared => size <= s.mb
         /\ Goto(r, [pc |-> "body", size |-> size, limit |-> s.mb,
                     read |-> s # Unreadable, chosen |-> chosen])
    /\ UNCHANGED <<database, settings, policies, log, changes, added, born, dead, chosen>>

\* Mutant: only what a request says of its length is looked at.
ReceiveBodyUnlimited(r) ==
    /\ creq[r].pc = "body"
    /\ Goto(r, [creq[r] EXCEPT !.pc = "stored"])
    /\ UNCHANGED <<database, settings, policies, log, changes, added, born, dead, chosen>>

\* The reader of the body gives up at the limit, if there is one.
ReceiveBody(r) ==
    /\ creq[r].pc = "body"
    /\ Goto(r, IF creq[r].limit > 0 /\ creq[r].size > creq[r].limit THEN NoRequest
               ELSE [creq[r] EXCEPT !.pc = "stored"])
    /\ UNCHANGED <<database, settings, policies, log, changes, added, born, dead, chosen>>

AnswerUpload(r) ==
    /\ creq[r].pc = "stored"
    /\ Goto(r, NoRequest)
    /\ UNCHANGED <<database, settings, policies, log, changes, added, born, dead, chosen>>

\* Only a database keeps what it has.
Restart ==
    /\ creq' = [r \in Requests |-> NoRequest]
    /\ IF database THEN UNCHANGED <<settings, policies, log, added, chosen>>
       ELSE /\ settings' = None /\ chosen' = defaultSystemSettings
            /\ policies' = [id \in PolicyIds |-> None]
            /\ log' = <<>> /\ added' = <<>>
    /\ UNCHANGED <<database, changes, born, dead>>

ConsoleInit ==
    /\ database \in BOOLEAN
    /\ settings = None
    /\ policies = [id \in PolicyIds |-> None]
    /\ log = <<>>
    /\ creq = [r \in Requests |-> NoRequest]
    /\ changes = 0
    /\ added = <<>>
    /\ born = [id \in PolicyIds |-> None]
    /\ dead = {}
    /\ chosen = defaultSystemSettings

ConsoleNext ==
    \/ \E r \in Requests :
         \/ SaveSettings(r) \/ Login(r)
         \/ \E id \in PolicyIds : CreatePolicy(r, id) \/ UpdatePolicy(r, id) \/ DeletePolicy(r, id)
         \/ AddAudit(r)
         \/ BeginUpload(r) \/ ReceiveBody(r) \/ AnswerUpload(r)
    \/ Restart

ConsoleSpec == ConsoleInit /\ [][ConsoleNext]_consoleVars

(***************************************************************************)
(* Properties                                                              *)
(***************************************************************************)

\* An entry stays on the first page of every limit, and in the log, until as
\* many newer ones have come: whatever is in between, requests that overlap,
\* and calls that fail, never push out a newer entry for an older one.
RecentEntriesAreListed ==
    \A i \in 1 .. Len(added), limit \in Asked :
        LET newer == Len(added) - i IN
        newer < Shown(limit) /\ (database \/ newer < LogCap)
            => newer < Len(ListAudit(limit)) /\ ListAudit(limit)[newer + 1] = added[i]

\* A policy that was deleted never comes back, whatever updates are under way,
\* and an update never changes when the policy was created.
PoliciesLiveOnce ==
    \A id \in PolicyIds :
        policies[id] # None => id \notin dead /\ policies[id].created = born[id]

\* What a client was told is saved is what counts: a session lasts as long as
\* the settings accepted last say, or a day when they cannot be read, and never
\* for ever; and an upload that is stored is within their limit, whatever it
\* said of its length.  When they cannot be read there is no limit.
SettingsApply ==
    \A r \in Requests :
        /\ "ttl" \in DOMAIN creq[r] => creq[r].ttl \in {creq[r].chosen.ttl, 24}
        /\ creq[r].pc = "stored" /\ creq[r].read => creq[r].size <= creq[r].chosen.mb
=============================================================================
