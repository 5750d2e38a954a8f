---------------------------- MODULE ConsoleProofs ----------------------------
(***************************************************************************)
(* Proofs about the settings, the policies and the audit log, for every     *)
(* number of requests and policies and every length of the log and its      *)
(* pages.                                                                  *)
(*                                                                         *)
(* None of the three properties is inductive.  What is: the log is the end  *)
(* of all entries ever added, newest first (LogIsNewest); the settings in   *)
(* use are those accepted last (SettingsAreChosen), and a request keeps     *)
(* what it read of them (CallsFit); a policy that was deleted was created,  *)
(* so that its id is not free again (DeadWereBorn).                         *)
(***************************************************************************)
EXTENDS Console, TLAPS

(***************************************************************************)
(* The invariant                                                           *)
(***************************************************************************)

Changing == [pc : {"audit"}, change : Nat]

LoggingIn == [pc : {"audit"}, change : Nat, ttl : Int, chosen : SystemSettings]

Uploading ==
    [pc : {"body", "stored"}, size : Sizes, limit : Int, read : BOOLEAN, chosen : SystemSettings]

Calls == {NoRequest} \cup Changing \cup LoggingIn \cup Uploading

ConsoleTypeOK ==
    /\ database \in BOOLEAN
    /\ settings \in SystemSettings \cup {None}
    /\ policies \in [PolicyIds -> PolicyTimes \cup {None}]
    /\ log \in Seq(Nat)
    /\ creq \in [Requests -> Calls]
    /\ changes \in Nat
    /\ added \in Seq(Nat)
    /\ born \in [PolicyIds -> Nat \cup {None}]
    /\ dead \in SUBSET PolicyIds
    /\ chosen \in SystemSettings

LogIsNewest ==
    /\ Len(log) = IF database \/ Len(added) <= LogCap THEN Len(added) ELSE LogCap
    /\ \A i \in 1 .. Len(log) : log[i] = added[Len(added) - i + 1]

SettingsAreChosen ==
    /\ chosen.ttl \in 1 .. 720 /\ chosen.mb > 0
    /\ GetSystemSettings.ttl = chosen.ttl /\ GetSystemSettings.mb = chosen.mb

DeadWereBorn == \A id \in dead : born[id] # None

CallFits(c) ==
    /\ c \in LoggingIn => c.ttl \in {c.chosen.ttl, 24}
    /\ c \in Uploading /\ c.read =>
         /\ c.limit = c.chosen.mb /\ c.limit > 0
         /\ c.pc = "stored" => c.size <= c.limit

CallsFit == \A r \in Requests : CallFits(creq[r])

ConsoleInv ==
    /\ ConsoleTypeOK
    /\ LogIsNewest
    /\ SettingsAreChosen
    /\ PoliciesLiveOnce
    /\ DeadWereBorn
    /\ CallsFit

(***************************************************************************)
(* Settings, requests and pages                                            *)
(***************************************************************************)

\* The defaults are settings, and so is what cannot be read.
LEMMA SettingsTypes ==
  /\ defaultSystemSettings \in SystemSettings
  /\ Unreadable \in SystemSettings /\ Unreadable.ttl = 0
  BY DEF defaultSystemSettings, Unreadable, SystemSettings, Urls

\* Settings that are accepted are saved with the lifetime and the limit sent.
LEMMA AcceptedAsSent ==
  ASSUME NEW s \in SystemSettings, validateSystemSettings(s)
  PROVE  /\ normalizeSystemSettings(s) \in SystemSettings
         /\ normalizeSystemSettings(s) # None
         /\ normalizeSystemSettings(s).ttl = s.ttl
         /\ normalizeSystemSettings(s).mb = s.mb
         /\ s.ttl \in 1 .. 720 /\ s.mb > 0
<1>1. s.url \in Urls /\ s.ttl \in Int /\ s.mb \in Int
  BY DEF SystemSettings
<1>2. s.ttl \in 1 .. 720 /\ s.mb > 0
  <2>1. s.ttl \in 1 .. 720 /\ s.mb \in 1 .. MaxUploadMB
    BY Zenon DEF validateSystemSettings
  <2>2. MaxUploadMB \in Int
    BY DEF MaxUploadMB
  <2>. QED
    BY <1>1, <2>1, <2>2
<1>3. PICK url \in Urls : url = IF s.url = "" THEN "default" ELSE s.url
  BY <1>1, Zenon DEF Urls
<1> DEFINE n == [named |-> TRUE, url |-> url, ttl |-> s.ttl, mb |-> s.mb]
<1>4. normalizeSystemSettings(s) = n
  <2>1. (IF s.ttl <= 0 THEN 24 ELSE IF s.ttl > 720 THEN 720 ELSE s.ttl) = s.ttl
    BY <1>1, <1>2
  <2>2. (IF s.mb <= 0 THEN 1024 ELSE s.mb) = s.mb
    BY <1>1, <1>2
  <2>. QED
    BY <1>3, <2>1, <2>2, Zenon DEF normalizeSystemSettings
<1>5. n \in SystemSettings /\ n.ttl = s.ttl /\ n.mb = s.mb
  BY <1>1 DEF SystemSettings
<1> HIDE DEF n
<1>6. n # None
  BY <1>5, ConsoleTypesAssumption
<1>. QED
  BY <1>2, <1>4, <1>5, <1>6

\* What a handler reads is the settings accepted last, or what cannot be read.
LEMMA ReadingsType ==
  ASSUME ConsoleInv, NEW s \in Readings
  PROVE  /\ s \in SystemSettings
         /\ \/ s.ttl = chosen.ttl /\ s.mb = chosen.mb
            \/ s = Unreadable
<1>1. GetSystemSettings \in SystemSettings
  BY SettingsTypes DEF GetSystemSettings, ConsoleInv, ConsoleTypeOK
<1>2. s = GetSystemSettings \/ s = Unreadable
  BY DEF Readings
<1>. QED
  BY <1>1, <1>2, SettingsTypes DEF ConsoleInv, SettingsAreChosen

\* The fields tell the requests apart.
LEMMA CallKinds ==
  ASSUME NEW c \in Calls
  PROVE  /\ c.pc = "audit" => c \in Changing \cup LoggingIn
         /\ c.pc \in {"body", "stored"} => c \in Uploading
         /\ c \in Uploading => c.pc \in {"body", "stored"}
         /\ "ttl" \in DOMAIN c => c \in LoggingIn
  BY DEF Calls, NoRequest, Changing, LoggingIn, Uploading

\* A request that has nothing to keep fits.
LEMMA PlainCallsFit ==
  /\ NoRequest \in Calls /\ CallFits(NoRequest)
  /\ \A c \in Changing : c \in Calls /\ CallFits(c)
  BY DEF Calls, NoRequest, Changing, LoggingIn, Uploading, CallFits

\* Counted from the other end: where the entry k of the log is among all.
LEMMA FromTheEnd ==
  ASSUME NEW n \in Nat, NEW m \in Nat, m <= n, NEW k \in 1 .. m
  PROVE  n - k + 1 \in 1 .. n /\ n - (n - k + 1) + 1 = k
  OBVIOUS

\* The first n entries of a sequence.
LEMMA NewestEffect ==
  ASSUME NEW s \in Seq(Nat), NEW n \in Nat
  PROVE  /\ Newest(s, n) \in Seq(Nat)
         /\ Len(Newest(s, n)) = IF n < Len(s) THEN n ELSE Len(s)
         /\ \A i \in 1 .. Len(Newest(s, n)) : Newest(s, n)[i] = s[i]
  BY DEF Newest

(***************************************************************************)
(* One lemma per step                                                      *)
(***************************************************************************)

\* A request goes on to a state that fits, and the others stay.
LEMMA GotoFits ==
  ASSUME ConsoleInv, NEW r \in Requests, NEW c \in Calls, CallFits(c), Goto(r, c)
  PROVE  creq' \in [Requests -> Calls] /\ CallsFit'
<1>1. creq \in [Requests -> Calls]
  BY DEF ConsoleInv, ConsoleTypeOK
<1>2. creq' = [creq EXCEPT ![r] = c]
  BY DEF Goto
<1>3. \A q \in Requests : creq'[q] = IF q = r THEN c ELSE creq[q]
  BY <1>1, <1>2
<1>4. creq' \in [Requests -> Calls]
  BY <1>1, <1>2
<1>5. \A q \in Requests : CallFits(creq'[q])
  BY <1>3 DEF ConsoleInv, CallsFit
<1>. QED
  BY <1>4, <1>5 DEF CallsFit

\* A change leaves the request with an entry to add, or at its end.
LEMMA ChangedEffect ==
  ASSUME ConsoleInv, NEW r \in Requests, Changed(r)
  PROVE  /\ Now \in Nat /\ changes' = Now
         /\ creq' \in [Requests -> Calls] /\ CallsFit'
         /\ UNCHANGED <<database, log, added>> /\ LogIsNewest'
<1>1. Now \in Nat
  BY DEF Now, ConsoleInv, ConsoleTypeOK
<1>2. PICK n \in Nat : n = Now
  BY <1>1
<1>3. [pc |-> "audit", change |-> n] \in Changing
  BY DEF Changing
<1>4. creq' \in [Requests -> Calls] /\ CallsFit'
  <2>1. CASE Goto(r, [pc |-> "audit", change |-> Now])
    BY <1>2, <1>3, <2>1, GotoFits, PlainCallsFit
  <2>2. CASE UNCHANGED creq
    BY <2>2 DEF ConsoleInv, ConsoleTypeOK, CallsFit
  <2>. QED
    BY <2>1, <2>2 DEF Changed
<1>5. LogIsNewest'
  BY DEF Changed, ConsoleInv, LogIsNewest
<1>. QED
  BY <1>1, <1>4, <1>5 DEF Changed

\* Saving settings: what is accepted counts from now on.
LEMMA SaveSettingsInv ==
  ASSUME ConsoleInv, NEW r \in Requests, SaveSettings(r)
  PROVE  ConsoleInv'
<1>1. Changed(r) /\ UNCHANGED <<policies, born, dead>>
  BY DEF SaveSettings
<1>2. PICK s \in Sent : /\ validateSystemSettings(s)
                        /\ settings' = normalizeSystemSettings(s)
                        /\ chosen' = s
  BY DEF SaveSettings
<1>3. s \in SystemSettings
  BY ConsoleTypesAssumption
<1>4. /\ settings' \in SystemSettings /\ settings' # None
      /\ settings'.ttl = s.ttl /\ settings'.mb = s.mb
      /\ s.ttl \in 1 .. 720 /\ s.mb > 0
  BY <1>2, <1>3, AcceptedAsSent
<1>5. SettingsAreChosen'
  BY <1>2, <1>4 DEF SettingsAreChosen, GetSystemSettings
<1>6. ConsoleTypeOK'
  BY <1>1, <1>2, <1>3, <1>4, ChangedEffect DEF ConsoleInv, ConsoleTypeOK
<1>7. PoliciesLiveOnce' /\ DeadWereBorn'
  BY <1>1 DEF ConsoleInv, PoliciesLiveOnce, DeadWereBorn
<1>. QED
  BY <1>1, <1>5, <1>6, <1>7, ChangedEffect DEF ConsoleInv

\* Creating, updating and deleting a policy: its id was free only once.
LEMMA PolicyInv ==
  ASSUME ConsoleInv, NEW r \in Requests, NEW id \in PolicyIds,
         CreatePolicy(r, id) \/ UpdatePolicy(r, id) \/ DeletePolicy(r, id)
  PROVE  ConsoleInv'
<1>1. Changed(r) /\ UNCHANGED <<settings, chosen>>
  BY DEF CreatePolicy, UpdatePolicy, DeletePolicy
<1>2. PICK n \in Nat : n = Now
  BY <1>1, ChangedEffect
<1>3. ConsoleTypeOK
  BY DEF ConsoleInv
<1>4. /\ policies' \in [PolicyIds -> PolicyTimes \cup {None}]
      /\ born' \in [PolicyIds -> Nat \cup {None}]
      /\ dead' \in SUBSET PolicyIds
      /\ PoliciesLiveOnce' /\ DeadWereBorn'
  <2>1. CASE CreatePolicy(r, id)
    <3> DEFINE p == [created |-> n, updated |-> n]
    <3>1. p \in PolicyTimes /\ p.created = n
      BY DEF PolicyTimes
    <3>2. /\ born[id] = None /\ UNCHANGED dead
          /\ policies' = [policies EXCEPT ![id] = p]
          /\ born' = [born EXCEPT ![id] = n]
      BY <1>2, <2>1 DEF CreatePolicy
    <3> HIDE DEF p
    <3>3. n # None
      BY ConsoleTypesAssumption
    <3>4. PoliciesLiveOnce' /\ DeadWereBorn'
      BY <1>3, <3>1, <3>2, <3>3
      DEF ConsoleInv, ConsoleTypeOK, PoliciesLiveOnce, DeadWereBorn
    <3>. QED
      BY <1>3, <3>1, <3>2, <3>4 DEF ConsoleTypeOK
  <2>2. CASE UpdatePolicy(r, id)
    <3>1. policies[id] # None /\ UNCHANGED <<born, dead>>
      BY <2>2 DEF UpdatePolicy
    <3> DEFINE p == [policies[id] EXCEPT !.updated = n]
    <3>2. p \in PolicyTimes /\ p.created = policies[id].created
      BY <1>3, <3>1 DEF ConsoleTypeOK, PolicyTimes
    <3>3. policies' = [policies EXCEPT ![id] = p]
      BY <1>2, <2>2 DEF UpdatePolicy
    <3> HIDE DEF p
    <3>4. PoliciesLiveOnce' /\ DeadWereBorn'
      BY <1>3, <3>1, <3>2, <3>3
      DEF ConsoleInv, ConsoleTypeOK, PoliciesLiveOnce, DeadWereBorn
    <3>. QED
      BY <1>3, <3>1, <3>2, <3>3, <3>4 DEF ConsoleTypeOK
  <2>3. CASE DeletePolicy(r, id)
    <3>1. /\ policies[id] # None /\ UNCHANGED born
          /\ policies' = [policies EXCEPT ![id] = None]
          /\ dead' = dead \cup {id}
      BY <2>3 DEF DeletePolicy
    <3>2. born[id] # None
      <4>1. policies[id].created = born[id] /\ policies[id].created \in Nat
        BY <1>3, <3>1 DEF ConsoleInv, ConsoleTypeOK, PoliciesLiveOnce, PolicyTimes
      <4>. QED
        BY <4>1, ConsoleTypesAssumption
    <3>3. PoliciesLiveOnce' /\ DeadWereBorn'
      BY <1>3, <3>1, <3>2 DEF ConsoleInv, ConsoleTypeOK, PoliciesLiveOnce, DeadWereBorn
    <3>. QED
      BY <1>3, <3>1, <3>3 DEF ConsoleTypeOK
  <2>. QED
    BY <2>1, <2>2, <2>3
<1>5. SettingsAreChosen'
  BY <1>1 DEF ConsoleInv, SettingsAreChosen, GetSystemSettings
<1>6. ConsoleTypeOK'
  BY <1>1, <1>3, <1>4, ChangedEffect DEF ConsoleTypeOK
<1>. QED
  BY <1>1, <1>4, <1>5, <1>6, ChangedEffect DEF ConsoleInv

\* A step that is of the request alone.
LEMMA RequestStepInv ==
  ASSUME ConsoleInv, changes' \in Nat, creq' \in [Requests -> Calls], CallsFit',
         UNCHANGED <<database, settings, policies, log, added, born, dead, chosen>>
  PROVE  ConsoleInv'
  BY DEF ConsoleInv, ConsoleTypeOK, LogIsNewest, SettingsAreChosen, GetSystemSettings,
         PoliciesLiveOnce, DeadWereBorn

\* An entry goes to the front of the log, and one more than fit falls off its end.
LEMMA AddAuditInv ==
  ASSUME ConsoleInv, NEW r \in Requests, AddAudit(r)
  PROVE  ConsoleInv'
<1>1. ConsoleTypeOK
  BY DEF ConsoleInv
<1>2. creq[r] \in Calls /\ creq[r].pc = "audit"
  BY <1>1 DEF ConsoleTypeOK, AddAudit
<1>3. creq[r].change \in Nat
  BY <1>2, CallKinds DEF Changing, LoggingIn
<1>4. PICK n \in Nat : n = creq[r].change
  BY <1>3
<1>5. creq' \in [Requests -> Calls] /\ CallsFit'
  BY GotoFits, PlainCallsFit DEF AddAudit
<1>6. UNCHANGED <<database, settings, policies, changes, born, dead, chosen>>
  BY DEF AddAudit
<1>7. CASE UNCHANGED <<log, added>>
  BY <1>1, <1>5, <1>6, <1>7, RequestStepInv DEF ConsoleTypeOK
<1>8. CASE /\ log' = Keep(<<creq[r].change>> \o log)
           /\ added' = Append(added, creq[r].change)
  <2> DEFINE s == <<n>> \o log
  <2>1. /\ s \in Seq(Nat) /\ Len(s) = Len(log) + 1
        /\ \A i \in 1 .. Len(s) : s[i] = IF i = 1 THEN n ELSE log[i - 1]
    BY <1>1 DEF ConsoleTypeOK
  <2>2. /\ added' \in Seq(Nat) /\ Len(added') = Len(added) + 1
        /\ \A i \in 1 .. Len(added) : added'[i] = added[i]
        /\ added'[Len(added) + 1] = n
    BY <1>1, <1>4, <1>8 DEF ConsoleTypeOK
  <2>3. /\ log' = Keep(s)
    BY <1>4, <1>8
  <2> HIDE DEF s
  <2>4. LogCap \in Nat
    BY ConsoleAssumption
  <2>5. /\ log' \in Seq(Nat)
        /\ Len(log') = IF database \/ Len(s) <= LogCap THEN Len(s) ELSE LogCap
        /\ \A i \in 1 .. Len(log') : log'[i] = s[i]
    <3>1. CASE database
      BY <2>1, <2>3, <3>1 DEF Keep
    <3>2. CASE ~database
      <4>1. log' = Newest(s, LogCap)
        BY <2>3, <3>2 DEF Keep
      <4>. QED
        BY <2>1, <2>4, <3>2, <4>1, NewestEffect
    <3>. QED
      BY <3>1, <3>2
  <2>6. LogIsNewest'
    <3>1. /\ Len(log) \in Nat /\ Len(added) \in Nat
          /\ Len(log) = IF database \/ Len(added) <= LogCap THEN Len(added) ELSE LogCap
          /\ \A i \in 1 .. Len(log) : log[i] = added[Len(added) - i + 1]
      BY <1>1 DEF ConsoleInv, LogIsNewest, ConsoleTypeOK
    <3>2. Len(log') = IF database \/ Len(added') <= LogCap THEN Len(added') ELSE LogCap
      BY <2>1, <2>2, <2>4, <2>5, <3>1
    <3>3. ASSUME NEW i \in 1 .. Len(log')
          PROVE  log'[i] = added'[Len(added') - i + 1]
      <4>1. i \in 1 .. Len(s) /\ log'[i] = s[i]
        BY <2>1, <2>4, <2>5
      <4>2. CASE i = 1
        BY <2>1, <2>2, <3>1, <4>1, <4>2
      <4>3. CASE i # 1
        <5>1. i - 1 \in 1 .. Len(log) /\ s[i] = log[i - 1]
          BY <2>1, <3>1, <4>1, <4>3
        <5>2. log[i - 1] = added[Len(added) - (i - 1) + 1]
          BY <3>1, <5>1
        <5>3. Len(added) - (i - 1) + 1 \in 1 .. Len(added)
          <6>1. Len(log) <= Len(added)
            BY <2>4, <3>1
          <6>. QED
            BY <3>1, <5>1, <6>1, FromTheEnd
        <5>4. added'[Len(added) - (i - 1) + 1] = added[Len(added) - (i - 1) + 1]
          BY <2>2, <5>3
        <5>5. Len(added') - i + 1 = Len(added) - (i - 1) + 1
          BY <2>2, <3>1, <4>1
        <5>. QED
          BY <4>1, <5>1, <5>2, <5>4, <5>5
      <4>. QED
        BY <4>2, <4>3
    <3>. QED
      BY <1>6, <3>2, <3>3 DEF LogIsNewest
  <2>7. ConsoleTypeOK'
    BY <1>1, <1>5, <1>6, <2>2, <2>5 DEF ConsoleTypeOK
  <2>8. SettingsAreChosen' /\ PoliciesLiveOnce' /\ DeadWereBorn'
    BY <1>6 DEF ConsoleInv, SettingsAreChosen, GetSystemSettings, PoliciesLiveOnce, DeadWereBorn
  <2>. QED
    BY <1>5, <2>6, <2>7, <2>8 DEF ConsoleInv
<1>. QED
  BY <1>7, <1>8 DEF AddAudit

\* A session gets the lifetime that was accepted last, or a day.
LEMMA LoginInv ==
  ASSUME ConsoleInv, NEW r \in Requests, Login(r)
  PROVE  ConsoleInv'
<1>1. PICK s \in Readings :
        Goto(r, [pc |-> "audit", change |-> Now, ttl |-> Lifetime(s), chosen |-> chosen])
  BY DEF Login
<1>2. /\ s \in SystemSettings /\ s.ttl \in Int
      /\ (s.ttl = chosen.ttl \/ s.ttl = 0)
      /\ chosen \in SystemSettings /\ chosen.ttl \in 1 .. 720
  <2>1. s \in SystemSettings /\ (s.ttl = chosen.ttl \/ s.ttl = 0)
    BY ReadingsType, SettingsTypes
  <2>2. s.ttl \in Int
    BY <2>1 DEF SystemSettings
  <2>3. chosen \in SystemSettings /\ chosen.ttl \in 1 .. 720
    BY DEF ConsoleInv, ConsoleTypeOK, SettingsAreChosen
  <2>. QED
    BY <2>1, <2>2, <2>3
<1>3. Lifetime(s) \in Int /\ (Lifetime(s) = chosen.ttl \/ Lifetime(s) = 24)
  BY <1>2 DEF Lifetime
<1>4. Now \in Nat
  BY DEF Now, ConsoleInv, ConsoleTypeOK
<1>5. PICK n \in Nat, ttl \in Int, ch \in SystemSettings :
        n = Now /\ ttl = Lifetime(s) /\ ch = chosen
  BY <1>2, <1>3, <1>4
<1> DEFINE c == [pc |-> "audit", change |-> n, ttl |-> ttl, chosen |-> ch]
<1>6. c \in LoggingIn /\ c.ttl = ttl /\ c.chosen = ch
  BY DEF LoggingIn
<1>7. c \notin Uploading
  BY DEF Uploading
<1>8. Goto(r, c)
  BY <1>1, <1>5
<1> HIDE DEF c
<1>9. c \in Calls /\ CallFits(c)
  BY <1>3, <1>5, <1>6, <1>7 DEF Calls, CallFits
<1>. QED
  BY <1>4, <1>8, <1>9, GotoFits, RequestStepInv DEF Login

\* An upload begins with the limit of the settings accepted last, or without one.
LEMMA BeginUploadInv ==
  ASSUME ConsoleInv, NEW r \in Requests, BeginUpload(r)
  PROVE  ConsoleInv'
<1>1. PICK s \in Readings, size \in Sizes :
        Goto(r, [pc |-> "body", size |-> size, limit |-> s.mb,
                 read |-> s # Unreadable, chosen |-> chosen])
  BY DEF BeginUpload
<1>2. /\ s \in SystemSettings /\ s.mb \in Int
      /\ s # Unreadable => s.mb = chosen.mb
      /\ chosen \in SystemSettings /\ chosen.mb > 0
  BY ReadingsType DEF SystemSettings, ConsoleInv, ConsoleTypeOK, SettingsAreChosen
<1>3. PICK limit \in Int, read \in BOOLEAN, ch \in SystemSettings :
        limit = s.mb /\ read = (s # Unreadable) /\ ch = chosen
  BY <1>2
<1> DEFINE c == [pc |-> "body", size |-> size, limit |-> limit, read |-> read, chosen |-> ch]
<1>4. c \in Uploading /\ c.pc = "body" /\ c.limit = limit /\ c.chosen = ch
  BY DEF Uploading
<1>5. c.read = read
  BY Zenon
<1>6. c \notin LoggingIn
  BY DEF LoggingIn
<1>7. Goto(r, c)
  BY <1>1, <1>3, Zenon
<1> HIDE DEF c
<1>8. CallFits(c)
  BY <1>2, <1>3, <1>4, <1>5, <1>6 DEF CallFits
<1>9. c \in Calls
  BY <1>4 DEF Calls
<1>. QED
  BY <1>7, <1>8, <1>9, GotoFits, RequestStepInv DEF BeginUpload, ConsoleInv, ConsoleTypeOK

\* A body that is stored is within the limit it was read with.
LEMMA ReceiveBodyInv ==
  ASSUME ConsoleInv, NEW r \in Requests, ReceiveBody(r)
  PROVE  ConsoleInv'
<1>1. creq[r] \in Uploading /\ CallFits(creq[r])
  BY CallKinds DEF ReceiveBody, ConsoleInv, ConsoleTypeOK, CallsFit
<1>2. creq' \in [Requests -> Calls] /\ CallsFit'
  <2>1. CASE creq[r].limit > 0 /\ creq[r].size > creq[r].limit
    BY <2>1, GotoFits, PlainCallsFit DEF ReceiveBody
  <2>2. CASE ~(creq[r].limit > 0 /\ creq[r].size > creq[r].limit)
    <3> DEFINE c == [creq[r] EXCEPT !.pc = "stored"]
    <3>1. /\ c \in Uploading /\ c.pc = "stored" /\ c.limit = creq[r].limit
          /\ c.size = creq[r].size /\ c.chosen = creq[r].chosen
      BY <1>1 DEF Uploading
    <3>2. c.read = creq[r].read
      BY <1>1, Zenon DEF Uploading
    <3>3. Goto(r, c)
      BY <2>2, Zenon DEF ReceiveBody
    <3> HIDE DEF c
    <3>4. c \notin LoggingIn
      BY <3>1 DEF LoggingIn
    <3>5. c.size \in Int /\ c.limit \in Int
      <4>1. c.size \in Sizes /\ c.limit \in Int
        BY <3>1 DEF Uploading
      <4>2. c.size \in Nat
        BY <4>1, ConsoleTypesAssumption, Zenon
      <4>. QED
        BY <4>1, <4>2
    <3>6. CallFits(c)
      BY <1>1, <2>2, <3>1, <3>2, <3>4, <3>5 DEF CallFits
    <3>. QED
      BY <3>1, <3>3, <3>6, GotoFits DEF Calls
  <2>. QED
    BY <2>1, <2>2
<1>. QED
  BY <1>2, RequestStepInv DEF ReceiveBody, ConsoleInv, ConsoleTypeOK

\* The end of an upload.
LEMMA AnswerUploadInv ==
  ASSUME ConsoleInv, NEW r \in Requests, AnswerUpload(r)
  PROVE  ConsoleInv'
<1>1. creq' \in [Requests -> Calls] /\ CallsFit'
  BY GotoFits, PlainCallsFit DEF AnswerUpload
<1>. QED
  BY <1>1, RequestStepInv DEF AnswerUpload, ConsoleInv, ConsoleTypeOK

\* A process that starts again without a database starts from nothing.
LEMMA StartInv ==
  ASSUME database' \in BOOLEAN, settings' = None, chosen' = defaultSystemSettings,
         policies' = [id \in PolicyIds |-> None], log' = <<>>, added' = <<>>,
         creq' = [r \in Requests |-> NoRequest], changes' \in Nat,
         born' \in [PolicyIds -> Nat \cup {None}], dead' \in SUBSET PolicyIds, DeadWereBorn'
  PROVE  ConsoleInv'
<1>1. ConsoleTypeOK'
  BY SettingsTypes, PlainCallsFit DEF ConsoleTypeOK
<1>2. LogIsNewest'
  BY ConsoleAssumption DEF LogIsNewest
<1>3. SettingsAreChosen'
  BY DEF SettingsAreChosen, GetSystemSettings, defaultSystemSettings
<1>4. PoliciesLiveOnce'
  BY DEF PoliciesLiveOnce
<1>5. CallsFit'
  BY PlainCallsFit DEF CallsFit
<1>. QED
  BY <1>1, <1>2, <1>3, <1>4, <1>5 DEF ConsoleInv

\* A restart keeps all that a database has, and nothing else.
LEMMA RestartInv ==
  ASSUME ConsoleInv, Restart
  PROVE  ConsoleInv'
<1>1. /\ creq' = [r \in Requests |-> NoRequest]
      /\ UNCHANGED <<database, changes, born, dead>>
  BY DEF Restart
<1>2. CASE database
  <2>1. UNCHANGED <<settings, policies, log, added, chosen>>
    BY <1>2 DEF Restart
  <2>2. creq' \in [Requests -> Calls] /\ CallsFit'
    BY <1>1, PlainCallsFit DEF CallsFit
  <2>. QED
    BY <1>1, <2>1, <2>2, RequestStepInv DEF ConsoleInv, ConsoleTypeOK
<1>3. CASE ~database
  <2>1. DeadWereBorn'
    BY <1>1 DEF ConsoleInv, DeadWereBorn
  <2>. QED
    BY <1>1, <1>3, <2>1, StartInv DEF Restart, ConsoleInv, ConsoleTypeOK
<1>. QED
  BY <1>2, <1>3

(***************************************************************************)
(* Theorems                                                                *)
(***************************************************************************)

\* The invariant holds when the program starts for the first time.
LEMMA ConsoleInitInv == ConsoleInit => ConsoleInv
<1> SUFFICES ASSUME ConsoleInit PROVE ConsoleInv
  OBVIOUS
<1>1. ConsoleTypeOK
  BY SettingsTypes, PlainCallsFit DEF ConsoleInit, ConsoleTypeOK
<1>2. LogIsNewest
  BY ConsoleAssumption DEF ConsoleInit, LogIsNewest
<1>3. SettingsAreChosen
  BY DEF ConsoleInit, SettingsAreChosen, GetSystemSettings, defaultSystemSettings
<1>4. PoliciesLiveOnce /\ DeadWereBorn
  BY DEF ConsoleInit, PoliciesLiveOnce, DeadWereBorn
<1>5. CallsFit
  <2>1. \A r \in Requests : creq[r] = NoRequest
    BY Zenon DEF ConsoleInit
  <2>. QED
    BY <2>1, PlainCallsFit, Zenon DEF CallsFit
<1>. QED
  BY <1>1, <1>2, <1>3, <1>4, <1>5 DEF ConsoleInv

\* The invariant of the console: types, the log as the end of all entries, the
\* settings accepted last in use, policies that live once, requests that fit.
THEOREM ConsoleInvariant == ConsoleSpec => []ConsoleInv
<1>1. ConsoleInit => ConsoleInv
  BY ConsoleInitInv
<1>2. ConsoleInv /\ [ConsoleNext]_consoleVars => ConsoleInv'
  <2> SUFFICES ASSUME ConsoleInv, [ConsoleNext]_consoleVars
               PROVE  ConsoleInv'
    OBVIOUS
  <2>1. ASSUME NEW r \in Requests, SaveSettings(r) PROVE ConsoleInv'
    BY <2>1, SaveSettingsInv
  <2>2. ASSUME NEW r \in Requests, Login(r) PROVE ConsoleInv'
    BY <2>2, LoginInv
  <2>3. ASSUME NEW r \in Requests, NEW id \in PolicyIds,
               CreatePolicy(r, id) \/ UpdatePolicy(r, id) \/ DeletePolicy(r, id)
        PROVE  ConsoleInv'
    BY <2>3, PolicyInv
  <2>4. ASSUME NEW r \in Requests, AddAudit(r) PROVE ConsoleInv'
    BY <2>4, AddAuditInv
  <2>5. ASSUME NEW r \in Requests, BeginUpload(r) PROVE ConsoleInv'
    BY <2>5, BeginUploadInv
  <2>6. ASSUME NEW r \in Requests, ReceiveBody(r) PROVE ConsoleInv'
    BY <2>6, ReceiveBodyInv
  <2>7. ASSUME NEW r \in Requests, AnswerUpload(r) PROVE ConsoleInv'
    BY <2>7, AnswerUploadInv
  <2>8. CASE Restart
    BY <2>8, RestartInv
  <2>9. CASE UNCHANGED consoleVars
    <3>1. /\ UNCHANGED <<changes, creq>>
          /\ UNCHANGED <<database, settings, policies, log, added, born, dead, chosen>>
      BY <2>9 DEF consoleVars
    <3>. QED
      BY <3>1, RequestStepInv DEF ConsoleInv, ConsoleTypeOK, CallsFit
  <2>. QED
    BY <2>1, <2>2, <2>3, <2>4, <2>5, <2>6, <2>7, <2>8, <2>9 DEF ConsoleNext
<1>. QED
  BY <1>1, <1>2, PTL DEF ConsoleSpec

\* An entry stays on the first page of every limit, and in the log, until as
\* many newer ones have come.
THEOREM RecentEntriesAlwaysListed == ConsoleSpec => []RecentEntriesAreListed
<1>1. ConsoleInv => RecentEntriesAreListed
  <2> SUFFICES ASSUME ConsoleInv, NEW i \in 1 .. Len(added), NEW limit \in Asked,
                      Len(added) - i < Shown(limit),
                      database \/ Len(added) - i < LogCap
               PROVE  /\ Len(added) - i < Len(ListAudit(limit))
                      /\ ListAudit(limit)[Len(added) - i + 1] = added[i]
    BY DEF RecentEntriesAreListed
  <2>1. log \in Seq(Nat) /\ added \in Seq(Nat)
    BY DEF ConsoleInv, ConsoleTypeOK
  <2>2. PICK n \in Nat : n = Shown(limit)
    BY ConsoleAssumption, ConsoleTypesAssumption DEF Shown
  <2>3. LogCap \in Nat
    BY ConsoleAssumption
  <2>4. Len(added) - i < Len(log)
    BY <2>1, <2>3 DEF ConsoleInv, LogIsNewest
  <2>5. /\ Len(ListAudit(limit)) = IF n < Len(log) THEN n ELSE Len(log)
        /\ \A j \in 1 .. Len(ListAudit(limit)) : ListAudit(limit)[j] = log[j]
    BY <2>1, <2>2, NewestEffect DEF ListAudit
  <2>6. Len(added) - i < Len(ListAudit(limit))
    BY <2>1, <2>2, <2>4, <2>5
  <2>7. /\ Len(added) - i + 1 \in 1 .. Len(ListAudit(limit))
        /\ Len(added) - i + 1 \in 1 .. Len(log)
    <3> DEFINE k == Len(added) - i + 1
    <3>1. k \in Int /\ k >= 1 /\ k <= Len(log) /\ k <= Len(ListAudit(limit))
      <4>1. Len(added) \in Nat /\ i \in Nat /\ i <= Len(added)
        BY <2>1
      <4>2. Len(log) \in Nat /\ Len(ListAudit(limit)) \in Nat
        BY <2>1, <2>2, <2>5
      <4>. QED
        BY <2>4, <2>6, <4>1, <4>2
    <3>2. Len(log) \in Int /\ Len(ListAudit(limit)) \in Int
      BY <2>1, <2>2, <2>5
    <3>. QED
      BY <3>1, <3>2
  <2>8. ListAudit(limit)[Len(added) - i + 1] = added[Len(added) - (Len(added) - i + 1) + 1]
    BY <2>5, <2>7 DEF ConsoleInv, LogIsNewest
  <2>9. Len(added) - (Len(added) - i + 1) + 1 = i
    BY <2>1
  <2>. QED
    BY <2>6, <2>8, <2>9
<1>. QED
  BY <1>1, ConsoleInvariant, PTL

\* A policy that was deleted never comes back, and an update never changes when
\* it was created.
THEOREM PoliciesAlwaysLiveOnce == ConsoleSpec => []PoliciesLiveOnce
<1>1. ConsoleInv => PoliciesLiveOnce
  BY DEF ConsoleInv
<1>. QED
  BY <1>1, ConsoleInvariant, PTL

\* The settings accepted last are those that sessions and uploads go by.
THEOREM SettingsAlwaysApply == ConsoleSpec => []SettingsApply
<1>1. ConsoleInv => SettingsApply
  <2> SUFFICES ASSUME ConsoleInv, NEW r \in Requests
               PROVE  /\ "ttl" \in DOMAIN creq[r] => creq[r].ttl \in {creq[r].chosen.ttl, 24}
                      /\ creq[r].pc = "stored" /\ creq[r].read => creq[r].size <= creq[r].chosen.mb
    BY Zenon DEF SettingsApply
  <2>1. creq[r] \in Calls /\ CallFits(creq[r])
    BY DEF ConsoleInv, ConsoleTypeOK, CallsFit
  <2>2. "ttl" \in DOMAIN creq[r] => creq[r].ttl \in {creq[r].chosen.ttl, 24}
    BY <2>1, CallKinds DEF CallFits
  <2>3. creq[r].pc = "stored" /\ creq[r].read => creq[r].size <= creq[r].chosen.mb
    <3>1. creq[r].pc = "stored" => creq[r] \in Uploading
      BY <2>1, CallKinds
    <3>. QED
      BY <2>1, <3>1, Zenon DEF CallFits
  <2>. QED
    BY <2>2, <2>3
<1>. QED
  BY <1>1, ConsoleInvariant, PTL
=============================================================================
