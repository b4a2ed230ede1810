------------------------- MODULE CredentialsProofs -------------------------
(***************************************************************************)
(* Proofs about Credentials, for any profiles, targets, platforms and      *)
(* requests: what collects does so over the one session under its key,     *)
(* what is opened passes the test of its profile, and a revoked profile    *)
(* gives no credentials.                                                   *)
(***************************************************************************)
EXTENDS Credentials, FiniteSetTheorems, TLAPS

-----------------------------------------------------------------------------
(* The tables of credential types                                          *)

LEMMA ServingFacts ==
  /\ Serving["ssh"] = {"ssh_password", "telnet_password", "ssh_key"}
  /\ Serving["telnet"] = {"ssh_password", "telnet_password"}
  /\ Serving["snmp"] = {"snmp_v2c", "snmp_v3"}
  /\ Serving["http"] = {"http_basic", "http_token"}
BY DEF Serving

LEMMA TestedFacts ==
  /\ Tested["ssh"] = {"ssh_password", "ssh_key"}
  /\ Tested["telnet"] = {"telnet_password"}
  /\ Tested["snmp"] = {"snmp_v2c", "snmp_v3"}
  /\ Tested["http"] = {"http_basic", "http_token"}
BY DEF Tested

\* The registered transports are of four kinds.
LEMMA KindFacts ==
  /\ Kind["netmiko"] = "ssh" /\ Kind["paramiko"] = "ssh" /\ Kind["telnet"] = "telnet"
  /\ Kind["pysnmp"] = "snmp" /\ Kind["httpx"] = "http"
BY DEF Kind

\* What the resolution serves the test accepts, but for two cases.
LEMMA TablesAgree ==
  ASSUME NEW kind \in {"ssh", "telnet", "snmp", "http"}, NEW ctype \in Serving[kind]
  PROVE  \/ ctype \in Tested[kind]
         \/ ctype = "ssh_password" /\ kind = "telnet"
         \/ ctype = "telnet_password" /\ kind = "ssh"
<1>1. CASE kind = "ssh"
  BY <1>1, ServingFacts, TestedFacts
<1>2. CASE kind = "telnet"
  BY <1>2, ServingFacts, TestedFacts
<1>3. CASE kind = "snmp"
  BY <1>3, ServingFacts, TestedFacts
<1>4. CASE kind = "http"
  BY <1>4, ServingFacts, TestedFacts
<1> QED BY <1>1, <1>2, <1>3, <1>4

\* A type that is served is not missing.
LEMMA ServedIsType ==
  ASSUME NEW kind \in {"ssh", "telnet", "snmp", "http"}, NEW ctype \in Serving[kind]
  PROVE  ctype # NULL
BY NullIsNoType DEF Serving

LEMMA TestFacts ==
  ASSUME NEW p, NEW name
  PROVE  TestProfile(p, name) = "success" <=>
            /\ p.ctype # NULL /\ p.ctype \in Tested[name] /\ name \in TypesOf(p)
            /\ p.ref \in Secrets
BY DEF TestProfile, ValidateProfileForTransport

LEMMA CredentialFacts ==
  ASSUME NEW p, NEW name
  PROVE  Credential(p, name) = "credentials" <=>
            /\ p.enabled /\ p.types # NULL /\ Kind[name] \in p.types
            /\ p.ctype \in Serving[Kind[name]]
            /\ p.ctype \in NeedsUsername => p.user
            /\ p.ref \in Secrets
BY DEF Credential

-----------------------------------------------------------------------------
(* The selection of a transport                                            *)

LEMMA RegisteredFacts ==
  /\ DOMAIN Registered = {"netmiko", "paramiko", "telnet", "pysnmp", "httpx"}
  /\ Registered["netmiko"] = {"ssh"} /\ Registered["paramiko"] = {"ssh"}
  /\ Registered["telnet"] = {"telnet"} /\ Registered["pysnmp"] = {"snmp"}
  /\ Registered["httpx"] = {"http"}
BY DEF Registered

\* The only capability of a set of one has the highest priority.
LEMMA HighestOfOne ==
  ASSUME NEW x \in {"ssh", "telnet", "http", "snmp"}
  PROVE  HighestPriority({x}) = x
<1>1. \E i \in DOMAIN TransportPriority : TransportPriority[i] = x
  BY DEF TransportPriority
<1>2. \E c \in {x} : \A d \in {x} :
         \E i, j \in DOMAIN TransportPriority :
            i <= j /\ TransportPriority[i] = c /\ TransportPriority[j] = d
  <2>1. PICK i \in DOMAIN TransportPriority : TransportPriority[i] = x
    BY <1>1
  <2>2. i <= i
    BY DEF TransportPriority
  <2> QED BY <2>1, <2>2
<1> QED BY <1>2 DEF HighestPriority

\* What is selected can do what it was selected for, on a platform that
\* supports it, and is what was asked for.
LEMMA SelectFacts ==
  ASSUME NEW platform, NEW name, Select(platform, name) # NULL
  PROVE  LET s == Select(platform, name)
         IN  /\ s.capability \in platform.support \cap Registered[s.name]
             /\ s.name \in DOMAIN Registered
             /\ name # NULL => s.name = name
<1>1. CASE name # NULL
  <2> DEFINE set == platform.support \cap Registered[name]
  <2>1. name \in DOMAIN Registered /\ set # {}
        /\ Select(platform, name) = Selection(HighestPriority(set), name)
    BY <1>1 DEF Select, SelectPreferred
  <2>2. PICK x \in {"ssh", "telnet", "http", "snmp"} : Registered[name] = {x}
    BY <2>1, RegisteredFacts
  <2>3. set = {x}
    BY <2>1, <2>2
  <2>4. HighestPriority(set) = x
    BY <2>3, HighestOfOne
  <2> QED BY <2>1, <2>3, <2>4 DEF Selection
<1>2. CASE name = NULL
  <2> DEFINE Stops(s) == s.name \notin DOMAIN Registered \/ s.capability \in Registered[s.name]
             hits == {i \in DOMAIN Candidates : /\ Candidates[i].capability \in platform.support
                                                /\ Stops(Candidates[i])}
             least == CHOOSE i \in hits : \A j \in hits : i <= j
  <2>1. /\ hits # {} /\ Candidates[least].name \in DOMAIN Registered
        /\ Select(platform, name) = Candidates[least]
    BY <1>2 DEF Select, SelectByPriority
  <2>2. hits \subseteq 1 .. 6
    BY DEF Candidates
  <2>3. least \in hits
    <3>1. \E i \in hits : \A j \in hits : i <= j
      <4> HIDE DEF hits
      <4>1. PICK k \in hits : TRUE
        BY <2>1
      <4>2. k \in Nat /\ hits \subseteq Nat
        BY <2>2
      <4> QED BY <4>1, <4>2, <2>2
    <3> QED BY <3>1
  <2> QED BY <1>2, <2>1, <2>3
<1> QED BY <1>1, <1>2

-----------------------------------------------------------------------------
(* The inductive invariant                                                 *)

\* The fields of an attempt.
Fields == {"pc", "key", "name", "collector", "hint", "signals", "reference", "planned",
           "selection", "work", "cancel", "after"}

TablesOK ==
    /\ DOMAIN profiles \cap deleted = {}
    /\ DOMAIN targets \subseteq Keys
    /\ DOMAIN request = Requests
    /\ \A r \in Requests :
          request[r] # NULL /\ request[r].op = "create" => request[r].key \in Keys

\* Sessions are kept under the identifier of a target, with its tenant.
PoolOK ==
    /\ \A s \in pool : \E k \in Keys :
          s.key[2] = k.identifier /\ s.tenant = k.tenant
    /\ \A s, u \in pool : s.key = u.key => s = u

SelectionOK ==
    LET platform == ResolvePlatform(exec.hint, exec.collector, exec.signals) IN
    /\ exec.selection.capability \in platform.support \cap Registered[exec.selection.name]
    /\ exec.name # NULL => exec.selection.name = exec.name

ExecOK ==
    exec # NULL =>
        /\ DOMAIN exec = Fields /\ exec = [f \in Fields |-> exec[f]]
        /\ exec.key \in Keys
        /\ exec.pc \in {"planned", "opening", "collecting", "waiting"}
        /\ exec.pc # "planned" => SelectionOK
        /\ exec.pc \in {"collecting", "waiting"} => Sessions(exec) # {}
        /\ exec.cancel \in BOOLEAN /\ exec.after \in {0, 1}
        /\ ~ exec.cancel \/ exec.pc = "waiting" => exec.after = 0

IInv == TablesOK /\ PoolOK /\ ExecOK

LEMMA InitOK == Init => IInv
BY CredentialsAssumption DEF Init, IInv, TablesOK, PoolOK, ExecOK

\* An attempt and the pool keep what holds of them while operators write.
LEMMA Bystanders ==
  ASSUME IInv, UNCHANGED <<exec, pool>>
  PROVE  PoolOK' /\ ExecOK'
BY DEF IInv, PoolOK, ExecOK, SelectionOK, Sessions, SessionKey

-----------------------------------------------------------------------------
(* Operators                                                               *)

\* Nothing is promised of a request that does not create a target.
LEMMA RequestKept ==
  ASSUME TablesOK, NEW r \in Requests, NEW v,
         v # NULL /\ v.op = "create" => v.key \in Keys,
         request' = [request EXCEPT ![r] = v]
  PROVE  /\ DOMAIN request' = Requests
         /\ \A s \in Requests :
               request'[s] # NULL /\ request'[s].op = "create" => request'[s].key \in Keys
<1>1. \A s \in Requests : request'[s] = IF s = r THEN v ELSE request[s]
  BY DEF TablesOK
<1> QED BY <1>1 DEF TablesOK

LEMMA CreateProfileStep ==
  ASSUME IInv, NEW id, NEW tenant, NEW form, CreateProfile(id, tenant, form)
  PROVE  IInv'
<1>1. TablesOK'
  BY DEF CreateProfile, Put, IInv, TablesOK
<1> QED BY <1>1, Bystanders DEF CreateProfile, IInv

LEMMA UpdateProfileStep ==
  ASSUME IInv, NEW id, NEW form, UpdateProfile(id, form)
  PROVE  IInv'
<1>1. TablesOK'
  BY DEF UpdateProfile, IInv, TablesOK
<1> QED BY <1>1, Bystanders DEF UpdateProfile, IInv

LEMMA BeginDeleteProfileStep ==
  ASSUME IInv, NEW r \in Requests, NEW id, BeginDeleteProfile(r, id)
  PROVE  IInv'
<1> DEFINE v == [op |-> "delete", id |-> id, keys |-> Referring(id)]
<1>1. v.op # "create" /\ request' = [request EXCEPT ![r] = v]
  BY DEF BeginDeleteProfile
<1> HIDE DEF v
<1>2. TablesOK'
  BY <1>1, RequestKept DEF BeginDeleteProfile, Stored, IInv, TablesOK
<1> QED BY <1>2, Bystanders DEF BeginDeleteProfile, IInv

LEMMA CommitDeleteProfileStep ==
  ASSUME IInv, NEW r \in Requests, CommitDeleteProfile(r)
  PROVE  IInv'
<1>1. /\ DOMAIN profiles' \cap deleted' = {}
      /\ DOMAIN targets' \subseteq Keys
  BY DEF CommitDeleteProfile, Drop, IInv, TablesOK
<1>2. TablesOK'
  BY <1>1, RequestKept DEF CommitDeleteProfile, IInv, TablesOK
<1> QED BY <1>2, Bystanders DEF CommitDeleteProfile, IInv

LEMMA BeginCreateTargetStep ==
  ASSUME IInv, NEW r \in Requests, NEW k \in Keys, NEW form, NEW id,
         BeginCreateTarget(r, k, form, id)
  PROVE  IInv'
<1> DEFINE row == [profile |-> id, hint |-> form.hint, preferred |-> form.preferred,
                   fallback |-> form.fallback, enabled |-> form.enabled,
                   signals |-> form.signals,
                   ref |-> IF id = NULL THEN form.ref ELSE profiles[id].ref]
           v == [op |-> "create", key |-> k, row |-> row]
<1>1. v.key = k /\ request' = [request EXCEPT ![r] = v]
  BY DEF BeginCreateTarget
<1> HIDE DEF v
<1>2. TablesOK'
  BY <1>1, RequestKept DEF BeginCreateTarget, Stored, IInv, TablesOK
<1> QED BY <1>2, Bystanders DEF BeginCreateTarget, IInv

LEMMA CommitCreateTargetStep ==
  ASSUME IInv, NEW r \in Requests, CommitCreateTarget(r)
  PROVE  IInv'
<1>1. DOMAIN targets' \subseteq Keys
  BY DEF CommitCreateTarget, Put, IInv, TablesOK
<1>2. TablesOK'
  BY <1>1, RequestKept DEF CommitCreateTarget, IInv, TablesOK
<1> QED BY <1>2, Bystanders DEF CommitCreateTarget, IInv

LEMMA BeginAttachProfileStep ==
  ASSUME IInv, NEW r \in Requests, NEW k, NEW id, NEW preferred,
         BeginAttachProfile(r, k, id, preferred)
  PROVE  IInv'
<1>1. PICK v : v.op # "create" /\ request' = [request EXCEPT ![r] = v]
  BY DEF BeginAttachProfile
<1>2. TablesOK'
  BY <1>1, RequestKept DEF BeginAttachProfile, Stored, IInv, TablesOK
<1> QED BY <1>2, Bystanders DEF BeginAttachProfile, IInv

LEMMA CommitAttachProfileStep ==
  ASSUME IInv, NEW r \in Requests, CommitAttachProfile(r)
  PROVE  IInv'
<1>1. DOMAIN targets' = DOMAIN targets
  BY DEF CommitAttachProfile
<1>2. TablesOK'
  BY <1>1, RequestKept DEF CommitAttachProfile, IInv, TablesOK
<1> QED BY <1>2, Bystanders DEF CommitAttachProfile, IInv

LEMMA UpdateTargetStep ==
  ASSUME IInv, NEW k, NEW form, UpdateTarget(k, form)
  PROVE  IInv'
<1>1. DOMAIN targets' = DOMAIN targets
  BY DEF UpdateTarget
<1>2. TablesOK'
  BY <1>1 DEF UpdateTarget, IInv, TablesOK
<1> QED BY <1>2, Bystanders DEF UpdateTarget, IInv

LEMMA DeleteTargetsStep ==
  ASSUME IInv, NEW ks, DeleteTargets(ks)
  PROVE  IInv'
<1>1. TablesOK'
  BY DEF DeleteTargets, IInv, TablesOK
<1> QED BY <1>1, Bystanders DEF DeleteTargets, IInv

-----------------------------------------------------------------------------
(* The attempt                                                             *)

LEMMA TablesKept ==
  ASSUME TablesOK, UNCHANGED World
  PROVE  TablesOK'
BY DEF World, TablesOK

LEMMA PlanStep ==
  ASSUME IInv, NEW k, NEW name, NEW collector, Plan(k, name, collector)
  PROVE  IInv'
<1>1. TablesOK' /\ PoolOK'
  BY DEF Plan, Stored, IInv, TablesOK, PoolOK
<1>2. k \in Keys
  BY DEF Plan, IInv, TablesOK
<1>3. ExecOK'
  BY <1>2 DEF Plan, ExecOK, Fields
<1> QED BY <1>1, <1>3 DEF IInv

\* An attempt that opens its session has the credentials of its own tenant.
LEMMA OpenFacts ==
  ASSUME IInv, Open, exec' # NULL
  PROVE  LET selection == exec'.selection
             p == profiles[exec.reference]
         IN  /\ exec' = [exec EXCEPT !.pc = "opening", !.selection = exec'.selection,
                                     !.work = exec'.work]
             /\ selection.capability \in
                   ResolvePlatform(exec.hint, exec.collector, exec.signals).support
                      \cap Registered[selection.name]
             /\ selection.name \in DOMAIN Registered
             /\ exec.name # NULL => selection.name = exec.name
             /\ exec.reference \in DOMAIN profiles /\ p.tenant = exec.key.tenant
             /\ Credential(p, selection.name) = "credentials"
<1> DEFINE platform == ResolvePlatform(exec.hint, exec.collector, exec.signals)
           selection == IF platform = NULL THEN NULL ELSE Select(platform, exec.name)
<1>1. /\ selection # NULL /\ Resolve(exec, selection.name) = "credentials"
      /\ exec' = [exec EXCEPT !.pc = "opening", !.selection = selection,
                              !.work = Work(platform, selection.capability)]
  BY DEF Open, AttemptEnds
<1> HIDE DEF platform
<1>2. selection = Select(platform, exec.name) /\ Select(platform, exec.name) # NULL
  BY <1>1
<1>3. /\ selection.capability \in platform.support \cap Registered[selection.name]
      /\ selection.name \in DOMAIN Registered
      /\ exec.name # NULL => selection.name = exec.name
  BY <1>2, SelectFacts
<1> HIDE DEF selection
<1>4. exec # NULL /\ DOMAIN exec = Fields
  BY DEF Open, IInv, ExecOK
<1>5. exec'.selection = selection /\ exec'.work = Work(platform, selection.capability)
  BY <1>1, <1>4 DEF Fields
<1>6. /\ exec.reference \in DOMAIN profiles
      /\ profiles[exec.reference].tenant = exec.key.tenant
      /\ Credential(profiles[exec.reference], selection.name) = "credentials"
  BY <1>1 DEF Resolve
<1> QED BY <1>1, <1>3, <1>5, <1>6 DEF platform

LEMMA OpenStep ==
  ASSUME IInv, Open
  PROVE  IInv'
<1>1. TablesOK' /\ PoolOK'
  BY TablesKept DEF Open, IInv, PoolOK
<1>2. ExecOK'
  <2>1. CASE exec' # NULL
    <3>1. exec # NULL /\ exec.pc = "planned"
      BY DEF Open
    <3>2. /\ DOMAIN exec = Fields /\ exec = [f \in Fields |-> exec[f]]
          /\ exec.key \in Keys /\ exec.cancel \in BOOLEAN
          /\ exec.after \in {0, 1} /\ (~ exec.cancel => exec.after = 0)
      BY <3>1 DEF IInv, ExecOK
    <3>3. exec' = [exec EXCEPT !.pc = "opening", !.selection = exec'.selection,
                               !.work = exec'.work]
      BY <2>1, OpenFacts
    <3>4. /\ exec'.pc = "opening" /\ exec'.key = exec.key /\ exec'.name = exec.name
          /\ exec'.hint = exec.hint /\ exec'.collector = exec.collector
          /\ exec'.signals = exec.signals /\ exec'.cancel = exec.cancel
          /\ exec'.after = exec.after /\ DOMAIN exec' = Fields
          /\ exec' = [f \in Fields |-> exec'[f]]
      BY <3>2, <3>3 DEF Fields
    <3>5. SelectionOK'
      BY <2>1, <3>4, OpenFacts DEF SelectionOK
    <3> QED BY <3>2, <3>4, <3>5 DEF ExecOK
  <2> QED BY <2>1 DEF ExecOK
<1> QED BY <1>1, <1>2 DEF IInv

\* What an attempt is about does not change while it goes on.
LEMMA ExecKept ==
  ASSUME ExecOK, exec # NULL, NEW pc, NEW work, NEW cancel, NEW after,
         exec' = [exec EXCEPT !.pc = pc, !.work = work, !.cancel = cancel, !.after = after]
  PROVE  /\ exec'.pc = pc /\ exec'.cancel = cancel /\ exec'.after = after
         /\ exec'.key = exec.key /\ exec'.key \in Keys
         /\ DOMAIN exec' = Fields /\ exec' = [f \in Fields |-> exec'[f]]
         /\ SelectionOK => SelectionOK'
         /\ SessionKey(exec)' = SessionKey(exec)
<1>1. DOMAIN exec = Fields /\ exec = [f \in Fields |-> exec[f]] /\ exec.key \in Keys
  BY DEF ExecOK
<1>2. /\ exec'.pc = pc /\ exec'.cancel = cancel /\ exec'.after = after
      /\ exec'.key = exec.key /\ exec'.name = exec.name /\ exec'.hint = exec.hint
      /\ exec'.collector = exec.collector /\ exec'.signals = exec.signals
      /\ exec'.selection = exec.selection
      /\ DOMAIN exec' = Fields /\ exec' = [f \in Fields |-> exec'[f]]
  BY <1>1 DEF Fields
<1> QED BY <1>1, <1>2 DEF SelectionOK, SessionKey

LEMMA EndStep ==
  ASSUME IInv, AttemptEnds, UNCHANGED <<World, pool>>
  PROVE  IInv'
<1>1. TablesOK' /\ PoolOK'
  BY TablesKept DEF IInv, PoolOK
<1> QED BY <1>1 DEF IInv, ExecOK, AttemptEnds

LEMMA ConnectStep ==
  ASSUME IInv, Connect
  PROVE  IInv'
<1>1. TablesOK'
  BY TablesKept DEF Connect, IInv
<1>2. exec # NULL /\ exec.pc = "opening" /\ exec.key \in Keys /\ SelectionOK
      /\ exec.cancel \in BOOLEAN /\ exec.after \in {0, 1} /\ (~ exec.cancel => exec.after = 0)
      /\ DOMAIN exec = Fields
  BY DEF Connect, IInv, ExecOK
<1> DEFINE new == [key |-> SessionKey(exec), tenant |-> exec.key.tenant]
<1>3. new.key = SessionKey(exec) /\ new.tenant = exec.key.tenant
      /\ SessionKey(exec)[2] = exec.key.identifier
  BY DEF SessionKey
<1>4. pool' = IF Sessions(exec) # {} THEN pool ELSE pool \cup {new}
  BY DEF Connect
<1> HIDE DEF new
<1>5. PoolOK'
  <2>1. \A s \in pool' : \E k \in Keys : s.key[2] = k.identifier /\ s.tenant = k.tenant
    BY <1>2, <1>3, <1>4 DEF IInv, PoolOK
  <2>2. \A s, u \in pool' : s.key = u.key => s = u
    BY <1>3, <1>4 DEF IInv, PoolOK, Sessions
  <2> QED BY <2>1, <2>2 DEF PoolOK
<1>6. ExecOK'
  <2>1. /\ exec'.pc = "collecting" /\ exec'.cancel = exec.cancel /\ exec'.after = exec.after
        /\ exec'.key = exec.key /\ exec'.name = exec.name /\ exec'.hint = exec.hint
        /\ exec'.collector = exec.collector /\ exec'.signals = exec.signals
        /\ exec'.selection = exec.selection
        /\ DOMAIN exec' = Fields /\ exec' = [f \in Fields |-> exec'[f]]
    BY <1>2 DEF Connect, Fields
  <2>2. SelectionOK' /\ SessionKey(exec)' = SessionKey(exec)
    BY <1>2, <2>1 DEF SelectionOK, SessionKey
  <2>3. Sessions(exec)' # {}
    BY <1>3, <1>4, <2>2 DEF Sessions
  <2> QED BY <1>2, <2>1, <2>2, <2>3 DEF ExecOK
<1> QED BY <1>1, <1>5, <1>6 DEF IInv

\* A step of the attempt alone, which leaves the pool as it is.
LEMMA ExecStep ==
  ASSUME IInv, exec # NULL, UNCHANGED <<World, pool>>,
         NEW pc \in {"planned", "opening", "collecting", "waiting"},
         NEW work, NEW cancel \in BOOLEAN, NEW after \in {0, 1},
         exec' = [exec EXCEPT !.pc = pc, !.work = work, !.cancel = cancel, !.after = after],
         pc = exec.pc \/ (pc \in {"collecting", "waiting"} /\ exec.pc \in {"collecting", "waiting"}),
         ~ cancel \/ pc = "waiting" => after = 0
  PROVE  IInv'
<1>1. TablesOK' /\ PoolOK'
  BY TablesKept DEF IInv, PoolOK
<1>2. /\ exec'.pc = pc /\ exec'.cancel = cancel /\ exec'.after = after
      /\ exec'.key \in Keys
      /\ DOMAIN exec' = Fields /\ exec' = [f \in Fields |-> exec'[f]]
      /\ SelectionOK => SelectionOK'
      /\ SessionKey(exec)' = SessionKey(exec)
  BY ZenonT(60), ExecKept DEF IInv
<1>3. pc # "planned" => SelectionOK'
  BY <1>2 DEF IInv, ExecOK
<1>4. pc \in {"collecting", "waiting"} => Sessions(exec)' # {}
  BY <1>2 DEF IInv, ExecOK, Sessions
<1> QED BY <1>1, <1>2, <1>3, <1>4 DEF IInv, ExecOK

LEMMA CollectNextStep ==
  ASSUME IInv, CollectNext
  PROVE  IInv'
<1>1. CASE AttemptEnds
  BY <1>1, EndStep DEF CollectNext
<1>2. CASE ~ exec.cancel /\ exec' = [exec EXCEPT !.work = Tail(@), !.pc = "waiting"]
  <2>1. exec # NULL /\ exec.pc = "collecting" /\ exec.after = 0 /\ exec.cancel \in BOOLEAN
        /\ exec = [f \in Fields |-> exec[f]]
    BY <1>2 DEF CollectNext, IInv, ExecOK
  <2>2. exec' = [exec EXCEPT !.pc = "waiting", !.work = Tail(exec.work),
                             !.cancel = exec.cancel, !.after = exec.after]
    BY <1>2, <2>1 DEF Fields
  <2> QED BY <2>1, <2>2, ExecStep DEF CollectNext
<1> QED BY <1>1, <1>2 DEF CollectNext

LEMMA AnswerStep ==
  ASSUME IInv, Answer
  PROVE  IInv'
<1>1. CASE AttemptEnds
  BY <1>1, EndStep DEF Answer
<1>2. CASE exec' = [exec EXCEPT !.pc = "collecting",
                                !.after = IF exec.cancel THEN @ + 1 ELSE @]
  <2> DEFINE after == IF exec.cancel THEN 1 ELSE 0
  <2>1. exec # NULL /\ exec.pc = "waiting" /\ exec.after = 0 /\ exec.cancel \in BOOLEAN
        /\ exec = [f \in Fields |-> exec[f]]
    BY DEF Answer, IInv, ExecOK
  <2>2. exec' = [exec EXCEPT !.pc = "collecting", !.work = exec.work,
                             !.cancel = exec.cancel, !.after = after]
    <3>1. exec' = [exec EXCEPT !.pc = "collecting", !.after = after]
      <4>1. CASE exec.cancel
        BY <1>2, <2>1, <4>1
      <4>2. CASE ~ exec.cancel
        BY <1>2, <2>1, <4>2
      <4> QED BY <4>1, <4>2
    <3> HIDE DEF after
    <3> QED BY <2>1, <3>1 DEF Fields
  <2>3. after \in {0, 1} /\ (~ exec.cancel => after = 0)
    BY <2>1
  <2> HIDE DEF after
  <2> QED BY <2>1, <2>2, <2>3, ExecStep DEF Answer
<1> QED BY <1>1, <1>2 DEF Answer

LEMMA RequestCancellationStep ==
  ASSUME IInv, RequestCancellation
  PROVE  IInv'
<1>1. exec # NULL /\ exec.after = 0 /\ exec = [f \in Fields |-> exec[f]]
      /\ exec.pc \in {"planned", "opening", "collecting", "waiting"}
  BY DEF RequestCancellation, IInv, ExecOK
<1>2. exec' = [exec EXCEPT !.pc = exec.pc, !.work = exec.work,
                           !.cancel = TRUE, !.after = exec.after]
  BY <1>1 DEF RequestCancellation, Fields
<1> QED BY <1>1, <1>2, ExecStep DEF RequestCancellation

-----------------------------------------------------------------------------
(* The theorems                                                            *)

LEMMA OperatorStep ==
  ASSUME IInv, Operator
  PROVE  IInv'
BY CreateProfileStep, UpdateProfileStep, BeginDeleteProfileStep, BeginCreateTargetStep,
   BeginAttachProfileStep, UpdateTargetStep, DeleteTargetsStep, RequestCancellationStep
   DEF Operator

LEMMA CommitsStep ==
  ASSUME IInv, Commits
  PROVE  IInv'
BY CommitDeleteProfileStep, CommitCreateTargetStep, CommitAttachProfileStep DEF Commits

LEMMA AttemptStep ==
  ASSUME IInv, Attempt
  PROVE  IInv'
<1>1. CASE ConnectFails
  BY <1>1, EndStep DEF ConnectFails
<1>2. CASE Collected
  BY <1>2, EndStep DEF Collected
<1> QED BY <1>1, <1>2, OpenStep, ConnectStep, CollectNextStep, AnswerStep DEF Attempt

\* Whatever operators write meanwhile, the tables of profiles and targets, the
\* pool and the attempt stay consistent.
THEOREM CredentialsInvariance == Spec => []IInv
<1>1. IInv /\ [Next]_vars => IInv'
  <2> SUFFICES ASSUME IInv, [Next]_vars
               PROVE  IInv'
    OBVIOUS
  <2>1. CASE Next
    BY <2>1, OperatorStep, CommitsStep, AttemptStep, PlanStep DEF Next
  <2>2. CASE UNCHANGED vars
    <3>1. TablesOK'
      BY <2>2, TablesKept DEF vars, World, IInv
    <3> QED BY <2>2, <3>1, Bystanders DEF vars, IInv
  <2> QED BY <2>1, <2>2
<1> QED BY InitOK, <1>1, PTL DEF Spec

\* What collects does so over a transport that its platform supports and over
\* the one session under its key, which was opened for a tenant that uses the
\* target's identifier: its own, if no other does; and a cancellation lets at
\* most one more command be answered
\* (CiscoTransportSelector.select, TransportManager.open_session,
\* _check_cancellation).
THEOREM CollectingStaysSound == Spec => []CollectingIsSound
<1>1. IInv => CollectingIsSound
  <2> SUFFICES ASSUME IInv
               PROVE  CollectingIsSound
    OBVIOUS
  <2>1. CancelStopsCollecting
    BY DEF IInv, ExecOK, CancelStopsCollecting
  <2>2. SessionsAreBacked
    <3> SUFFICES ASSUME exec # NULL, exec.pc \in {"collecting", "waiting"}
                 PROVE  /\ SelectionOK
                        /\ \E s \in Sessions(exec) : \E k \in Keys :
                              k.identifier = exec.key.identifier /\ k.tenant = s.tenant
                        /\ Cardinality(Sessions(exec)) = 1
      BY DEF SessionsAreBacked, SelectionOK
    <3>1. SelectionOK /\ Sessions(exec) # {} /\ exec.key \in Keys
      BY DEF IInv, ExecOK
    <3>2. PICK s \in Sessions(exec) : TRUE
      BY <3>1
    <3>3. Sessions(exec) = {s}
      BY <3>2 DEF Sessions, IInv, PoolOK
    <3>4. s \in pool /\ s.key[2] = exec.key.identifier
      BY <3>2 DEF Sessions, SessionKey
    <3>5. PICK k \in Keys : s.key[2] = k.identifier /\ s.tenant = k.tenant
      BY <3>4 DEF IInv, PoolOK
    <3>7. Cardinality({s}) = 1
      BY FS_Singleton
    <3> QED BY <3>1, <3>2, <3>3, <3>4, <3>5, <3>7
  <2> QED BY <2>1, <2>2 DEF CollectingIsSound
<1> QED BY CredentialsInvariance, <1>1, PTL

\* The step with which an attempt comes to open its session: what it is, and
\* what it has found.
Opens == exec # NULL /\ exec.pc = "planned" /\ exec' # NULL /\ exec'.pc = "opening"

LEMMA OpensFacts ==
  ASSUME IInv, [Next]_vars, Opens
  PROVE  /\ exec.reference \in DOMAIN profiles \ deleted
         /\ profiles[exec.reference].tenant = exec.key.tenant
         /\ exec'.selection.name \in DOMAIN Registered
         /\ Credential(profiles[exec.reference], exec'.selection.name) = "credentials"
<1> USE DEF Opens
<1>1. exec' # exec
  OBVIOUS
<1>2. Open \/ RequestCancellation
  BY <1>1
     DEF Next, vars, Operator, Commits, Attempt, CreateProfile, UpdateProfile,
         BeginDeleteProfile, CommitDeleteProfile, BeginCreateTarget, CommitCreateTarget,
         BeginAttachProfile, CommitAttachProfile, UpdateTarget, DeleteTargets, Plan,
         Connect, ConnectFails, CollectNext, Answer, Collected
<1>3. ~ RequestCancellation
  <2>1. exec = [f \in Fields |-> exec[f]]
    BY DEF IInv, ExecOK
  <2> QED BY <2>1 DEF RequestCancellation, Fields
<1>4. /\ exec.reference \in DOMAIN profiles
      /\ profiles[exec.reference].tenant = exec.key.tenant
      /\ exec'.selection.name \in DOMAIN Registered
      /\ Credential(profiles[exec.reference], exec'.selection.name) = "credentials"
  BY <1>2, <1>3, OpenFacts
<1>5. exec.reference \notin deleted
  BY <1>4 DEF IInv, TablesOK
<1> QED BY <1>4, <1>5

\* Whatever operators write, what is opened with a profile passes the profile's
\* test, but for passwords for SSH over Telnet and for Telnet over SSH
\* (resolve_reference, _validate_profile_for_transport, select).
THEOREM OpenedPass == Spec => OpenedProfilesPass
<1> DEFINE Passes == LET p == profiles[exec.reference]
                         kind == Kind[exec'.selection.name]
                     IN  \/ TestProfile(p, kind) = "success"
                         \/ p.ctype = "ssh_password" /\ kind = "telnet"
                         \/ p.ctype = "telnet_password" /\ kind = "ssh"
<1>1. ASSUME IInv, [Next]_vars, Opens
      PROVE  Passes
  <2> DEFINE p == profiles[exec.reference]
             name == exec'.selection.name
  <2>1. name \in DOMAIN Registered /\ Credential(p, name) = "credentials"
    BY <1>1, OpensFacts
  <2>2. Kind[name] \in {"ssh", "telnet", "snmp", "http"}
    BY <2>1, RegisteredFacts, KindFacts
  <2> HIDE DEF p, name
  <2>3. /\ p.types # NULL /\ Kind[name] \in p.types
        /\ p.ctype \in Serving[Kind[name]] /\ p.ref \in Secrets
    BY <2>1, CredentialFacts
  <2>4. Kind[name] \in TypesOf(p)
    BY <2>3 DEF TypesOf
  <2>5. \/ TestProfile(p, Kind[name]) = "success"
        \/ p.ctype = "ssh_password" /\ Kind[name] = "telnet"
        \/ p.ctype = "telnet_password" /\ Kind[name] = "ssh"
    BY <2>2, <2>3, <2>4, TablesAgree, ServedIsType, TestFacts
  <2> QED BY <2>5 DEF p, name
<1>2. IInv /\ [Next]_vars => [Opens => Passes]_vars
  BY <1>1
<1> QED BY CredentialsInvariance, <1>2, PTL DEF Spec, OpenedProfilesPass, Opens

\* A profile that was deleted, disabled or changed after the attempt was
\* planned gives no credentials (resolve_reference loads it again).
THEOREM RevokedAreRefused == Spec => RevokedProfilesAreRefused
<1> DEFINE Backed == /\ exec.reference \in DOMAIN profiles \ deleted
                     /\ LET p == profiles[exec.reference] IN
                        /\ p.enabled /\ p.tenant = exec.key.tenant
                        /\ Kind[exec'.selection.name] \in TypesOf(p)
                        /\ p.ref \in Secrets
<1>1. ASSUME IInv, [Next]_vars, Opens
      PROVE  Backed
  BY <1>1, OpensFacts, CredentialFacts DEF TypesOf
<1>2. IInv /\ [Next]_vars => [Opens => Backed]_vars
  BY <1>1
<1> QED BY CredentialsInvariance, <1>2, PTL DEF Spec, RevokedProfilesAreRefused, Opens
=============================================================================
