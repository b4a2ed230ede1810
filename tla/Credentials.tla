---------------------------- MODULE Credentials ----------------------------
(***************************************************************************)
(* Credential profiles, the targets that refer to them, and the collector  *)
(* that uses them: the profile and target routes (api/v1/credentials.py,   *)
(* api/v1/discovery.py), the selection of a platform and a transport       *)
(* (collectors/cisco/base.py, vendors/cisco), the resolution of            *)
(* credentials (transports/credentials.py) and the collection of data.     *)
(*                                                                         *)
(* A request that checks one row and writes another has two steps, its     *)
(* reads and its commit: other requests and the collector act between      *)
(* them.  An execution reads its target and profile when it plans its      *)
(* attempts and loads the profile again when an attempt needs a secret.    *)
(* Which transports are attempted, and in which order, DeviceDiscovery     *)
(* says; here an attempt is over any of them.                              *)
(***************************************************************************)
EXTENDS Naturals, FiniteSets, SequencesExt

CONSTANTS
    Keys,          \* targets: [tenant, identifier]; two tenants may use one
                   \* identifier
    ProfileIds,
    Forms,         \* profiles as operators write them
    TargetForms,   \* targets as operators write them
    Secrets,       \* the references that the secret provider knows
    Platforms,     \* the registry: a sequence of platforms
    Alias,         \* canonicalize_family on the names of families
    Starts,        \* what operators have stored before: [profiles, targets]
    Requests,      \* requests served at the same time
    MaxEdits,      \* bound: requests of operators
    NULL

Tenants == {k.tenant : k \in Keys}

Optional == STRING \cup {NULL}

ASSUME FormsAssumption ==
    /\ Forms \subseteq [types : SUBSET STRING \cup {NULL}, ctype : Optional, user : BOOLEAN,
                        ref : Optional, enabled : BOOLEAN]
    /\ TargetForms \subseteq
          [hint : Optional, preferred : Optional, fallback : Seq(STRING),
           ref : Optional \cup ProfileIds, enabled : BOOLEAN,
           signals : [{"model", "product", "string", "oid", "banner"} -> Optional]]

ASSUME CredentialsAssumption ==
    /\ MaxEdits \in Nat
    /\ \A i, j \in DOMAIN Platforms : Platforms[i].family = Platforms[j].family => i = j
    /\ \A s \in Starts : DOMAIN s.targets \subseteq Keys

ASSUME NullAssumption == NULL \notin STRING

VARIABLES
    profiles,   \* the rows of credential profiles, by id
    deleted,    \* ids that are not used again
    targets,    \* the rows of targets, by key
    request,    \* what a request has read and not yet committed
    exec,       \* the attempt that is being executed
    pool,       \* open sessions: [key, tenant], the latter as the credentials have it
    edits

vars == <<profiles, deleted, targets, request, exec, pool, edits>>

-----------------------------------------------------------------------------
(* Which credential serves which transport: three tables of the code.      *)

\* _transport_kind
Kind == [ssh |-> "ssh", paramiko |-> "ssh", netmiko |-> "ssh", telnet |-> "telnet",
         snmp |-> "snmp", snmpv2c |-> "snmp", snmpv3 |-> "snmp", pysnmp |-> "snmp",
         http |-> "http", https |-> "http", httpx |-> "http"]

\* CREDENTIAL_TYPE_COMPATIBILITY: what the plan of the attempts admits.
Compatible(ctype, name) ==
    CASE ctype = NULL              -> TRUE
      [] ctype = "ssh_password"    -> name \in {"ssh", "telnet", "http", "https"}
      [] ctype = "ssh_key"         -> name = "ssh"
      [] ctype = "telnet_password" -> name = "telnet"
      [] ctype \in {"snmp_v2c", "snmp_v3"}     -> name = "snmp"
      [] ctype \in {"http_basic", "http_token"} -> name \in {"http", "https"}
      [] OTHER                     -> FALSE

\* The types that resolve_reference accepts for a kind of transport.
Serving == [ssh    |-> {"ssh_password", "telnet_password", "ssh_key"},
            telnet |-> {"ssh_password", "telnet_password"},
            snmp   |-> {"snmp_v2c", "snmp_v3"},
            http   |-> {"http_basic", "http_token"}]
ASSUME NullIsNoType == \A kind \in DOMAIN Serving : NULL \notin Serving[kind]
NeedsUsername == {"ssh_password", "telnet_password", "snmp_v3", "http_basic"}

\* The types that the test of a profile accepts for a transport.
Tested == [ssh    |-> {"ssh_password", "ssh_key"},
           snmp   |-> {"snmp_v2c", "snmp_v3"},
           telnet |-> {"telnet_password"},
           http   |-> {"http_basic", "http_token"},
           https  |-> {"http_basic", "http_token"},
           icmp   |-> {"icmp"}]

TypesOf(p) == IF p.types = NULL THEN {} ELSE p.types

\* _validate_profile_for_transport
ValidateProfileForTransport(p, name) ==
    CASE p.ctype = NULL \/ p.ctype \notin Tested[name] -> "invalid_credential_profile"
      [] name \notin TypesOf(p) -> "invalid_credential_profile"
      [] OTHER -> "success"

\* test_profile: the status of the answer.
TestProfile(p, name) ==
    LET compatibility == ValidateProfileForTransport(p, name) IN
    IF compatibility # "success" THEN compatibility
    ELSE IF p.ref \in Secrets THEN "success" ELSE "secret_not_found"

\* Credential without the look at the profile's type.
CredentialOfAnyType(p, name) ==
    IF ~ p.enabled THEN "refused"
    ELSE IF p.types = NULL THEN "error"
    ELSE IF Kind[name] \notin p.types THEN "refused"
    ELSE IF p.ref \notin Secrets THEN "secret" ELSE "credentials"

\* The outcome for a profile that was loaded: credentials, or an exception.
\* The types of a profile may be null, which the code does not expect.
Credential(p, name) ==
    IF ~ p.enabled THEN "refused"
    ELSE IF p.types = NULL THEN "error"
    ELSE IF \/ Kind[name] \notin p.types
            \/ p.ctype \notin Serving[Kind[name]]
            \/ p.ctype \in NeedsUsername /\ ~ p.user
    THEN "refused"
    ELSE IF p.ref \notin Secrets THEN "secret" ELSE "credentials"

\* Resolve with the profile that the execution read when it planned.
ResolveAsPlanned(e, name) ==
    IF e.planned = NULL THEN "refused" ELSE Credential(e.planned, name)

\* ProfileSecretCredentialProvider.resolve_reference: the profile is loaded
\* anew, by the id and the tenant of the target.
Resolve(e, name) ==
    IF e.reference \in DOMAIN profiles /\ profiles[e.reference].tenant = e.key.tenant
    THEN Credential(profiles[e.reference], name)
    ELSE "refused"

-----------------------------------------------------------------------------
(* Platforms and transports.                                               *)

\* The transports that are registered, and what they can do.
Registered == [netmiko |-> {"ssh"}, paramiko |-> {"ssh"}, telnet |-> {"telnet"},
               pysnmp |-> {"snmp"}, httpx |-> {"http"}]

TransportPriority == <<"ssh", "telnet", "https", "http", "snmp">>

\* _highest_priority
HighestPriority(set) ==
    CHOOSE c \in set : \A d \in set :
        \E i, j \in DOMAIN TransportPriority :
            i <= j /\ TransportPriority[i] = c /\ TransportPriority[j] = d

Selection(capability, name) == [capability |-> capability, name |-> name]

\* The default names of transports, in the order of TransportPriority.
Candidates == << Selection("ssh", "netmiko"), Selection("ssh", "paramiko"),
                 Selection("telnet", "telnetlib"), Selection("https", "httpx"),
                 Selection("http", "httpx"), Selection("snmp", "pysnmp") >>

\* A preferred transport is looked up by its name; one that does not exist
\* raises.
SelectPreferred(platform, name) ==
    IF name \notin DOMAIN Registered THEN NULL
    ELSE LET set == platform.support \cap Registered[name] IN
         IF set = {} THEN NULL ELSE Selection(HighestPriority(set), name)

\* Otherwise the first transport that the platform supports and that can do
\* what it is listed for.  A name that is not registered raises here too.
SelectByPriority(platform) ==
    LET Stops(s) == s.name \notin DOMAIN Registered \/ s.capability \in Registered[s.name]
        hits == {i \in DOMAIN Candidates : /\ Candidates[i].capability \in platform.support
                                           /\ Stops(Candidates[i])}
        first == Candidates[CHOOSE i \in hits : \A j \in hits : i <= j]
    IN  IF hits = {} \/ first.name \notin DOMAIN Registered THEN NULL ELSE first

Select(platform, name) ==
    IF name # NULL THEN SelectPreferred(platform, name) ELSE SelectByPriority(platform)

Weight == [model |-> 5, product |-> 5, string |-> 4, oid |-> 4, banner |-> 3]

\* _score, with the values of a signal that a platform matches.
Score(platform, signals) ==
    LET Points(f) == IF signals[f] \in platform.matches[f] THEN Weight[f] ELSE 0
    IN  Points("model") + Points("product") + Points("string") + Points("oid") + Points("banner")

\* detect: the first platform of the registry with the highest score.
Detect(signals) ==
    LET best == {i \in DOMAIN Platforms :
                    /\ Score(Platforms[i], signals) > 0
                    /\ \A j \in DOMAIN Platforms :
                          \/ Score(Platforms[j], signals) < Score(Platforms[i], signals)
                          \/ Score(Platforms[j], signals) = Score(Platforms[i], signals)
                             /\ i <= j}
    IN  IF best = {} THEN NULL ELSE Platforms[CHOOSE i \in best : TRUE]

\* resolve_platform: by the target's hint or the collector's family, and by
\* the signals if the registry does not have it.
ResolvePlatform(hint, collector, signals) ==
    LET family == Alias[IF hint # NULL THEN hint ELSE collector]
        known == {i \in DOMAIN Platforms : Platforms[i].family = family}
    IN  IF known # {} THEN Platforms[CHOOSE i \in known : TRUE] ELSE Detect(signals)

Distinct(s) == FoldLeft(LAMBDA acc, x : IF Contains(acc, x) THEN acc ELSE Append(acc, x), <<>>, s)

\* _inventory_commands: those of the platform's categories, without the
\* configuration, each once.
InventoryCommands(platform) ==
    LET wanted == SelectSeq(platform.commands, LAMBDA c :
                      /\ c.category \in {"power", "poe"} => "poe" \in platform.capabilities
                      /\ c.text # "config")
    IN  Distinct([i \in DOMAIN wanted |-> wanted[i].text])

\* _snmp_group_supported
SnmpGroupSupported(platform, group) ==
    group \in {"poe", "vlan", "neighbor"} => group \in platform.capabilities

\* What _collect_cli, _collect_snmp and _collect_http ask of the device, one
\* after the other.
Work(platform, capability) ==
    CASE capability \in {"ssh", "telnet"} -> InventoryCommands(platform)
      [] capability = "snmp" ->
             LET walked == SelectSeq(platform.oids, LAMBDA o : SnmpGroupSupported(platform, o.group))
             IN  [i \in DOMAIN walked |-> walked[i].oid]
      [] OTHER -> platform.endpoints

-----------------------------------------------------------------------------
Init ==
    /\ \E s \in Starts : profiles = s.profiles /\ targets = s.targets
    /\ deleted = {}
    /\ request = [r \in Requests |-> NULL]
    /\ exec = NULL /\ pool = {} /\ edits = 0

Put(f, x, v) == [y \in DOMAIN f \cup {x} |-> IF y = x THEN v ELSE f[y]]
Drop(f, x) == [y \in DOMAIN f \ {x} |-> f[y]]

Edit == edits < MaxEdits /\ edits' = edits + 1
Stored == <<profiles, deleted, targets>>

(* Profiles.                                                               *)

\* create_profile: at least one transport type is required.
CreateProfile(id, tenant, form) ==
    /\ Edit
    /\ id \notin DOMAIN profiles \cup deleted
    /\ form.types # NULL /\ form.types # {} /\ form.ref # NULL
    /\ profiles' = Put(profiles, id, [tenant |-> tenant, types |-> form.types,
                          ctype |-> form.ctype, user |-> form.user, ref |-> form.ref,
                          enabled |-> TRUE])
    /\ UNCHANGED <<deleted, targets, request, exec, pool>>

\* Rows that an uncommitted request has written or removed cannot be written.
Deleting(id) == \E r \in Requests : request[r] # NULL /\ request[r].op = "delete"
                                    /\ request[r].id = id
Locked(k) == \E r \in Requests : request[r] # NULL /\ request[r].op = "delete"
                                 /\ k \in request[r].keys

\* update_profile writes every field of the request, also those that the
\* operator left out: the database refuses a missing reference or switch, and
\* takes missing types, type and user name.
UpdateProfile(id, form) ==
    /\ Edit
    /\ id \in DOMAIN profiles /\ ~ Deleting(id)
    /\ form.ref # NULL /\ form.enabled # NULL
    /\ profiles' = [profiles EXCEPT ![id] = [tenant |-> @.tenant, types |-> form.types,
                          ctype |-> form.ctype, user |-> form.user, ref |-> form.ref,
                          enabled |-> form.enabled]]
    /\ UNCHANGED <<deleted, targets, request, exec, pool>>

Referring(id) ==
    {k \in DOMAIN targets : k.tenant = profiles[id].tenant /\ targets[k].profile = id}

\* delete_profile: the targets of the tenant are listed, those that refer to
\* the profile are written, and the profile is loaded.
BeginDeleteProfile(r, id) ==
    /\ Edit
    /\ request[r] = NULL
    /\ id \in DOMAIN profiles /\ ~ Deleting(id)
    /\ request' = [request EXCEPT ![r] =
          [op |-> "delete", id |-> id, keys |-> Referring(id)]]
    /\ UNCHANGED <<Stored, exec, pool>>

CommitDeleteProfile(r) ==
    /\ request[r] # NULL /\ request[r].op = "delete"
    /\ profiles' = Drop(profiles, request[r].id)
    /\ deleted' = deleted \cup {request[r].id}
    /\ targets' = [k \in DOMAIN targets |->
          IF k \in request[r].keys THEN [targets[k] EXCEPT !.profile = NULL, !.ref = ""]
          ELSE targets[k]]
    /\ request' = [request EXCEPT ![r] = NULL]
    /\ UNCHANGED <<exec, pool, edits>>

-----------------------------------------------------------------------------
(* Targets.                                                                *)

Preferred(form) == IF form.preferred = NULL THEN "ssh" ELSE form.preferred

\* Names of transports in the terms of profiles.
Normalized(name) == CASE name \in {"netmiko", "paramiko"} -> "ssh"
                      [] name = "pysnmp" -> "snmp"
                      [] name = "httpx"  -> "http"
                      [] OTHER           -> name

\* create_target: the profile, if one is named, is one of the tenant's and
\* supports what the target asks for.
BeginCreateTarget(r, k, form, id) ==
    /\ Edit
    /\ request[r] = NULL
    /\ id # NULL =>
          /\ id \in DOMAIN profiles /\ profiles[id].tenant = k.tenant
          /\ Normalized(Preferred(form)) \in TypesOf(profiles[id])
          /\ ToSet(form.fallback) \subseteq TypesOf(profiles[id])
    /\ request' = [request EXCEPT ![r] =
          [op |-> "create", key |-> k,
           row |-> [profile |-> id, hint |-> form.hint, preferred |-> form.preferred,
                    fallback |-> form.fallback, enabled |-> form.enabled, signals |-> form.signals,
                    ref |-> IF id = NULL THEN form.ref ELSE profiles[id].ref]]]
    /\ UNCHANGED <<Stored, exec, pool>>

\* The identifier is unique for the tenant: the request fails otherwise.
CommitCreateTarget(r) ==
    /\ request[r] # NULL /\ request[r].op = "create"
    /\ targets' = IF request[r].key \in DOMAIN targets THEN targets
                  ELSE Put(targets, request[r].key, request[r].row)
    /\ request' = [request EXCEPT ![r] = NULL]
    /\ UNCHANGED <<profiles, deleted, exec, pool, edits>>

\* update_target with another profile, and with another preferred transport
\* unless that is NULL; the profile has to support the preferred transport and
\* nothing else.
BeginAttachProfile(r, k, id, preferred) ==
    /\ Edit
    /\ request[r] = NULL
    /\ k \in DOMAIN targets /\ id \in DOMAIN profiles /\ profiles[id].tenant = k.tenant
    /\ profiles[id].types # NULL
    /\ LET name == IF preferred = NULL THEN Preferred(targets[k]) ELSE preferred
       IN  {name, Normalized(name)} \cap profiles[id].types # {}
    /\ request' = [request EXCEPT ![r] =
          [op |-> "attach", key |-> k, id |-> id, ref |-> profiles[id].ref,
           preferred |-> preferred]]
    /\ UNCHANGED <<Stored, exec, pool>>

\* A target that was deleted meanwhile makes the request fail.
CommitAttachProfile(r) ==
    /\ request[r] # NULL /\ request[r].op = "attach" /\ ~ Locked(request[r].key)
    /\ targets' = IF request[r].key \notin DOMAIN targets THEN targets
                  ELSE [targets EXCEPT
                          ![request[r].key].profile = request[r].id,
                          ![request[r].key].ref = request[r].ref,
                          ![request[r].key].preferred =
                              IF request[r].preferred = NULL THEN @ ELSE request[r].preferred]
    /\ request' = [request EXCEPT ![r] = NULL]
    /\ UNCHANGED <<profiles, deleted, exec, pool, edits>>

\* update_target without a profile: fields that are null stay as they are, but
\* for the profile, which a null removes.
UpdateTarget(k, form) ==
    /\ Edit
    /\ k \in DOMAIN targets /\ ~ Locked(k)
    /\ targets' \in {[targets EXCEPT ![k].enabled = ~ @],
                     [targets EXCEPT ![k].hint = IF form.hint = NULL THEN @ ELSE form.hint],
                     [targets EXCEPT ![k].preferred =
                         IF form.preferred = NULL THEN @ ELSE form.preferred],
                     [targets EXCEPT ![k].fallback = form.fallback],
                     [targets EXCEPT ![k].profile = NULL, ![k].ref = ""]}
    /\ UNCHANGED <<profiles, deleted, request, exec, pool>>

\* delete_targets; a single target is deleted in the same way.
DeleteTargets(ks) ==
    /\ Edit
    /\ ks \cap DOMAIN targets # {} /\ \A k \in ks : ~ Locked(k)
    /\ targets' = [k \in DOMAIN targets \ ks |-> targets[k]]
    /\ UNCHANGED <<profiles, deleted, request, exec, pool>>

-----------------------------------------------------------------------------
(* An attempt.                                                             *)

\* The names of the transports that an execution may attempt.
AttemptNames(k) ==
    LET t == targets[k]
        p == IF t.profile \in DOMAIN profiles THEN profiles[t.profile] ELSE NULL
        own == IF p = NULL THEN {"ssh"} ELSE {"ssh"} \cup TypesOf(p)
    IN  IF t.profile = NULL /\ t.fallback = <<>> THEN {t.preferred}
        ELSE {n \in own \cup ToSet(t.fallback) : p # NULL => Compatible(p.ctype, n)}

\* _resolve_target and _build_transport_configs: what the attempt goes by.  A
\* target without a profile has its reference used in place of an id.
Plan(k, name, collector) ==
    /\ exec = NULL
    /\ k \in DOMAIN targets /\ targets[k].enabled /\ name \in AttemptNames(k)
    /\ LET t == targets[k] IN
       exec' = [pc |-> "planned", key |-> k, name |-> name, collector |-> collector,
                hint |-> t.hint, signals |-> t.signals,
                reference |-> IF t.profile = NULL THEN t.ref ELSE t.profile,
                planned |-> IF t.profile \in DOMAIN profiles THEN profiles[t.profile] ELSE NULL,
                selection |-> NULL, work |-> <<>>,
                cancel |-> FALSE, after |-> 0]
    /\ UNCHANGED <<Stored, request, pool, edits>>

AttemptEnds == exec' = NULL
World == <<profiles, deleted, targets, request, edits>>

\* collect, up to the point at which it waits for the session.  An unknown
\* platform, transport or credential raises.
Open ==
    /\ exec # NULL /\ exec.pc = "planned"
    /\ LET platform == ResolvePlatform(exec.hint, exec.collector, exec.signals)
           selection == IF platform = NULL THEN NULL ELSE Select(platform, exec.name)
       IN  IF selection # NULL /\ Resolve(exec, selection.name) = "credentials"
           THEN exec' = [exec EXCEPT !.pc = "opening", !.selection = selection,
                                     !.work = Work(platform, selection.capability)]
           ELSE AttemptEnds
    /\ UNCHANGED <<World, pool>>

\* The identifier of a target under a fallback chain has the name of the
\* transport; the key of the pool knows neither tenant nor credentials.
SessionKey(e) == <<e.selection.name, e.key.identifier, e.name>>

Sessions(e) == {s \in pool : s.key = SessionKey(e)}

\* The pool hands out the session that it has, or one that is opened with the
\* credentials.
Connect ==
    /\ exec # NULL /\ exec.pc = "opening"
    /\ exec' = [exec EXCEPT !.pc = "collecting"]
    /\ pool' = IF Sessions(exec) # {} THEN pool
               ELSE pool \cup {[key |-> SessionKey(exec), tenant |-> exec.key.tenant]}
    /\ UNCHANGED World

ConnectFails ==
    /\ exec # NULL /\ exec.pc = "opening" /\ Sessions(exec) = {}
    /\ AttemptEnds
    /\ UNCHANGED <<World, pool>>

\* CollectNext without _check_cancellation.
CollectUnchecked ==
    /\ exec # NULL /\ exec.pc = "collecting" /\ exec.work # <<>>
    /\ \/ exec' = [exec EXCEPT !.work = Tail(@), !.pc = "waiting"]
       \/ AttemptEnds
    /\ UNCHANGED <<World, pool>>

\* One command, walk or request, after _check_cancellation, which raises for a
\* cancellation or a lost lease.
CollectNext ==
    /\ exec # NULL /\ exec.pc = "collecting" /\ exec.work # <<>>
    /\ \/ ~ exec.cancel /\ exec' = [exec EXCEPT !.work = Tail(@), !.pc = "waiting"]
       \/ AttemptEnds
    /\ UNCHANGED <<World, pool>>

\* The device answers, or the session raises.  "after" counts the answers that
\* come after a cancellation was requested.
Answer ==
    /\ exec # NULL /\ exec.pc = "waiting"
    /\ \/ exec' = [exec EXCEPT !.pc = "collecting", !.after = IF exec.cancel THEN @ + 1 ELSE @]
       \/ AttemptEnds
    /\ UNCHANGED <<World, pool>>

Collected ==
    /\ exec # NULL /\ exec.pc = "collecting" /\ exec.work = <<>>
    /\ AttemptEnds
    /\ UNCHANGED <<World, pool>>

\* An operator requests the cancellation of the job.
RequestCancellation ==
    /\ exec # NULL /\ ~ exec.cancel
    /\ exec' = [exec EXCEPT !.cancel = TRUE]
    /\ UNCHANGED <<World, pool>>

-----------------------------------------------------------------------------
Operator ==
    \/ \E id \in ProfileIds, t \in Tenants, f \in Forms : CreateProfile(id, t, f)
    \/ \E id \in ProfileIds, f \in Forms : UpdateProfile(id, f)
    \/ \E r \in Requests, id \in ProfileIds : BeginDeleteProfile(r, id)
    \/ \E r \in Requests, k \in Keys, f \in TargetForms, id \in ProfileIds \cup {NULL} :
          BeginCreateTarget(r, k, f, id)
    \/ \E r \in Requests, k \in Keys, id \in ProfileIds, f \in TargetForms :
          \E preferred \in {NULL, f.preferred} : BeginAttachProfile(r, k, id, preferred)
    \/ \E k \in Keys, f \in TargetForms : UpdateTarget(k, f)
    \/ \E t \in Tenants, ks \in SUBSET Keys :
          (\A k \in ks : k.tenant = t) /\ DeleteTargets(ks)
    \/ RequestCancellation

Commits == \E r \in Requests :
    CommitDeleteProfile(r) \/ CommitCreateTarget(r) \/ CommitAttachProfile(r)

Attempt == Open \/ Connect \/ ConnectFails \/ CollectNext \/ Answer \/ Collected

Next ==
    \/ Operator \/ Commits \/ Attempt
    \/ \E k \in DOMAIN targets, i \in DOMAIN Platforms :
          \E name \in AttemptNames(k) : Plan(k, name, Platforms[i].family)

Spec == Init /\ [][Next]_vars

-----------------------------------------------------------------------------
(* Properties.                                                             *)

\* What collects does so over the transport of its attempt, one that the
\* platform supports, and over the one session under its key, whatever was
\* deleted and created since.  The key has no tenant: the session was opened
\* for a target of the same identifier, and for another tenant's only if that
\* tenant uses the identifier too (CiscoTransportSelector.select,
\* TransportManager.open_session, _pool_key).
SessionsAreBacked ==
    exec # NULL /\ exec.pc \in {"collecting", "waiting"} =>
        LET platform == ResolvePlatform(exec.hint, exec.collector, exec.signals) IN
        /\ exec.selection.capability \in platform.support \cap Registered[exec.selection.name]
        /\ exec.name # NULL => exec.selection.name = exec.name
        /\ \E s \in Sessions(exec) : \E k \in Keys :
              k.identifier = exec.key.identifier /\ k.tenant = s.tenant
        /\ Cardinality(Sessions(exec)) = 1

\* After a cancellation was requested at most one more command is answered
\* (_check_cancellation before each of them).
CancelStopsCollecting == exec # NULL => exec.after <= 1

CollectingIsSound == SessionsAreBacked /\ CancelStopsCollecting

\* Whatever is opened with a profile's credentials passes the test of that
\* profile as it is then, by way of the platform, the selection of a registered
\* transport and the tables of three places in the code, but for the passwords
\* for SSH over Telnet and for Telnet over SSH.  The converse does not hold: of
\* the transports that the test accepts a chain can open telnet only
\* (_validate_profile_for_transport, resolve_reference, select).
OpenedProfilesPass ==
    [][exec # NULL /\ exec.pc = "planned" /\ exec' # NULL /\ exec'.pc = "opening" =>
          LET p == profiles[exec.reference]
              kind == Kind[exec'.selection.name]
          IN  \/ TestProfile(p, kind) = "success"
              \/ p.ctype = "ssh_password" /\ kind = "telnet"
              \/ p.ctype = "telnet_password" /\ kind = "ssh"]_vars

\* A profile that was deleted, disabled or changed after the attempt was
\* planned, or that the target still names because its deletion overtook the
\* request that attached it, gives no credentials.
RevokedProfilesAreRefused ==
    [][exec # NULL /\ exec.pc = "planned" /\ exec' # NULL /\ exec'.pc = "opening" =>
          /\ exec.reference \in DOMAIN profiles \ deleted
          /\ LET p == profiles[exec.reference] IN
             /\ p.enabled /\ p.tenant = exec.key.tenant
             /\ Kind[exec'.selection.name] \in TypesOf(p)
             /\ p.ref \in Secrets]_vars
=============================================================================
