----------------------------- MODULE Assessment -----------------------------
(* The assessment of an inventory, in the order the workflow runs it: the    *)
(* records of one or more collections are normalised and merged, compared    *)
(* with NetBox, evaluated against the policies and decided per policy.       *)
EXTENDS Policies

CONSTANT Cases      \* families of inputs: a set for each field of input

VARIABLES
    input,      \* dataset, collections, authored, plain, context, exceptions
    phase,      \* how far the assessment is, or "raised"
    live,       \* the merged live inventory
    packages,   \* the compiled policies
    found,      \* the differences
    evaluation, \* the result of EvaluationEngine.evaluate
    decisions   \* the result of DecisionEngine.decide

vars == << input, phase, live, packages, found, evaluation, decisions >>

Init ==
    /\ \E f \in Cases :
          input \in [dataset : f.dataset, collections : f.collections,
                    authored : f.authored, plain : f.plain,
                    context : f.context, exceptions : f.exceptions]
    /\ phase = "collected"
    /\ live = <<>> /\ packages = <<>> /\ found = {}
    /\ evaluation = NULL /\ decisions = {}

Raise == phase' = "raised" /\ UNCHANGED << input, live, packages, found, evaluation, decisions >>

\* The collections that NormalizationEngine.normalize accepts: what it raises
\* leaves the collector's job without a snapshot.
Usable == SelectSeq(input.collections, Normalizes)

\* DiscoveryCoordinator.collect merges the snapshots of the jobs that have one.
Normalise ==
    /\ phase = "collected"
    /\ live' = Merge([i \in DOMAIN Usable |-> ToSnapshot(Usable[i])])
    /\ phase' = "normalised"
    /\ UNCHANGED << input, packages, found, evaluation, decisions >>

\* ComparisonEngine.compare.
CompareInventories ==
    /\ phase = "normalised"
    /\ found' = Compare(ToInventory(input.dataset), live)
    /\ phase' = "compared"
    /\ UNCHANGED << input, live, packages, evaluation, decisions >>

\* PolicyCompiler.compile for each policy.
CompilePolicies ==
    /\ phase = "compared"
    /\ \A i \in DOMAIN input.authored : Compiles(input.authored[i])
    /\ packages' = [i \in DOMAIN input.authored |-> Compile(input.authored[i])]
    /\ phase' = "compiled"
    /\ UNCHANGED << input, live, found, evaluation, decisions >>

CompileRaises ==
    /\ phase = "compared"
    /\ \E i \in DOMAIN input.authored : ~ Compiles(input.authored[i])
    /\ Raise

Effective == input.plain \o Resolve(packages)

\* EvaluationEngine.evaluate.
EvaluateDifferences ==
    /\ phase = "compiled"
    /\ ~ EvaluationRaises(Effective, input.context, found, input.exceptions)
    /\ evaluation' = Evaluate(Effective, input.context, found, input.exceptions)
    /\ phase' = "evaluated"
    /\ UNCHANGED << input, live, packages, found, decisions >>

EvaluateRaises ==
    /\ phase = "compiled"
    /\ EvaluationRaises(Effective, input.context, found, input.exceptions)
    /\ Raise

\* DecisionEngine.decide.
DecidePolicies ==
    /\ phase = "evaluated"
    /\ decisions' = Decide(evaluation)
    /\ phase' = "decided"
    /\ UNCHANGED << input, live, packages, found, evaluation >>

Next ==
    \/ Normalise \/ CompareInventories
    \/ CompilePolicies \/ CompileRaises
    \/ EvaluateDifferences \/ EvaluateRaises \/ DecidePolicies

Spec == Init /\ [][Next]_vars

-----------------------------------------------------------------------------
(* Reference definitions, from the inputs alone.                             *)

\* The observations of the devices as the last collection saw them: pairs of
\* a usable collection and a record of it.
Seen ==
    UNION {{<<c, i>> : i \in DOMAIN Usable[c].devices} :
              c \in DOMAIN Usable}

Observation(o) == Usable[o[1]].devices[o[2]]

Latest ==
    {o \in Seen : \A p \in Seen :
        Strip[Observation(p).id] = Strip[Observation(o).id] => p[1] <= o[1]}

SameText(v, w) == Key(v) = Key(w) /\ Key(v) # ""

Conflicts(v, w) == Key(v) # "" /\ Key(w) # "" /\ Key(v) # Key(w)

\* n is the device seen in o: by name, or by serial if nothing has its name.
IsSeenAs(n, o) ==
    LET d == Observation(o) IN
    IF \E p \in Latest : Key(Observation(p).name) = Key(n.name)
    THEN Key(d.name) = Key(n.name)
    ELSE SameText(n.serial, d.serial)

NetBoxDevices == ToSet(input.dataset.devices)

InterfacesSeen(o) ==
    \E r \in ToSet(Usable[o[1]].interfaces) :
        /\ Strip[r.device] = Strip[Observation(o).id]
        /\ Strip[r.name] # ""

NeighborSeen(o, r) ==
    /\ r \in ToSet(Usable[o[1]].neighbors)
    /\ Strip[r.device] = Strip[Observation(o).id]
    /\ Strip[r.local] # "" /\ Strip[r.remote] # ""

VlansSeen ==
    {v \in UNION {{<<c, r>> : r \in ToSet(Usable[c].vlans)} :
                     c \in DOMAIN Usable} :
        /\ v[2].vid # NULL /\ Strip[v[2].name] # ""
        /\ \E o \in Latest :
              o[1] = v[1] /\ Strip[Observation(o).id] = Strip[v[2].device]}

\* What is known of a VLAN, in NetBox and on the devices: names and statuses.
VlanInNetBox(vid) ==
    {<<Key(v.name), v.status>> : v \in {w \in ToSet(input.dataset.vlans) : w.vid = vid}}
VlanSeen(vid) ==
    {<<Key(v[2].name), v[2].status>> : v \in {w \in VlansSeen : w[2].vid = vid}}

\* Nothing distinguishes the two inventories, as far as the comparison looks:
\* every device is known to both sides, under one name and with no known field
\* that conflicts, no interface and no neighbour was seen, and both sides have
\* the same VLANs, with a name in common and no statuses that conflict.
Agree ==
    LET n == input.dataset.devices IN
    /\ \A i, j \in DOMAIN n : SameText(n[i].name, n[j].name) => i = j
    /\ \A o, p \in Latest : SameText(Observation(o).name, Observation(p).name) => o = p
    /\ \A m \in NetBoxDevices : \E o \in Latest : IsSeenAs(m, o)
    /\ \A o \in Latest : \E m \in NetBoxDevices : IsSeenAs(m, o)
    /\ \A m \in NetBoxDevices : \E o \in Latest :
          /\ IsSeenAs(m, o)
          /\ ~ Conflicts(m.serial, Observation(o).serial)
          /\ ~ Conflicts(m.ip, Observation(o).ip)
          /\ ~ Conflicts(m.model, Observation(o).model)
          /\ PlatformMatches(m.platform, OptionalText(Observation(o).platform))
          /\ ~ InterfacesSeen(o)
    /\ \A o \in Latest, r \in UNION {ToSet(Usable[c].neighbors) :
                                       c \in DOMAIN Usable} :
          ~ NeighborSeen(o, r)
    /\ {v.vid : v \in ToSet(input.dataset.vlans)} = {v[2].vid : v \in VlansSeen}
    /\ \A v \in ToSet(input.dataset.vlans) :
          \E e \in VlanInNetBox(v.vid), o \in VlanSeen(v.vid) :
              e[1] = o[1] /\ ~ Conflicts(e[2], o[2])

\* No serial number and no VLAN number stands for two things, and every device
\* has a name.
Unambiguous ==
    /\ \A o, p \in Latest : SameText(Observation(o).serial, Observation(p).serial) => o = p
    /\ \A o \in Latest : Key(Observation(o).name) # ""
    /\ \A v \in ToSet(input.dataset.vlans) :
          Cardinality(VlanInNetBox(v.vid)) = 1 /\ Cardinality(VlanSeen(v.vid)) <= 1

\* The packages a policy is to inherit from: those in every set of known
\* packages that holds its parents and, with a package, that package's
\* parents.
Ancestors(p) ==
    LET known == KnownIds(packages)
        ParentsOf(id) == ToSet(PackageById(packages, id).parents) \cap known
        closed == {s \in SUBSET known : /\ ToSet(p.parents) \cap known \subseteq s
                                        /\ \A id \in s : ParentsOf(id) \subseteq s}
    IN  {id \in known : \A s \in closed : id \in s}

RulesOf(p) ==
    ToSet(p.rules) \cup UNION {ToSet(PackageById(packages, id).rules) : id \in Ancestors(p)}

HighestOf(k) ==
    CHOOSE p \in ToSet(packages) :
        p.key = k /\ \A q \in ToSet(packages) : q.key = k => q.version <= p.version

\* The keys of the packages, in the order in which they are first listed.
KeyAt(j) ==
    LET firsts == SelectSeq([i \in DOMAIN packages |-> <<i, packages[i].key>>],
            LAMBDA x : \A i \in 1 .. x[1] - 1 : packages[i].key # x[2])
    IN  firsts[j - Len(input.plain)][2]

\* The rules in scope that the i-th effective policy has to answer for.
Answers(i) ==
    LET Scoped(j) ==
            LET all == IF j <= Len(input.plain) THEN ToSet(input.plain[j].rules)
                       ELSE RulesOf(HighestOf(KeyAt(j)))
            IN  IF Effective[j].enabled /\ TagsApply(Effective[j].tags, input.context)
                THEN {k \in all : TagsApply(Rules[k].tags, input.context)}
                ELSE {}
    IN  Scoped(i) \ UNION {Scoped(j) : j \in 1 .. i - 1}

-----------------------------------------------------------------------------
(* Properties.                                                               *)

\* When found is set: the later steps leave it as it is.
Compared == phase = "compared"

\* Whatever collections were merged and however devices were matched, a result
\* without differences means that NetBox and the last observation of every
\* device agree, and inventories that agree and are not ambiguous give none
\* (InventorySnapshot.merge, InventoryMatcher.match, ComparisonEngine.compare).
DriftIsDetected ==
    Compared => /\ found = {} => Agree
                /\ Agree /\ Unambiguous => found = {}

\* A policy has the rules of every package it inherits from, directly or not,
\* and no others, also if packages inherit from each other in a circle; of
\* each key the highest version is in force (PolicyPackageResolver).
RulesAreInherited ==
    phase \in {"compiled", "evaluated", "decided"} =>
        \A k \in {p.key : p \in ToSet(packages)} :
            \E p \in ToSet(Resolve(packages)) :
                /\ p.id = HighestOf(k).id /\ p.version = HighestOf(k).version
                /\ ToSet(p.rules) = RulesOf(HighestOf(k))
                /\ IsInjective(p.rules)

\* A policy fails if and only if a rule that it has to answer for fails on a
\* difference and no exception that is still valid waives it; it passes if it
\* was evaluated otherwise, and is not decided if it was not.  The inventory is
\* compliant unless a policy fails (EvaluationEngine.evaluate, DecisionEngine.decide).
VerdictIsJustified ==
    phase = "decided" =>
        LET Touches(i, k, d) == k \in Answers(i) /\ RuleConcerns(Rules[k], d)
            Fails(i) == \E k \in DOMAIN Rules, d \in found :
                            /\ Touches(i, k, d)
                            /\ \A e \in input.exceptions :
                                  \/ e.expired
                                  \/ e.rule \notin {NULL, k}
                                  \/ e.subject \notin {NULL, d.subject}
                                  \/ e.id \notin {NULL, d.id}
                            /\ ~ Passes(Rules[k], d)
        IN  /\ {x.policy : x \in decisions} =
                  {i \in DOMAIN Effective : \E k \in DOMAIN Rules, d \in found : Touches(i, k, d)}
            /\ \A x \in decisions : x.status = IF Fails(x.policy) THEN "fail" ELSE "pass"
            /\ evaluation.status = "non_compliant" <=> \E x \in decisions : x.status = "fail"
            /\ evaluation.score < 100 => \E x \in decisions : x.status = "fail"
=============================================================================
