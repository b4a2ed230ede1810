------------------------------ MODULE Policies ------------------------------
(* Policy packages, their inheritance, the evaluation of differences against *)
(* the rules of policies, and the decision per policy.  A rule is a record   *)
(* of the registry Rules: key, tags, type, expected, subject, field, kind    *)
(* and risk, NULL where its expected_state says nothing.                     *)
EXTENDS Comparison

CONSTANTS
    Rules,      \* function from rule keys to rules: EvaluationRuleRegistry
    Number,     \* the texts that are numbers, with their values
    Holds       \* Holds[type] : pairs <<expected, observed>> that a text test accepts

-----------------------------------------------------------------------------
(* PolicyValidator and PolicyCompiler.  A policy is a record of id, key,     *)
(* version, rules, parents, tags (its assignments) and lifecycle.            *)

AssignmentScopes == {"organization", "site", "building", "floor", "rack",
                     "vendor", "platform", "device_type", "device"}

\* The walk over the parents finds the policy itself and nothing else: it does
\* not follow the parents of a parent.
ValidPolicy(p) ==
    /\ IsInjective(p.rules)
    /\ p.id \notin ToSet(p.parents)
    /\ \A i \in DOMAIN p.tags : /\ p.tags[i][1] \in AssignmentScopes
                                /\ Strip[p.tags[i][2]] # ""

Compiles(p) == p.lifecycle # "published" /\ ValidPolicy(p)

\* InheritanceResolver sorts the parents.
Compile(p) ==
    [id |-> p.id, key |-> p.key, version |-> p.version, rules |-> p.rules,
     parents |-> SortSeq(p.parents, LAMBDA a, b : a < b),
     tags |-> [i \in DOMAIN p.tags |-> << p.tags[i][1], Strip[p.tags[i][2]] >>]]

-----------------------------------------------------------------------------
(* PolicyPackageResolver.  A package is a record of id, key, version, rules, *)
(* parents and tags.                                                         *)

\* package_by_id: of the packages of one policy the last one listed.
PackageById(packages, id) ==
    packages[Max({i \in DOMAIN packages : packages[i].id = id})]

KnownIds(packages) == {packages[i].id : i \in DOMAIN packages}

\* The packages whose rules a package has, parents first; visited is threaded
\* through the walk, so that a circle ends.
RECURSIVE InheritedFrom(_, _, _, _)
InheritedFrom(ids, packages, visited, ordered) ==
    IF ids = <<>> THEN [visited |-> visited, ordered |-> ordered]
    ELSE IF Head(ids) \in visited
    THEN InheritedFrom(Tail(ids), packages, visited, ordered)
    ELSE IF Head(ids) \notin KnownIds(packages)
    THEN InheritedFrom(Tail(ids), packages, visited \cup {Head(ids)}, ordered)
    ELSE LET parent == PackageById(packages, Head(ids))
             up == InheritedFrom(parent.parents, packages, visited \cup {Head(ids)}, ordered)
         IN  InheritedFrom(Tail(ids), packages, up.visited, Append(up.ordered, parent))

\* ResolveInheritedPackages without the parents of parents.
ResolveParents(package, packages) ==
    LET known == SelectSeq(package.parents, LAMBDA id : id \in KnownIds(packages))
    IN  Append([i \in DOMAIN known |-> PackageById(packages, known[i])], package)

ResolveInheritedPackages(package, packages) ==
    Append(InheritedFrom(package.parents, packages, {}, <<>>).ordered, package)

Equal(a, b) == a = b

\* _build_policy, but for a rule the registry does not know.
BuildPolicy(package, packages) ==
    LET resolved == ResolveInheritedPackages(package, packages)
        keys == FlattenSeq([i \in DOMAIN resolved |-> resolved[i].rules])
    IN  [id |-> package.id, version |-> package.version, enabled |-> TRUE,
         tags |-> package.tags, rules |-> Dict(keys, Equal)]

SameKeyed(a, b) == a.key = b.key

\* resolve_with_versions: of each key the highest version, in the order in
\* which the keys are first listed.
Resolve(packages) ==
    LET keyed == Dict(packages, SameKeyed)
        Highest(k) ==
            LET versions == SelectSeq(packages, LAMBDA p : p.key = k)
                top == Max({p.version : p \in ToSet(versions)})
            IN  SelectSeq(versions, LAMBDA p : p.version = top)[1]
    IN  [i \in DOMAIN keyed |-> BuildPolicy(Highest(keyed[i].key), packages)]

UnknownRules(policies) ==
    UNION {ToSet(policies[i].rules) : i \in DOMAIN policies} \ DOMAIN Rules

-----------------------------------------------------------------------------
(* PolicyEvaluator.  Tags are pairs <<scope, value>>.                        *)

Scopes == {"site", "role", "platform", "vendor", "device_type"}

\* The last tag of a scope counts; a scope the context does not know is
\* ignored.
TagsApply(tags, context) ==
    \A s \in Scopes :
        LET given == {i \in DOMAIN tags : tags[i][1] = s}
        IN  given # {} => tags[Max(given)][2] = context[s]

\* Every rule that applies, with the position of the first policy that has it.
ApplicableRules(policies, context) ==
    LET on == {i \in DOMAIN policies :
                  policies[i].enabled /\ TagsApply(policies[i].tags, context)}
        in(i) == {k \in ToSet(policies[i].rules) : TagsApply(Rules[k].tags, context)}
    IN  {[rule |-> k, policy |-> Min({i \in on : k \in in(i)})] :
            k \in UNION {in(i) : i \in on}}

-----------------------------------------------------------------------------
(* RuleExecutor and the scores.                                              *)

RuleTypes == {"equals", "not_equals", "exists", "missing", "regex", "contains",
              "greater_than", "less_than", "version_compare", "boolean_compare"}

RuleConcerns(r, d) ==
    /\ r.subject \in {NULL, d.subject}
    /\ r.field \in {NULL, d.field}
    /\ r.kind \in {NULL, d.type}

Expected(r, d) == IF r.expected = NULL THEN d.expected ELSE r.expected

\* Tests that raise: no such type, and numbers that do not parse.
Raises(r, d, waived) ==
    \/ r.type \notin RuleTypes
    \/ /\ ~ waived
       /\ r.type \in {"greater_than", "less_than"}
       /\ Expected(r, d) # NULL /\ d.observed # NULL
       /\ ~ {Expected(r, d), d.observed} \subseteq DOMAIN Number

Passes(r, d) ==
    LET exp == Expected(r, d)
        obs == d.observed
    IN  CASE r.type = "equals"       -> Key(exp) = Key(obs)
          [] r.type = "not_equals"   -> Key(exp) # Key(obs)
          [] r.type = "exists"       -> OptionalText(obs) # NULL
          [] r.type = "missing"      -> OptionalText(obs) = NULL
          [] r.type = "greater_than" -> exp # NULL /\ obs # NULL /\ Number[obs] > Number[exp]
          [] r.type = "less_than"    -> exp # NULL /\ obs # NULL /\ Number[obs] < Number[exp]
          [] OTHER                   -> << exp, obs >> \in Holds[r.type]

Clamp(n) == IF n < 0 THEN 0 ELSE IF n > 100 THEN 100 ELSE n

RiskScore(r, d) ==
    IF r.risk # NULL THEN Clamp(r.risk)
    ELSE CASE d.type = "missing"     -> 80
           [] d.type = "conflict"    -> 85
           [] d.type = "duplicate"   -> 75
           [] d.type = "modified"    -> 50
           [] d.type = "unexpected"  -> 45
           [] d.type = "unsupported" -> 15
           [] OTHER                  -> 25

\* Applies without the expiry.
AppliesForever(e, key, d) ==
    /\ e.rule \in {NULL, key}
    /\ e.subject \in {NULL, d.subject}
    /\ e.id \in {NULL, d.id}

\* An exception waives a rule on a difference while it has not expired.
Applies(e, key, d) ==
    /\ ~ e.expired
    /\ e.rule \in {NULL, key}
    /\ e.subject \in {NULL, d.subject}
    /\ e.id \in {NULL, d.id}

Waived(key, d, exceptions) == \E e \in exceptions : Applies(e, key, d)

Execute(entry, d, exceptions) ==
    LET r == Rules[entry.rule]
        status == IF Waived(entry.rule, d, exceptions) THEN "waived"
                  ELSE IF Passes(r, d) THEN "compliant" ELSE "non_compliant"
    IN  [rule |-> entry.rule, policy |-> entry.policy, difference |-> d, status |-> status,
         risk |-> IF status = "non_compliant" THEN RiskScore(r, d) ELSE 0]

\* Python rounds a half to the even side.
Rounded(num, den) ==
    LET q == num \div den
        twice == 2 * (num % den)
    IN  IF twice < den \/ (twice = den /\ q % 2 = 0) THEN q ELSE q + 1

SumRisk(results) == FoldLeft(LAMBDA s, r : s + r.risk, 0, SetToSeq(results))

\* ComplianceScoreCalculator: round(100 - average risk).
ComplianceScore(results) ==
    IF results = {} THEN 100
    ELSE LET n == Cardinality(results)
         IN  Clamp(Rounded(100 * n - SumRisk(results), n))

MaxRisk(results) == IF results = {} THEN 0 ELSE Max({r.risk : r \in results})

EvaluationStatus(results) ==
    IF results = {} THEN "not_applicable"
    ELSE IF \E r \in results : r.status = "non_compliant" THEN "non_compliant"
    ELSE IF \A r \in results : r.status = "waived" THEN "waived"
    ELSE "compliant"

-----------------------------------------------------------------------------
(* EvaluationEngine and DecisionEngine.                                      *)

Pairs(policies, context, differences) ==
    {[entry |-> e, difference |-> d] :
        e \in ApplicableRules(policies, context), d \in differences}

Concerned(policies, context, differences) ==
    {p \in Pairs(policies, context, differences) :
        RuleConcerns(Rules[p.entry.rule], p.difference)}

EvaluationRaises(policies, context, differences, exceptions) ==
    UnknownRules(policies) = {} =>
       \E p \in Concerned(policies, context, differences) :
          Raises(Rules[p.entry.rule], p.difference,
                 Waived(p.entry.rule, p.difference, exceptions))

RuleResults(policies, context, differences, exceptions) ==
    {Execute(p.entry, p.difference, exceptions) :
        p \in Concerned(policies, context, differences)}

PolicyResults(policies, results) ==
    {[policy |-> i, status |-> EvaluationStatus(own), risk |-> MaxRisk(own),
      score |-> ComplianceScore(own), results |-> own] :
        <<i, own>> \in {<<i, {r \in results : r.policy = i}>> :
                          i \in {r.policy : r \in results}}}

Evaluate(policies, context, differences, exceptions) ==
    LET results == RuleResults(policies, context, differences, exceptions)
    IN  [status |-> EvaluationStatus(results), risk |-> MaxRisk(results),
         score |-> ComplianceScore(results), policies |-> PolicyResults(policies, results)]

DecisionStatus(result) ==
    IF result.results = {} THEN "not_applicable"
    ELSE IF \E r \in result.results : r.status = "non_compliant" THEN "fail"
    ELSE IF \E r \in result.results : r.status = "error" THEN "warning"
    ELSE IF result.status \in {"compliant", "waived"} THEN "pass"
    ELSE "unknown"

Confidence(status) ==
    CASE status = "not_applicable"    -> 0
      [] status \in {"fail", "pass"}  -> 100
      [] status = "warning"           -> 50
      [] OTHER                        -> 25

Decide(evaluation) ==
    {[policy |-> r.policy, status |-> DecisionStatus(r),
      confidence |-> Confidence(DecisionStatus(r)),
      rules |-> {x.rule : x \in r.results}] : r \in evaluation.policies}
=============================================================================
