------------------------------ MODULE Reporting ------------------------------
(* Reports: statistics, recommendations and sections, from what one run left *)
(* behind.  A part of the context that the caller does not have is NULL.     *)
EXTENDS Comparison

\* round(a / b * 100, 2), in hundredths.
Percent(a, b) == (10000 * a + b \div 2) \div b

Context(netbox, live, found, decision, run) ==
    [netbox |-> netbox, live |-> live, found |-> found, decision |-> decision, run |-> run]

Count(found, type) == Cardinality({d \in found : d.type = type})

Total(c) == IF c.netbox # NULL THEN Len(c.netbox)
            ELSE IF c.live # NULL THEN Len(c.live) ELSE 0

Reachable(c) == IF c.live # NULL THEN Len(c.live)
                ELSE IF c.run # NULL THEN c.run.successful ELSE 0

DiscoverySuccess(c) ==
    IF c.run = NULL \/ c.run.total = 0
    THEN IF c.live # NULL THEN Percent(1, 1) ELSE 0
    ELSE Percent(c.run.successful, c.run.total)

NetBoxAccuracy(c) ==
    LET known == IF c.netbox = NULL THEN 0 ELSE Len(c.netbox)
        accurate == IF c.found = NULL THEN Reachable(c)
                    ELSE Max({known - Count(c.found, "missing") - Count(c.found, "modified"), 0})
    IN  IF known = 0 THEN Percent(1, 1) ELSE Percent(accurate, known)

ReportScore(c) ==
    IF c.decision # NULL THEN c.decision.score
    ELSE IF c.found = {} THEN 100 ELSE 0

AllFindings(c) == IF c.found = NULL THEN {} ELSE Findings(c.found)

\* critical, high, and the rest.
Critical(findings) == Cardinality({f \in findings : f.severity = "critical"})
Major(findings) == Cardinality({f \in findings : f.severity = "high"})
MinorMedium(findings) == Cardinality({f \in findings : f.severity = "medium"})
Minor(findings) == Cardinality({f \in findings : f.severity \notin {"critical", "high"}})

\* The models, vendors or platforms of the inventory that is known, counted.
Distribution(c, field) ==
    LET devices == IF c.netbox # NULL THEN c.netbox
                   ELSE IF c.live # NULL THEN c.live ELSE <<>>
        Label(d) == IF d[field] \in {NULL, ""} THEN "unknown" ELSE d[field]
        labels == {Label(d) : d \in ToSet(devices)}
    IN  [l \in labels |-> Cardinality({i \in DOMAIN devices : Label(devices[i]) = l})]

Changes(c, subjects) ==
    IF c.found = NULL THEN 0
    ELSE Cardinality({d \in c.found : d.type = "modified" /\ d.subject \in subjects})

Statistics(c) ==
    LET Drift(type) == IF c.found = NULL THEN 0 ELSE Count(c.found, type) IN
    [total |-> Total(c), reachable |-> Reachable(c),
     unreachable |-> Max({Total(c) - Reachable(c), 0}),
     success |-> DiscoverySuccess(c), accuracy |-> NetBoxAccuracy(c),
     score |-> ReportScore(c),
     critical |-> Critical(AllFindings(c)), major |-> Major(AllFindings(c)),
     minor |-> Minor(AllFindings(c)),
     models |-> Distribution(c, "model"), platforms |-> Distribution(c, "platform"),
     missing |-> Drift("missing"), extra |-> Drift("unexpected"),
     changed |-> Drift("modified"),
     interfaces |-> Changes(c, {"interface"}), vlans |-> Changes(c, {"vlan"}),
     configuration |-> Changes(c, {"device", "configuration", "config"})]

-----------------------------------------------------------------------------
PriorityFromSeverity(level) ==
    IF level \in {"critical", "high", "medium"} THEN level ELSE "low"

ActionForDifference(type) ==
    CASE type = "missing"    -> "investigate"
      [] type = "unexpected" -> "update_source_of_truth"
      [] OTHER               -> "remediate_drift"

PriorityForDifference(type) ==
    CASE type \in {"missing", "conflict"} -> "high"
      [] type = "unexpected"              -> "medium"
      [] OTHER                            -> "low"

Recommendation(about, subject, action, priority) ==
    [about |-> about, subject |-> subject, action |-> action, priority |-> priority]

Recommendations(c) ==
    IF c.found = NULL THEN {}
    ELSE {Recommendation("finding", f.difference, "remediate_drift",
                         PriorityFromSeverity(f.severity)) : f \in Findings(c.found)}
         \cup {Recommendation("difference", d, ActionForDifference(d.type),
                              PriorityForDifference(d.type)) : d \in c.found}
         \cup (IF c.run # NULL /\ c.run.failed > 0
               THEN {Recommendation("run", c.run, "verify_connectivity", "high")}
               ELSE {})

-----------------------------------------------------------------------------
\* _SECTIONS_BY_REPORT.
SectionsOf ==
    [executive_summary |-> <<"executive_summary", "metrics", "recommendations">>,
     inventory  |-> <<"inventory", "metrics", "appendix">>,
     discovery  |-> <<"executive_summary", "inventory", "metrics", "appendix">>,
     compliance |-> <<"executive_summary", "compliance", "findings", "recommendations",
                      "metrics">>,
     difference |-> <<"discrepancies", "metrics", "appendix">>,
     finding    |-> <<"findings", "recommendations", "appendix">>,
     historical |-> <<"executive_summary", "metrics", "appendix">>,
     technical  |-> <<"inventory", "compliance", "findings", "discrepancies", "metrics",
                      "appendix">>]

\* The devices of an inventory section: what NetBox and the network know.
InventorySection(c, s) ==
    [netbox |-> IF c.netbox = NULL THEN <<>> ELSE c.netbox,
     live |-> IF c.live = NULL THEN <<>> ELSE c.live,
     models |-> s.models, platforms |-> s.platforms]

ComplianceSection(c, s) ==
    [status |-> IF c.decision = NULL THEN NULL ELSE c.decision.status,
     results |-> IF c.decision = NULL THEN {} ELSE c.decision.results, score |-> s.score]

FindingsSection(c, s) ==
    [findings |-> AllFindings(c), critical |-> s.critical, major |-> s.major, minor |-> s.minor]

DiscrepanciesSection(c, s) ==
    [differences |-> IF c.found = NULL THEN {} ELSE c.found,
     missing |-> s.missing, extra |-> s.extra, changed |-> s.changed,
     interfaces |-> s.interfaces, vlans |-> s.vlans, configuration |-> s.configuration]

ExecutiveSummary(s) ==
    [total |-> s.total, score |-> s.score, accuracy |-> s.accuracy, success |-> s.success,
     critical |-> s.critical, missing |-> s.missing, extra |-> s.extra]

MetricsSection(c, s) == [statistics |-> s, run |-> c.run]

RecommendationsSection(recommendations, s) ==
    [recommendations |-> recommendations, count |-> Cardinality(recommendations),
     critical |-> s.critical]

\* A finding has one piece of evidence; a decision has that of its findings.
Appendix(c, s) ==
    [evidence |-> {<<"finding", f.difference>> : f \in AllFindings(c)}
                  \cup (IF c.decision = NULL THEN {}
                        ELSE {<<"decision", r>> : r \in c.decision.results}),
     total |-> s.total]

Section(type, c, s, recommendations) ==
    CASE type = "executive_summary" -> ExecutiveSummary(s)
      [] type = "inventory"         -> InventorySection(c, s)
      [] type = "compliance"        -> ComplianceSection(c, s)
      [] type = "findings"          -> FindingsSection(c, s)
      [] type = "discrepancies"     -> DiscrepanciesSection(c, s)
      [] type = "metrics"           -> MetricsSection(c, s)
      [] type = "appendix"          -> Appendix(c, s)
      [] type = "recommendations"   -> RecommendationsSection(recommendations, s)

Report(type, c) ==
    LET s == Statistics(c) IN
    [i \in DOMAIN SectionsOf[type] |->
        [type |-> SectionsOf[type][i],
         data |-> Section(SectionsOf[type][i], c, s, Recommendations(c))]]
=============================================================================
