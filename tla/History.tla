------------------------------- MODULE History -------------------------------
(* The stored history and what is read from it.  Runs, synchronisations and  *)
(* discoveries add snapshots; runs and requests add comparisons; nothing is  *)
(* changed or removed.  The dashboard, the inventory pages, the drill-down   *)
(* to a device and the reports are functions of the stored records.          *)
EXTENDS Reporting

CONSTANTS
    NetBoxInventories,  \* sequences of NetBox devices that a run may meet
    LiveInventories,    \* sequences of live devices that it may collect
    Times,              \* half days: a record is made at one of them
    DaysPerMonth,
    Rank,               \* Rank[t] : the place of text t in the order of texts
    MaxSnapshots, MaxComparisons

VARIABLES
    now,
    snapshots,      \* in the order of their creation
    comparisons     \* in the order of their creation

vars == << now, snapshots, comparisons >>

Optional == Text \cup {NULL}

\* The rows of snapshot_devices: NetBox leaves out what only a device knows.
NetBoxRow == [name : Text, serial : Optional, ip : Optional, model : Optional,
              platform : Optional, interfaces : {<<>>}]
LiveRow == [id : Text, name : Text, serial : Optional, ip : Optional, model : Optional,
            platform : Optional,
            interfaces : Seq([name : Text, admin : Optional, mac : Optional, descr : Optional]),
            vlans : Seq([vid : Text, name : Text, status : Optional]),
            neighbors : Seq([local : Text, remote : Text])]

ASSUME InventoriesAssumption ==
    NetBoxInventories \subseteq Seq(NetBoxRow) /\ LiveInventories \subseteq Seq(LiveRow)

ASSUME HistoryAssumption ==
    /\ Times \subseteq Nat /\ Times # {} /\ DaysPerMonth \in Nat \ {0}
    /\ MaxSnapshots \in Nat /\ MaxComparisons \in Nat /\ Rank \in [Text -> Nat]

Init == now = Min(Times) /\ snapshots = <<>> /\ comparisons = <<>>

Tick ==
    /\ \E t \in Times : t > now /\ now' = t
    /\ UNCHANGED << snapshots, comparisons >>

-----------------------------------------------------------------------------
(* Writers.                                                                  *)

NetBoxSnapshot(devices) ==
    [source |-> "netbox", devices |-> devices, run |-> FALSE, captured |-> now]

LiveSnapshot(devices, run, captured) ==
    [source |-> "live", devices |-> devices, run |-> run, captured |-> captured]

Unused(t) == \A i \in DOMAIN comparisons : comparisons[i].at # t

Inventoried(devices) == [devices |-> devices, vlans |-> <<>>]

\* Time stamps of comparisons have microseconds: no two are equal.
Comparison(expected, observed, netbox, live, at) ==
    LET found == Compare(Inventoried(netbox), live) IN
    [expected |-> expected, observed |-> observed, found |-> found, at |-> at]

\* WorkflowEngine._persist, in one transaction.  The devices were collected
\* and compared earlier: another run may have been stored since.
PersistRun(netbox, live, at) ==
    LET n == Len(snapshots) IN
    /\ n + 2 <= MaxSnapshots /\ Len(comparisons) < MaxComparisons
    /\ at <= now /\ Unused(at)
    /\ snapshots' = snapshots \o << NetBoxSnapshot(netbox), LiveSnapshot(live, TRUE, at) >>
    /\ comparisons' = Append(comparisons, Comparison(n + 1, n + 2, netbox, live, at))
    /\ UNCHANGED now

\* A synchronisation with NetBox.
StoreNetBox(netbox) ==
    /\ Len(snapshots) < MaxSnapshots
    /\ snapshots' = Append(snapshots, NetBoxSnapshot(netbox))
    /\ UNCHANGED << now, comparisons >>

\* A discovery job that succeeds.
StoreLive(live) ==
    /\ Len(snapshots) < MaxSnapshots
    /\ snapshots' = Append(snapshots, LiveSnapshot(live, TRUE, now))
    /\ UNCHANGED << now, comparisons >>

\* SnapshotComparisonService.compare, which commits after another request may
\* have done so.
CompareStored(e, o, at) ==
    /\ Len(comparisons) < MaxComparisons
    /\ at <= now /\ Unused(at) /\ snapshots[e].captured <= at /\ snapshots[o].captured <= at
    /\ snapshots[e].source = "netbox" /\ snapshots[o].source = "live"
    /\ snapshots[o].run
    /\ comparisons' = Append(comparisons,
          Comparison(e, o, snapshots[e].devices, snapshots[o].devices, at))
    /\ UNCHANGED << now, snapshots >>

Next ==
    \/ Tick
    \/ \E n \in NetBoxInventories, l \in LiveInventories, t \in Times : PersistRun(n, l, t)
    \/ \E n \in NetBoxInventories : StoreNetBox(n)
    \/ \E l \in LiveInventories : StoreLive(l)
    \/ \E e, o \in DOMAIN snapshots, t \in Times : CompareStored(e, o, t)

Spec == Init /\ [][Next]_vars

-----------------------------------------------------------------------------
(* The dashboard.  A window is a pair of times, either of them NULL.         *)

FilterDate(t, window) ==
    /\ window[1] # NULL => t >= window[1]
    /\ window[2] # NULL => t <= window[2]

\* Series in the order of the query, without the reversal of it.
SeriesNewestFirst(window) ==
    SetToSortSeq({c \in ToSet(comparisons) : FilterDate(c.at, window)},
                 LAMBDA c, d : c.at > d.at)

\* DashboardRepositoryAdapter.list_comparison_results, and the reversal of it:
\* the comparisons of a window, the oldest one first.
Series(window) ==
    SetToSortSeq({c \in ToSet(comparisons) : FilterDate(c.at, window)},
                 LAMBDA c, d : c.at < d.at)

LatestComparison == CHOOSE c \in ToSet(comparisons) : \A d \in ToSet(comparisons) : d.at <= c.at

\* The query has no order: any live snapshot of the window may be the first.
FirstLive(window) ==
    {i \in DOMAIN snapshots : snapshots[i].source = "live"
                              /\ FilterDate(snapshots[i].captured, window)}

DashboardAccuracy(found, total) ==
    IF total = 0 THEN NULL
    ELSE Percent(Max({total - Count(found, "missing") - Count(found, "modified"), 0}), total)

\* DashboardService.current_kpis: the possible answers.  The window applies to
\* the live snapshot and not to the comparison.
CurrentKpis(window) ==
    LET c == LatestComparison
        Kpis(total) ==
            IF comparisons = <<>> THEN [total |-> total]
            ELSE [total |-> total, missing |-> Count(c.found, "missing"),
                  extra |-> Count(c.found, "unexpected"),
                  modified |-> Count(c.found, "modified"),
                  findings |-> Cardinality(Findings(c.found)),
                  critical |-> Critical(Findings(c.found)),
                  major |-> Major(Findings(c.found)), minor |-> Minor(Findings(c.found)),
                  accuracy |-> IF total = NULL THEN NULL
                               ELSE DashboardAccuracy(c.found, total)]
        totals == {Len(snapshots[i].devices) : i \in FirstLive(window)}
    IN  {Kpis(t) : t \in IF totals = {} THEN {NULL} ELSE totals}

-----------------------------------------------------------------------------
\* Half days: day 0 is a Monday and the first of a month.
Day(t) == t \div 2
Weekday(t) == Day(t) % 7
DayOfMonth(t) == Day(t) % DaysPerMonth

Granularities == {"daily", "weekly", "monthly"}

\* %U counts weeks from Sunday.
BucketLabel(t, g) ==
    CASE g = "weekly"  -> (Day(t) + 1) \div 7
      [] g = "monthly" -> Day(t) \div DaysPerMonth
      [] OTHER         -> Day(t)

\* The start of a day is midnight; that of a week or a month keeps the time of
\* day of the comparison.
BucketStart(t, g) ==
    CASE g = "weekly"  -> t - 2 * Weekday(t)
      [] g = "monthly" -> t - 2 * DayOfMonth(t)
      [] OTHER         -> 2 * Day(t)

\* The last half day of the bucket.
BucketEnd(t, g) ==
    BucketStart(t, g) + (CASE g = "weekly"  -> 2 * 7 - 1
                           [] g = "monthly" -> 2 * DaysPerMonth - 1
                           [] OTHER         -> 1)

BucketKey(t, g) == << BucketLabel(t, g), BucketStart(t, g), BucketEnd(t, g) >>

Observed(c) == Len(snapshots[c.observed].devices)

\* DashboardService.aggregated_statistics, with the counts a bucket sums up.
Aggregates(g, window) ==
    LET cs == Series(window)
        keys == {BucketKey(cs[i].at, g) : i \in DOMAIN cs}
        In(k) == {i \in DOMAIN cs : BucketKey(cs[i].at, g) = k}
        Sum(k, type) == MapThenSumSet(LAMBDA i : Count(cs[i].found, type), In(k))
    IN  {[label |-> k[1], start |-> k[2], end |-> k[3],
          devices |-> Observed(cs[Max(In(k))]),
          missing |-> Sum(k, "missing"), extra |-> Sum(k, "unexpected"),
          modified |-> Sum(k, "modified"),
          findings |-> MapThenSumSet(LAMBDA i : Cardinality(Findings(cs[i].found)), In(k))] :
            k \in keys}

-----------------------------------------------------------------------------
Abs(x) == IF x < 0 THEN -x ELSE x

\* classify_trend, with both sides of its comparisons multiplied out.
ClassifyTrend(values) ==
    LET n == Len(values)
        sum == MapThenSumSet(LAMBDA i : values[i], DOMAIN values)
        delta == values[n] - values[1]
        swings == MapThenSumSet(LAMBDA i : Abs(values[i] - values[i - 1]), 2 .. n)
    IN  IF n < 2 \/ sum = 0 THEN "stable"
        ELSE IF 10 * n * swings > (n - 1) * Max({Abs(sum), 20 * n}) THEN "volatile"
        ELSE IF 100 * n * Abs(delta) <= Max({100 * n, 3 * Abs(sum)}) THEN "stable"
        ELSE IF delta > 0 THEN "increasing" ELSE "decreasing"

TrendDirection(values) ==
    CASE Len(values) >= 2 /\ values[Len(values)] > values[1] -> "up"
      [] Len(values) >= 2 /\ values[Len(values)] < values[1] -> "down"
      [] OTHER -> "flat"

TrendEntry(values) ==
    [baseline |-> IF values = <<>> THEN NULL ELSE values[1],
     current |-> IF values = <<>> THEN NULL ELSE Last(values),
     trend |-> ClassifyTrend(values), direction |-> TrendDirection(values)]

Drift(c) == Count(c.found, "missing") + Count(c.found, "unexpected") + Count(c.found, "modified")

Trends(window) ==
    LET cs == Series(window)
        Values(Op(_)) == [i \in DOMAIN cs |-> Op(cs[i])]
    IN  [devices |-> TrendEntry(Values(Observed)),
         findings |-> TrendEntry(Values(LAMBDA c : Cardinality(Findings(c.found)))),
         drift |-> TrendEntry(Values(Drift))]

-----------------------------------------------------------------------------
(* The drill-down to a device.  Queries without an order give a set of       *)
(* possible answers.                                                         *)

\* SnapshotDeviceRecord: a NetBox device has its name for an id.
DeviceRecord(source, d) ==
    [id |-> IF source = "netbox" THEN d.name ELSE d.id, name |-> d.name,
     serial |-> d.serial, model |-> d.model]

DeviceRecords(i) == {DeviceRecord(snapshots[i].source, d) : d \in ToSet(snapshots[i].devices)}

\* MatchDevice without the serial number.
MatchDeviceByName(devices, id, name, serial) ==
    LET byId == {d \in devices : d.id = id}
    IN  IF id # NULL /\ byId # {} THEN byId
        ELSE {d \in devices : name # NULL /\ Key(d.name) = Key(name)}

\* _match_device_by_identity: by id, then by name, then by serial number.
MatchDevice(devices, id, name, serial) ==
    LET byId == {d \in devices : d.id = id}
        byName == {d \in devices : Key(d.name) = Key(name)}
        bySerial == {d \in devices : Key(d.serial) = Key(serial)}
    IN  IF id # NULL /\ byId # {} THEN byId
        ELSE IF name # NULL /\ byName # {} THEN byName
        ELSE IF serial # NULL THEN bySerial
        ELSE {}

\* get_latest_live_devices and the match in it: of the devices that match by
\* the same field, one of the newest snapshot.
MatchLatest(id, name, serial) ==
    LET live == {i \in DOMAIN snapshots : snapshots[i].source = "live"}
        all == UNION {DeviceRecords(i) : i \in live}
        hits == MatchDevice(all, id, name, serial)
        newest == Max({i \in live : DeviceRecords(i) \cap hits # {}})
    IN  IF hits = {} THEN {} ELSE hits \cap DeviceRecords(newest)

\* compare_device: the pairs it may find, a side that it does not find is NULL.
Sides(c, id) ==
    LET OrNull(set) == IF set = {} THEN {NULL} ELSE set
        NameOf(e) == IF e = NULL THEN id ELSE e.name
        SerialOf(e) == IF e = NULL THEN NULL ELSE e.serial
        ObservedAs(e) ==
            LET seen == MatchDevice(DeviceRecords(c.observed), id, NameOf(e), SerialOf(e)) IN
            OrNull(IF seen # {} THEN seen ELSE MatchLatest(id, NameOf(e), SerialOf(e)))
    IN  UNION {{<<e, o>> : o \in ObservedAs(e)} :
                  e \in OrNull(MatchDevice(DeviceRecords(c.expected), id, id, NULL))}

\* The findings about the device and the interfaces of it.
FindingsAbout(c, id, e, o) ==
    LET names == {Key(id)} \cup {Key(d.name) : d \in {e, o} \ {NULL}}
    IN  {f \in Findings(c.found) :
            Key(f.difference.id[1]) # "" /\ Key(f.difference.id[1]) \in names}

Variance(field, expected, observed, type) ==
    [field |-> field, expected |-> expected, observed |-> observed, type |-> type]

\* The variances of the answer: what the comparison found, then serial number
\* and model of the devices at hand.
Variances(c, id, e, o) ==
    LET reported == {f.difference : f \in FindingsAbout(c, id, e, o)}
        shown == {Variance(d.field, d.expected, d.observed, d.type) :
                    d \in {x \in reported : ~ (o # NULL /\ x.type = "missing")}}
        Differs(v, w) == v \notin {NULL, ""} /\ w \notin {NULL, ""} /\ Key(v) # Key(w)
        Added(field, v, w, known) ==
            IF Differs(v, w) /\ ~ \E x \in shown : x.field \in known
            THEN {Variance(field, v, w, "modified")} ELSE {}
        both == IF e = NULL \/ o = NULL THEN {}
                ELSE Added("serial_number", e.serial, o.serial, {"serial_number", "serial"})
                     \cup Added("model", e.model, o.model, {"model"})
    IN  IF o = NULL /\ shown = {}
        THEN {Variance("device", IF e = NULL THEN id ELSE e.name, NULL, "missing")}
        ELSE shown \cup both

-----------------------------------------------------------------------------
(* Listings.                                                                 *)

Page(items, page, size) ==
    SubSeq(items, (page - 1) * size + 1, Min({page * size, Len(items)}))

HasNext(items, page, size) == page * size < Len(items)

\* _inventory_response before the pages are cut: the devices that match the
\* search and the filter, in the order of a field.  A reversed sort keeps the
\* order of equal values.
InventoryList(i, search, platform, field, descending) ==
    LET Folded(v) == IF v = NULL THEN "" ELSE Fold[v]
        Values(d) == {d.name, d.model, d.serial, d.ip, d.platform,
                      DeviceRecord(snapshots[i].source, d).id}
        Matches(d) ==
            /\ Key(search) = "" \/ \E v \in Values(d) : Folded(v) \in Within[Key(search)]
            /\ Key(platform) = "" \/ Folded(d.platform) = Key(platform)
        matching == SelectSeq(snapshots[i].devices, Matches)
        Place(j) == Rank[Folded(matching[j][field])]
        Before(j, k) == \/ IF descending THEN Place(j) > Place(k) ELSE Place(j) < Place(k)
                        \/ Place(j) = Place(k) /\ j < k
        order == SetToSortSeq(DOMAIN matching, Before)
    IN  [j \in DOMAIN order |-> matching[order[j]]]

\* get_latest: the newest snapshot of a source, or 0.
LatestOf(source) == Max({0} \cup {i \in DOMAIN snapshots : snapshots[i].source = source})

\* The rows of a kind (interfaces, vlans or neighbors) in a live snapshot, of
\* one device or, with NULL, of all of them.
Rows(i, kind, id) ==
    LET devices == SelectSeq(snapshots[i].devices, LAMBDA d : id \in {NULL, d.id})
    IN  FlattenSeq([j \in DOMAIN devices |-> devices[j][kind]])

\* get_device_history: the observations of a device, in no order.
DeviceHistory(id) ==
    UNION {{<<i, j>> : j \in {k \in DOMAIN snapshots[i].devices :
                                  snapshots[i].devices[k].id = id}} :
              i \in {h \in DOMAIN snapshots : snapshots[h].source = "live"}}

-----------------------------------------------------------------------------
(* Properties.                                                               *)

\* No window, and those that begin or end between the first and the last time.
Windows ==
    LET inner == Times \ {Min(Times), Max(Times)}
    IN  {<<NULL, NULL>>} \cup {<<NULL, t>> : t \in inner} \cup {<<t, NULL>> : t \in inner}

SumOver(set, Op(_)) == MapThenSumSet(Op, set)

\* Whatever the order in which comparisons were stored, the buckets of a
\* window account for each of its comparisons once, each in a bucket that
\* contains it; a day has one bucket, with the devices of its last comparison;
\* a trend runs from the oldest to the newest comparison, and what it is
\* called agrees with its direction (aggregated_statistics, trends).
AggregatesAreComplete ==
    \A w \in Windows :
        LET cs == {c \in ToSet(comparisons) : FilterDate(c.at, w)}
            Drifts(b) == b.missing + b.extra + b.modified
            trend == Trends(w).devices
        IN  /\ \A g \in Granularities :
                  LET buckets == Aggregates(g, w) IN
                  /\ SumOver(buckets, Drifts) = SumOver(cs, Drift)
                  /\ \A c \in cs : \E b \in buckets : b.start <= c.at /\ c.at <= b.end
                  /\ \A b \in buckets : \E c \in cs : b.start <= c.at /\ c.at <= b.end
            /\ \A b, d \in Aggregates("daily", w) : Day(b.start) = Day(d.start) => b = d
            /\ \A b \in Aggregates("daily", w), c \in cs :
                  /\ Day(c.at) = Day(b.start)
                  /\ \A d \in cs : Day(d.at) = Day(c.at) => d.at <= c.at
                  => b.devices = Observed(c)
            /\ \A c \in cs : /\ (\A d \in cs : c.at <= d.at) => trend.baseline = Observed(c)
                             /\ (\A d \in cs : d.at <= c.at) => trend.current = Observed(c)
            /\ trend.trend = "increasing" => trend.direction = "up"
            /\ trend.trend = "decreasing" => trend.direction = "down"

\* The report of a run, with whatever parts of it are at hand, counts what it
\* lists: findings by severity, differences by type, a recommendation for each
\* finding and each difference; it is fully accurate only without drift, and
\* the dashboard shows the same numbers for the newest comparison (Statistics
\* Calculator, the section builders, DashboardService.current_kpis).
ReportsAgree ==
    comparisons # <<>> =>
        LET c == Last(comparisons)
            n == snapshots[c.expected].devices
            l == snapshots[c.observed].devices
            decision == [score |-> 50, status |-> "non_compliant", results |-> c.found]
            run == [total |-> Len(n), successful |-> Len(l), failed |-> 1]
            Contexts == {Context(n, l, c.found, d, r) : d \in {NULL, decision}, r \in {NULL, run}}
                        \cup {Context(NULL, l, c.found, NULL, NULL),
                              Context(n, NULL, NULL, NULL, run)}
            whole == Statistics(Context(n, l, c.found, NULL, NULL))
        IN  /\ \A type \in {"technical", "finding"}, x \in Contexts :
                  \A s \in ToSet(Report(type, x)) :
                    LET d == s.data IN
                    /\ s.type = "findings" =>
                          Cardinality(d.findings) = d.critical + d.major + d.minor
                    /\ s.type = "discrepancies" =>
                          /\ d.missing = Count(d.differences, "missing")
                          /\ d.changed = Count(d.differences, "modified")
                          /\ d.interfaces + d.vlans + d.configuration <= d.changed
                    /\ s.type = "recommendations" =>
                          d.count = IF x.found = NULL THEN 0
                                    ELSE 2 * Cardinality(x.found) + (IF x.run = NULL THEN 0 ELSE 1)
            /\ n # <<>> => (whole.accuracy = Percent(1, 1) <=> whole.missing + whole.changed = 0)
            /\ c = LatestComparison => \A k \in CurrentKpis(<<NULL, NULL>>) :
                  /\ k.missing = whole.missing /\ k.extra = whole.extra
                  /\ k.modified = whole.changed
                  /\ k.critical = whole.critical /\ k.major = whole.major
                  /\ k.minor = whole.minor
                  /\ k.findings = k.critical + k.major + k.minor

\* Nothing in the two snapshots of a comparison can be taken for something
\* else: names, live ids and serial numbers differ, and no serial is blank.
ClearlyNamed(c) ==
    LET n == ToSet(snapshots[c.expected].devices)
        l == ToSet(snapshots[c.observed].devices)
    IN  /\ \A d, e \in n : Key(d.name) = Key(e.name) => d = e
        /\ \A d, e \in l : Key(d.name) = Key(e.name) => d = e
        /\ \A d, e \in l : d.serial # NULL /\ Key(d.serial) = Key(e.serial) => d = e
        /\ \A d \in n : d.serial # NULL => Key(d.serial) # ""
        /\ \A d \in n, e \in l : Key(e.id) # Key(d.name)

\* The drill-down to a NetBox device shows the live device that the comparison
\* matched it with, and just the conflicts of the two; it calls the device
\* missing if and only if no live snapshot has it under its name or serial
\* number ("the same logical identity semantics as the accepted comparison
\* pipeline": compare_device).
DrillDownAgrees ==
    \A c \in ToSet(comparisons) : ClearlyNamed(c) =>
        \A n \in ToSet(snapshots[c.expected].devices) :
            \A s \in Sides(c, n.name) :
                LET l == snapshots[c.observed].devices
                    k == Counterpart(n, l)
                    vs == Variances(c, n.name, s[1], s[2])
                IN  /\ s[1] = DeviceRecord("netbox", n)
                    /\ k # 0 => /\ s[2] = DeviceRecord("live", l[k])
                                /\ (\E v \in vs : v.field \in {"serial", "serial_number"})
                                      <=> Modified("device", <<>>, "", n.serial, l[k].serial) # <<>>
                                /\ (\E v \in vs : v.field = "model")
                                      <=> Modified("device", <<>>, "", n.model, l[k].model) # <<>>
                    /\ (\E v \in vs : v.type = "missing") <=> s[2] = NULL
                    /\ s[2] = NULL <=>
                          \A i \in DOMAIN snapshots : snapshots[i].source = "live" =>
                              \A d \in ToSet(snapshots[i].devices) :
                                  /\ d.id # n.name /\ Key(d.name) # Key(n.name)
                                  /\ Key(n.serial) # "" => Key(d.serial) # Key(n.serial)

\* The pages of an inventory listing, one after the other up to the last one,
\* are the devices of the newest snapshot that match, each once and in order,
\* in both directions; the rows of the devices of a snapshot are the rows of
\* the snapshot, and a device's history has each observation of it
\* (_inventory_response, get_latest, the snapshot routes, get_device_history).
ListingsAreComplete ==
    \A source \in {"netbox", "live"} :
        LET i == LatestOf(source)
            devices == snapshots[i].devices
        IN  i > 0 =>
        /\ \A j \in i + 1 .. Len(snapshots) : snapshots[j].source # source
        /\ \A size \in 1 .. 2, search \in {NULL, "s"}, platform \in {NULL, "x"},
              descending \in BOOLEAN :
              LET all == InventoryList(i, search, platform, "name", descending)
                  last == CHOOSE p \in 1 .. Len(all) + 1 :
                            /\ ~ HasNext(all, p, size)
                            /\ \A q \in 1 .. p - 1 : HasNext(all, q, size)
                  shown == FlattenSeq([p \in 1 .. last |-> Page(all, p, size)])
              IN  /\ \A d \in ToSet(devices) :
                        (search = NULL \/ d.serial = "s") /\ platform = NULL
                        => Cardinality({k \in DOMAIN shown : shown[k] = d})
                           = Cardinality({k \in DOMAIN devices : devices[k] = d})
                  /\ \A k \in 1 .. Len(shown) - 1 :
                        LET x == Rank[Key(shown[k].name)]
                            y == Rank[Key(shown[k + 1].name)]
                        IN  IF descending THEN x >= y ELSE x <= y
        /\ source = "live" =>
              /\ \A kind \in {"interfaces", "vlans", "neighbors"} :
                    SumOver({d.id : d \in ToSet(devices)},
                            LAMBDA id : Len(Rows(i, kind, id))) = Len(Rows(i, kind, NULL))
              /\ \A k \in DOMAIN devices : <<i, k>> \in DeviceHistory(devices[k].id)
=============================================================================
