------------------------------ MODULE JobViews ------------------------------
(* What the API shows of a discovery over a range of addresses: the results  *)
(* per device and their variance against NetBox, read from the stored        *)
(* snapshots and the result rows of the job.                                 *)
EXTENDS History

CONSTANTS
    Host,           \* Host[t] : t up to a slash
    Addresses,      \* the texts that are addresses
    InRange,        \* the addresses of the target's range
    JobResults      \* sequences of result rows that a job may leave

ASSUME JobViewsAssumption ==
    /\ Host \in [Text -> Text] /\ Addresses \subseteq Text /\ InRange \subseteq Addresses
    /\ JobResults \subseteq Seq([address : Addresses, state : STRING,
                                 code : STRING \cup {NULL}, hostname : Optional])

\* The rows of a query, by address; of rows with one address the last counts.
ByAddress(rows, Address(_)) == Dict(rows, LAMBDA r, s : Address(r) = Address(s))
At(dict, Address(_), a) ==
    LET hits == {i \in DOMAIN dict : Address(dict[i]) = a}
    IN  IF hits = {} THEN NULL ELSE dict[CHOOSE i \in hits : TRUE]

\* snapshot_ip
Blank(v) == v \in {NULL, ""}
HostOf(d) == IF Blank(d.ip) THEN NULL ELSE Host[d.ip]
AddressOf(r) == r.address

\* The newest NetBox snapshot when the run started.  Of equal time stamps any
\* one counts; without a snapshot nothing is expected.
BaselineBefore(started) ==
    LET known == {i \in DOMAIN snapshots : snapshots[i].source = "netbox"
                                           /\ snapshots[i].captured <= started}
        newest == {i \in known : \A j \in known : snapshots[j].captured <= snapshots[i].captured}
    IN  IF newest = {} THEN {<<>>} ELSE {snapshots[i].devices : i \in newest}

\* The devices of the range.  One address that is none empties the list.
ExpectedIn(devices) ==
    LET addressed == SelectSeq(devices, LAMBDA d : ~ Blank(d.ip))
    IN  IF \E d \in ToSet(addressed) : HostOf(d) \notin Addresses THEN <<>>
        ELSE SelectSeq(addressed, LAMBDA d : HostOf(d) \in InRange)

\* The state that is shown for a result row.
ShownState(r) ==
    IF r.code = "TRANSPORT_UNAVAILABLE" /\ r.state = "reachable_no_management"
    THEN "unverified" ELSE r.state

\* identity_match_method: what two devices agree in, or NULL.
IdentityMatchMethod(e, name, serial) ==
    LET same(a, b) == ~ Blank(a) /\ ~ Blank(b) /\ Key(a) = Key(b)
    IN  IF same(e.name, name) THEN "name"
        ELSE IF same(e.serial, serial) THEN "serial" ELSE NULL

\* The category of an address at which NetBox has e, the job found o and the
\* live snapshot has d.
Category(e, o, d) ==
    LET name == IF d = NULL THEN o.hostname ELSE d.name
        serial == IF d = NULL THEN NULL ELSE d.serial
    IN  IF o = NULL THEN "netbox_only"
        ELSE IF e = NULL THEN "discovered_only"
        ELSE IF IdentityMatchMethod(e, name, serial) # NULL THEN "matched"
        ELSE "identity_mismatch"

\* get_cidr_variance, for the devices of the baseline and of the live snapshot
\* of the run, of which there may be none.
CidrVariance(results, baseline, live) ==
    LET expected == ExpectedIn(baseline)
        netbox == ByAddress(expected, HostOf)
        found == ByAddress(SelectSeq(results, LAMBDA r :
                     ShownState(r) \in {"discovered", "partial_discovery"}), AddressOf)
        seen == ByAddress(SelectSeq(live, LAMBDA d : ~ Blank(d.ip)), HostOf)
        all == {HostOf(d) : d \in ToSet(netbox)} \cup {r.address : r \in ToSet(found)}
        category == [a \in all |-> Category(At(netbox, HostOf, a), At(found, AddressOf, a),
                                            At(seen, HostOf, a))]
        Number(c) == Cardinality({a \in all : category[a] = c})
        In(state) == Len(SelectSeq(results, LAMBDA r : ShownState(r) = state))
    IN  [category |-> category, discovered |-> Len(found), netbox |-> Len(expected),
         matched |-> Number("matched"),
         variances |-> Number("netbox_only") + Number("discovered_only")
                       + Number("identity_mismatch"),
         netboxOnly |-> Number("netbox_only"), discoveredOnly |-> Number("discovered_only"),
         mismatch |-> Number("identity_mismatch"),
         unverified |-> In("unverified"), unreachable |-> In("unreachable")]

\* get_job_devices: the model is that of the live device with the very address.
JobDevices(results, live) ==
    LET models == ByAddress(SelectSeq(live, LAMBDA d : d.ip # NULL), LAMBDA d : d.ip)
    IN  [i \in DOMAIN results |->
            LET d == At(models, LAMBDA x : x.ip, results[i].address) IN
            [address |-> results[i].address, state |-> ShownState(results[i]),
             model |-> IF d = NULL THEN NULL ELSE d.model]]

-----------------------------------------------------------------------------
(* Properties.                                                               *)

LiveOrNone == {<<>>} \cup {snapshots[i].devices : i \in
                              {j \in DOMAIN snapshots : snapshots[j].source = "live"}}

NoneTwice(rows, Address(_)) == \A i, j \in DOMAIN rows : Address(rows[i]) = Address(rows[j]) => i = j

\* The variance of a range accounts for each expected and each discovered
\* device once, whatever was synchronised since the run started; it agrees with
\* the list of the job's devices, and what it calls matched is what a
\* comparison of the two snapshots would not report as missing
\* (get_cidr_variance, get_job_devices, InventoryMatcher).
VarianceIsAccounted ==
    \A results \in JobResults, started \in Times, live \in LiveOrNone :
        \A baseline \in BaselineBefore(started) :
            LET v == CidrVariance(results, baseline, live)
                rows == JobDevices(results, live)
                expected == ExpectedIn(baseline)
                Shown(states) == Len(SelectSeq(rows, LAMBDA r : r.state \in states))
            IN  /\ v.matched + v.variances = Cardinality(DOMAIN v.category)
                /\ v.matched + v.mismatch + v.discoveredOnly = v.discovered
                /\ v.matched + v.mismatch + v.netboxOnly <= v.netbox
                /\ NoneTwice(expected, HostOf) =>
                      v.matched + v.mismatch + v.netboxOnly = v.netbox
                /\ NoneTwice(results, AddressOf) =>
                      v.discovered = Shown({"discovered", "partial_discovery"})
                /\ v.unverified = Shown({"unverified"})
                /\ v.unreachable = Shown({"unreachable"})
                /\ \A i \in DOMAIN expected, j \in DOMAIN live :
                      /\ HostOf(live[j]) = HostOf(expected[i])
                      /\ NoneTwice(expected, HostOf)
                      /\ ~ Blank(expected[i].serial) => Key(expected[i].serial) # ""
                      /\ \A k \in DOMAIN live : HostOf(live[k]) = HostOf(live[j]) => k = j
                      => LET c == v.category[HostOf(expected[i])] IN
                         /\ c = "matched" => Counterpart(expected[i], live) # 0
                         /\ c = "identity_mismatch" => Counterpart(expected[i], live) # j

\* What is shown of the history agrees in all views.
ViewsAgree == DrillDownAgrees /\ ListingsAreComplete /\ VarianceIsAccounted
=============================================================================
