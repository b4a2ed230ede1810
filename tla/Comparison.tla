----------------------------- MODULE Comparison -----------------------------
(* The comparison engine: it matches NetBox devices with live ones, collects *)
(* the differences, one per key, and makes a finding of each.                *)
EXTENDS Inventory, FiniteSets

CONSTANT Within      \* Within[t] : the texts that contain t

ASSUME WithinAssumption == \A t \in Text : Within[t] \subseteq Text /\ t \in Within[t]

LiveByName(live, key) ==
    LET hits == {i \in DOMAIN live : Key(live[i].name) = key}
    IN  IF hits = {} THEN 0 ELSE Max(hits)

LiveBySerial(live, key) ==
    LET hits == {i \in DOMAIN live : Key(live[i].serial) = key}
    IN  IF hits = {} THEN 0 ELSE Min(hits)

\* Counterpart without the question whether NetBox knows a serial number.
CounterpartBlank(n, live) ==
    LET named == LiveByName(live, Key(n.name))
    IN  IF named = 0 THEN LiveBySerial(live, Key(n.serial)) ELSE named

\* The position of the live device that NetBox device n is matched with, or 0.
Counterpart(n, live) ==
    LET named == LiveByName(live, Key(n.name))
    IN  IF named = 0 /\ n.serial \notin {NULL, ""}
        THEN LiveBySerial(live, Key(n.serial))
        ELSE named

Missing(netbox, live) == SelectSeq(netbox, LAMBDA n : Counterpart(n, live) = 0)

Unexpected(netbox, live) ==
    LET found == {live[Counterpart(n, live)].id :
                    n \in {m \in ToSet(netbox) : Counterpart(m, live) # 0}}
    IN  SelectSeq(live, LAMBDA d : d.id \notin found)

\* Pairs of a NetBox device and the live device it is matched with.
Matched(netbox, live) ==
    LET known == SelectSeq(netbox, LAMBDA n : Counterpart(n, live) # 0)
    IN  [i \in DOMAIN known |->
            [n |-> known[i], d |-> live[Counterpart(known[i], live)]]]

Duplicates(devices) ==
    {k \in {Key(devices[i].name) : i \in DOMAIN devices} \ {""} :
        Cardinality({i \in DOMAIN devices : Key(devices[i].name) = k}) > 1}

-----------------------------------------------------------------------------
(* The comparators.                                                          *)

Difference(type, subject, id, field, expected, observed) ==
    [type |-> type, subject |-> subject, id |-> id, field |-> field,
     expected |-> expected, observed |-> observed]

CompareIdentities(netbox, live) ==
    LET Found(k) == Difference("duplicate", "device", <<k>>, "", NULL, k)
    IN  SetToSeq({Found(k) : k \in Duplicates(netbox)})
        \o SetToSeq({Found(k) : k \in Duplicates(live)})

\* A field differs if both sides know it and its values differ.
Modified(subject, id, field, expected, observed) ==
    IF Key(expected) = "" \/ Key(observed) = "" \/ Key(expected) = Key(observed)
    THEN <<>>
    ELSE << Difference("modified", subject, id, field, expected, observed) >>

\* The same for interfaces and VLANs, where blanks are a value.
ModifiedText(subject, id, field, expected, observed) ==
    IF {expected, observed} \cap {NULL, ""} # {} \/ Key(expected) = Key(observed)
    THEN <<>>
    ELSE << Difference("modified", subject, id, field, expected, observed) >>

CompareMatchedDevice(n, d) ==
    Modified("device", <<n.name>>, "serial", n.serial, d.serial)
    \o Modified("device", <<n.name>>, "primary_ip", n.ip, d.ip)
    \o Modified("device", <<n.name>>, "model", n.model, d.model)

CompareDevices(netbox, live) ==
    LET missing == Missing(netbox, live)
        unexpected == Unexpected(netbox, live)
        matched == Matched(netbox, live)
    IN  [i \in DOMAIN missing |->
            Difference("missing", "device", <<missing[i].name>>, "", missing[i].name, NULL)]
        \o [i \in DOMAIN unexpected |->
            Difference("unexpected", "device", <<unexpected[i].name>>, "", NULL,
                       unexpected[i].name)]
        \o FlattenSeq([i \in DOMAIN matched |->
                          CompareMatchedDevice(matched[i].n, matched[i].d)])

SameName(a, b) == Key(a.name) = Key(b.name)

CompareInterface(id, n, d) ==
    LET admin == IF n.enabled THEN "up" ELSE "down"
    IN  (IF d.admin \in {NULL, admin} THEN <<>>
         ELSE << Difference("modified", "interface", id, "enabled", admin, d.admin) >>)
        \o ModifiedText("interface", id, "mac_address", n.mac, d.mac)
        \o ModifiedText("interface", id, "description", n.descr, d.descr)

CompareInterfaces(matched) ==
    LET Expected(p) == Dict(p.n.interfaces, SameName)
        Observed(p) == Dict(p.d.interfaces, SameName)
        Id(p, i) == << p.n.name, i.name >>
        OfExpected(p, i) ==
            LET seen == SelectSeq(Observed(p), LAMBDA o : SameName(o, i))
            IN  IF seen = <<>>
                THEN << Difference("missing", "interface", Id(p, i), "", i.name, NULL) >>
                ELSE CompareInterface(Id(p, i), i, seen[1])
        OfObserved(p, o) ==
            IF \E i \in ToSet(Expected(p)) : SameName(i, o) THEN <<>>
            ELSE << Difference("unexpected", "interface", Id(p, o), "", NULL, o.name) >>
        OfPair(p) ==
            FlattenSeq([i \in DOMAIN Expected(p) |-> OfExpected(p, Expected(p)[i])])
            \o FlattenSeq([i \in DOMAIN Observed(p) |-> OfObserved(p, Observed(p)[i])])
    IN  FlattenSeq([k \in DOMAIN matched |-> OfPair(matched[k])])

SameVlan(a, b) == a.vid = b.vid

\* VLANs are compared by number for the whole inventory: of the live devices
\* that have one, the last one gives its name and status.
CompareVlans(netbox, live) ==
    LET expected == Dict(netbox, SameVlan)
        observed == Dict(FlattenSeq([i \in DOMAIN live |-> live[i].vlans]), SameVlan)
        OfExpected(v) ==
            LET seen == SelectSeq(observed, LAMBDA o : SameVlan(o, v))
            IN  IF seen = <<>>
                THEN << Difference("missing", "vlan", <<v.vid>>, "", v.name, NULL) >>
                ELSE (IF Key(v.name) = Key(seen[1].name) THEN <<>>
                      ELSE << Difference("modified", "vlan", <<v.vid>>, "name",
                                         v.name, seen[1].name) >>)
                     \o ModifiedText("vlan", <<v.vid>>, "status", v.status, seen[1].status)
        OfObserved(o) ==
            IF \E v \in ToSet(expected) : SameVlan(o, v) THEN <<>>
            ELSE << Difference("unexpected", "vlan", <<o.vid>>, "", NULL, o.name) >>
    IN  FlattenSeq([i \in DOMAIN expected |-> OfExpected(expected[i])])
        \o FlattenSeq([i \in DOMAIN observed |-> OfObserved(observed[i])])

CompareNeighbors(live) ==
    FlattenSeq([i \in DOMAIN live |->
        [k \in DOMAIN live[i].neighbors |->
            LET n == live[i].neighbors[k]
            IN  Difference("unsupported", "neighbor", << live[i].name, n.local, n.remote >>,
                           "", NULL, n.remote)]])

PlatformMatches(expected, observed) ==
    \/ expected = NULL \/ observed = NULL
    \/ Key(observed) \in Within[Key(expected)]

ComparePlatforms(matched) ==
    LET Of1(p) == IF PlatformMatches(p.n.platform, p.d.platform) THEN <<>>
                  ELSE << Difference("modified", "platform", << p.n.name >>, "platform",
                                     p.n.platform, p.d.platform) >>
    IN  FlattenSeq([k \in DOMAIN matched |-> Of1(matched[k])])

-----------------------------------------------------------------------------
(* The engine.                                                               *)

SameKey(a, b) ==
    /\ a.type = b.type /\ a.subject = b.subject
    /\ a.id = b.id /\ a.field = b.field

\* DifferenceRegistry: of the differences with one key the last one stays.
Registered(differences) == ToSet(Dict(differences, SameKey))

Severity(type) ==
    CASE type \in {"missing", "conflict"}      -> "high"
      [] type \in {"unexpected", "modified"}   -> "medium"
      [] type = "duplicate"                    -> "high"
      [] OTHER                                 -> "info"

Compare(inventory, live) ==
    LET netbox  == inventory.devices
        matched == Matched(netbox, live)
    IN  Registered(CompareIdentities(netbox, live) \o CompareDevices(netbox, live)
                   \o CompareInterfaces(matched) \o CompareVlans(inventory.vlans, live)
                   \o CompareNeighbors(live) \o ComparePlatforms(matched))

Findings(differences) ==
    {[difference |-> d, severity |-> Severity(d.type)] : d \in differences}

=============================================================================
