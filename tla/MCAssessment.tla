---------------------------- MODULE MCAssessment ----------------------------
(* Inputs of Assessment for TLC, in two families: inventories without        *)
(* policies, and policies, contexts and exceptions over a fixed inventory.   *)
EXTENDS Assessment

MCText == {"", " ", "a", "A ", "b", "s", "t", "m", "n", "x", "1", "2", "10", "20",
           "up", "down", "hq", "lab"}
MCStrip == [t \in MCText |-> CASE t = " " -> "" [] OTHER -> t]
MCFold == [t \in MCText |-> CASE t = "A " -> "a" [] OTHER -> t]
MCWithin == [t \in MCText |-> IF t = "" THEN MCText ELSE {t}]
MCNumber == [t \in {"1", "2", "10", "20"} |->
                CASE t = "1" -> 1 [] t = "2" -> 2 [] t = "10" -> 10 [] OTHER -> 20]

-----------------------------------------------------------------------------
Site(site) == [s \in Scopes |-> IF s = "site" THEN site ELSE NULL]

Family(datasets, collections, authored, plain, exceptions, contexts) ==
    [dataset |-> datasets, collections |-> collections, authored |-> authored,
     plain |-> plain, exceptions |-> exceptions, context |-> contexts]

\* Inventories without policies.
Inventories(datasets, collections) ==
    Family(datasets, collections, {<<>>}, {<<>>}, {{}}, {Site(NULL)})

Expected1(name, serial, model) ==
    [name |-> name, serial |-> serial, ip |-> NULL, model |-> model, platform |-> NULL]
ExpectedDevices == {Expected1(n, s, "m") : n \in {"a", "b"}, s \in {NULL, "s"}}

Record(id, name, serial, model) ==
    [id |-> id, name |-> name, serial |-> serial, ip |-> NULL, model |-> model,
     platform |-> "x"]
Records == {Record(id, n, s, "m") : id \in {"1", "2"}, n \in {"a", "A ", "b"},
                                    s \in {NULL, "s", "t"}}
           \cup {Record("1", " ", "s", "m"), Record(" ", "a", "s", "m"),
                 Record("2", "b", "s", "n"), Record("2", "b", "t", " ")}

Result(devices, vlans) ==
    [devices |-> devices, interfaces |-> <<>>, vlans |-> vlans, neighbors |-> <<>>]

Collected == {<< Result(d, <<>>) >> : d \in BoundedSeq(Records, 1)}
             \cup {<< Result(<<d, e>>, <<>>) >> : d, e \in Records}
             \cup {<< Result(<<d>>, <<>>), Result(<<e>>, <<>>) >> : d, e \in Records}

\* NetBox knows one interface of device a.
Dataset(devices, vlans) ==
    [devices |-> devices, vlans |-> vlans,
     interfaces |-> << [device |-> "a", name |-> "x", enabled |-> TRUE, mac |-> NULL,
                        descr |-> NULL] >>]

DeviceCases ==
    Inventories({Dataset(n, <<>>) : n \in BoundedSeq(ExpectedDevices, 2)}, Collected)

\* Two devices that agree with NetBox, with VLANs, interfaces and neighbours.
VlanOf(d, v, n) == [device |-> d, vid |-> v, name |-> n, status |-> NULL]
SeenVlans == {<<>>} \cup {<<VlanOf(d, v, n)>> : d \in {"1", "2"}, v \in {"10", "20"},
                                               n \in {"a", "b", " "}}
Both == << Record("1", "a", NULL, "m"), Record("2", "b", NULL, "m") >>
Extra == {<<>>, <<"1">>}
NetBoxVlans == BoundedSeq({[vid |-> v, name |-> t, status |-> NULL] :
                              v \in {"10", "20"}, t \in {"a", "b"}}, 2)
VlanCases ==
    Inventories(
        {Dataset(<<Expected1("a", NULL, "m"), Expected1("b", NULL, "m")>>, n) : n \in NetBoxVlans},
        {<< [devices |-> Both, vlans |-> v \o w,
             interfaces |-> [i \in DOMAIN f |-> [device |-> f[i], name |-> "x",
                                                admin |-> "up", mac |-> NULL,
                                                descr |-> NULL]],
             neighbors |-> [i \in DOMAIN g |-> [device |-> g[i], local |-> "x",
                                               remote |-> "b"]]] >> :
            v \in SeenVlans, w \in SeenVlans, f \in Extra, g \in Extra})

\* One VLAN, whose status NetBox or the devices may not know.
WithStatus(d, s) == [device |-> d, vid |-> "10", name |-> "a", status |-> s]
SeenStatus == {<<>>} \cup {<<WithStatus(d, s)>> : d \in {"1", "2"},
                                                s \in {NULL, " ", "up", "down"}}
StatusCases ==
    Inventories(
        {Dataset(<<Expected1("a", NULL, "m"), Expected1("b", NULL, "m")>>, n) :
            n \in BoundedSeq({[vid |-> "10", name |-> "a", status |-> s] :
                                 s \in {NULL, "up", "down"}}, 2)},
        {<< Result(Both, v \o w) >> : v \in SeenStatus, w \in SeenStatus})

-----------------------------------------------------------------------------
Rule(tags, type, expected, subject, kind, risk) ==
    [tags |-> tags, type |-> type, expected |-> expected, subject |-> subject,
     field |-> NULL, kind |-> kind, risk |-> risk]
MCRules ==
    [k \in {"same", "present", "newer", "typo"} |->
        CASE k = "same"    -> Rule(<<>>, "equals", NULL, NULL, "modified", NULL)
          [] k = "present" -> Rule(<< <<"site", "hq">> >>, "exists", NULL, "device", NULL, 1)
          [] k = "newer"   -> Rule(<<>>, "greater_than", "1", "vlan", "modified", NULL)
          [] k = "typo"    -> Rule(<<>>, "eqals", NULL, "vlan", NULL, NULL)]
MCHolds == [t \in RuleTypes |-> {}]

\* One device has another model, one is missing, and a VLAN is called vlan.
Drifted(vlans, authored, plain, exceptions, sites) ==
    Family({Dataset(<<Expected1("a", NULL, "m"), Expected1("b", NULL, "m")>>,
                    <<[vid |-> "10", name |-> "1", status |-> NULL]>>)},
           {<< Result(<<Record("1", "a", NULL, "n")>>, <<VlanOf("1", "10", v)>>) >> :
               v \in vlans},
           authored, plain, exceptions, {Site(s) : s \in sites})

Policy(id, key, version, rules, parents, tags) ==
    [id |-> id, key |-> key, version |-> version, rules |-> rules, parents |-> parents,
     tags |-> tags, lifecycle |-> "approved"]

Parents == {<<>>} \cup {<<i>> : i \in 1 .. 4} \cup {<<i, j>> : i, j \in 1 .. 3}

\* Three policies that inherit from each other in every way, the third of them
\* in two versions.
InheritanceCases ==
    Drifted({"2"},
            {<< Policy(1, "p", 1, <<"same">>, x, <<>>),
                Policy(2, "q", 1, <<"present">>, y, <<>>),
                Policy(3, "r", 2, <<"newer">>, z, <<>>),
                Policy(3, "r", 1, <<"same", "newer">>, <<>>, <<>>) >> :
               x \in Parents, y \in Parents, z \in {<<>>, <<1>>, <<2>>, <<3>>, <<2, 1>>}},
            {<<>>}, {{}}, {"hq"})

Exceptions == {[rule |-> r, subject |-> s, id |-> i, expired |-> x] :
                  r \in {NULL, "same", "present"}, s \in {NULL, "device"},
                  i \in {NULL, <<"a">>, <<"b">>}, x \in BOOLEAN}
RuleLists == {<<"same">>, <<"present", "same">>, <<"newer">>, <<"typo">>, <<"same", "same">>,
              <<"unknown">>}
Tags == {<<>>, << <<"site", "hq">> >>, << <<"site", "lab">>, <<"site", "hq">> >>,
         << <<"building", "x">> >>, << <<"galaxy", "x">> >>}

\* Two policies over one drift, with scopes, exceptions and rules that raise.
VerdictCases ==
    Drifted({"2", "x"},
            {<< Policy(1, "p", 1, r, <<>>, t), Policy(2, "q", 1, q, <<>>, <<>>) >> :
               r \in RuleLists, q \in {<<"same">>, <<"newer", "present">>}, t \in Tags},
            {<< [id |-> 4, version |-> 0, enabled |-> on, tags |-> <<>>,
                 rules |-> <<"present">>] >> : on \in BOOLEAN},
            {{}} \cup {{x} : x \in Exceptions}, {"hq", "lab"})

MCCases == {DeviceCases, VlanCases, StatusCases, InheritanceCases, VerdictCases}
=============================================================================
