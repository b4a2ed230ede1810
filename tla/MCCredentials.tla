--------------------------- MODULE MCCredentials ---------------------------
(* Profiles that serve SSH, Telnet or HTTPS, one that lost its types to a    *)
(* partial update, and targets of two tenants.                              *)
EXTENDS Credentials

CONSTANTS p1, p2, r1, r2

\* Two requests do not differ but for what they do.
Symmetry == Permutations({r1, r2})

MCKeys == {[tenant |-> "t", identifier |-> "a"], [tenant |-> "u", identifier |-> "a"],
           [tenant |-> "u", identifier |-> "b"]}

Form(types, ctype, user, enabled) ==
    [types |-> types, ctype |-> ctype, user |-> user, ref |-> "known", enabled |-> enabled]

MCForms == { Form({"ssh", "telnet"}, "ssh_password", TRUE, TRUE),
             Form({"telnet"}, "telnet_password", TRUE, FALSE),
             Form({"https", "telnet"}, "http_token", FALSE, TRUE),
             [Form(NULL, NULL, FALSE, TRUE) EXCEPT !.ref = "lost"] }

NoSignals == [model |-> NULL, product |-> NULL, string |-> NULL, oid |-> NULL, banner |-> NULL]

MCTargetForms ==
    { [hint |-> NULL, preferred |-> "netmiko", fallback |-> <<>>, ref |-> "vault",
       enabled |-> TRUE, signals |-> NoSignals],
      [hint |-> "other", preferred |-> "telnet", fallback |-> <<"telnet">>, ref |-> "", enabled |-> TRUE,
       signals |-> [NoSignals EXCEPT !.model = "2960", !.banner = "ap"]],
      [hint |-> NULL, preferred |-> NULL, fallback |-> <<>>, ref |-> p1,
       enabled |-> FALSE, signals |-> NoSignals] }

Matches(model, banner) ==
    [model |-> {model}, product |-> {}, string |-> {}, oid |-> {}, banner |-> {banner}]

MCPlatforms ==
    << [family |-> "2960", support |-> {"ssh", "snmp", "telnet"}, capabilities |-> {"vlan", "neighbor"},
        matches |-> Matches("2960", "ios"),
        commands |-> << [category |-> "system", text |-> "version"],
                        [category |-> "poe", text |-> "power"],
                        [category |-> "vlan", text |-> "vlan"],
                        [category |-> "inventory", text |-> "config"],
                        [category |-> "neighbor", text |-> "version"] >>,
        oids |-> << [group |-> "system", oid |-> "1"], [group |-> "poe", oid |-> "2"] >>,
        endpoints |-> <<>>],
       [family |-> "aironet", support |-> {"snmp", "http"}, capabilities |-> {"vlan"},
        matches |-> Matches("1131", "ap"), commands |-> <<>>,
        oids |-> << [group |-> "vlan", oid |-> "3"] >>, endpoints |-> << "/" >>] >>

\* A profile with a target that uses it.
MCStarts ==
    LET k == [tenant |-> "t", identifier |-> "a"]
        p == [tenant |-> "t", types |-> {"ssh", "telnet"}, ctype |-> "ssh_password",
              user |-> TRUE, ref |-> "known", enabled |-> TRUE]
        t == [profile |-> p1, hint |-> "other", preferred |-> "telnet", fallback |-> <<"telnet">>,
              enabled |-> TRUE, ref |-> "known",
              signals |-> [NoSignals EXCEPT !.model = "2960", !.banner = "ap"]]
    IN  { [profiles |-> [i \in {p1} |-> p], targets |-> [l \in {k} |-> t]] }

MCAlias == [f \in {"2960", "ios", "aironet", "other"} |-> IF f = "ios" THEN "2960" ELSE f]
=============================================================================
