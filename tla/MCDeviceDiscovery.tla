------------------------- MODULE MCDeviceDiscovery -------------------------
(* Instances of DeviceDiscovery for TLC. *)
EXTENDS DeviceDiscovery

P(types, ctype) == [types |-> types, ctype |-> ctype]
T(profile, fallback, preferred, telnet, http) ==
    [profile |-> profile, fallback |-> fallback, preferred |-> preferred,
     telnet |-> telnet, http |-> http, enabled |-> TRUE]

SshTelnet == P(<<"ssh", "telnet">>, "ssh_password")
SshSnmp   == P(<<"ssh", "snmp">>, "ssh_key")

SnmpOnly  == P(<<"snmp">>, "http_token")   \* nothing it can serve

MCProfiles == {SshTelnet, SshSnmp, SnmpOnly}

\* Single-transport targets, and chains of up to two transports; patches mix their
\* fields.
MCTargets == {T(NULL, <<>>, "ssh", FALSE, FALSE),
              T(NULL, <<"telnet">>, NULL, TRUE, FALSE),
              T(NULL, <<"http">>, "http", TRUE, TRUE),
              T(SshTelnet, <<"ssh">>, "telnet", TRUE, FALSE),
              T(SshSnmp, <<"snmp">>, "ssh", FALSE, FALSE),
              T(SnmpOnly, <<>>, "snmp", FALSE, FALSE)}
=============================================================================
