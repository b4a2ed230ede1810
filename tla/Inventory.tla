------------------------------ MODULE Inventory ------------------------------
(* What a comparison reads: the live inventory, normalised from the records  *)
(* that parsers produce and merged over several collections, and the         *)
(* canonical inventory mapped from a NetBox dataset.  A text is a member of  *)
(* Text; Strip and Fold are what str.strip and str.casefold do to it.        *)
EXTENDS Integers, SequencesExt

CONSTANTS NULL, Text, Strip, Fold

ASSUME TextAssumption ==
    /\ "" \in Text /\ NULL \notin Text
    /\ Strip \in [Text -> Text] /\ Fold \in [Text -> Text]
    /\ \A t \in Text : Strip[Strip[t]] = Strip[t] /\ Fold[Fold[t]] = Fold[t]

Key(v) == IF v = NULL THEN "" ELSE Fold[Strip[v]]

OptionalText(v) == IF v = NULL \/ Strip[v] = "" THEN NULL ELSE Strip[v]

\* dict[Key(x)] = x : the first position of a key, the last value given to it.
Put(dict, x, Same(_, _)) ==
    IF \E i \in DOMAIN dict : Same(dict[i], x)
    THEN [i \in DOMAIN dict |-> IF Same(dict[i], x) THEN x ELSE dict[i]]
    ELSE Append(dict, x)

Dict(seq, Same(_, _)) == FoldLeft(LAMBDA d, x : Put(d, x, Same), <<>>, seq)

-----------------------------------------------------------------------------
(* Live inventory.  A parser result has the records of each kind, in order,  *)
(* each naming its device.                                                   *)

Of(records, id) == SelectSeq(records, LAMBDA r : Strip[r.device] = id)

Interfaces(result, id) ==
    LET named == SelectSeq(Of(result.interfaces, id), LAMBDA r : Strip[r.name] # "")
    IN  [i \in DOMAIN named |->
            [name |-> Strip[named[i].name], admin |-> OptionalText(named[i].admin),
             mac |-> OptionalText(named[i].mac),
             descr |-> OptionalText(named[i].descr)]]

Vlans(result, id) ==
    LET known == SelectSeq(Of(result.vlans, id),
                           LAMBDA r : r.vid # NULL /\ Strip[r.name] # "")
    IN  [i \in DOMAIN known |->
            [vid |-> known[i].vid, name |-> Strip[known[i].name],
             status |-> OptionalText(known[i].status)]]

Neighbors(result, id) ==
    LET known == SelectSeq(Of(result.neighbors, id),
                           LAMBDA r : Strip[r.local] # "" /\ Strip[r.remote] # "")
    IN  [i \in DOMAIN known |->
            [local |-> Strip[known[i].local], remote |-> Strip[known[i].remote]]]

ToSnapshot(result) ==
    [i \in DOMAIN result.devices |->
        LET d == result.devices[i]
            id == Strip[d.id]
        IN  [id |-> id, name |-> Strip[d.name],
             serial |-> OptionalText(d.serial), ip |-> OptionalText(d.ip),
             model |-> OptionalText(d.model), platform |-> OptionalText(d.platform),
             interfaces |-> Interfaces(result, id), vlans |-> Vlans(result, id),
             neighbors |-> Neighbors(result, id)]]

ValidParsedResult(result) ==
    result.devices \o result.interfaces \o result.vlans \o result.neighbors # <<>>

ValidSnapshot(devices) ==
    /\ \A i \in DOMAIN devices : devices[i].id # ""
    /\ \A i, j \in DOMAIN devices : devices[i].id = devices[j].id => i = j

\* NormalizationEngine.normalize raises what its validator refuses.
Normalizes(result) == ValidParsedResult(result) /\ ValidSnapshot(ToSnapshot(result))

SameDevice(d, e) == d.id = e.id

Merge(snapshots) == Dict(FlattenSeq(snapshots), SameDevice)

-----------------------------------------------------------------------------
(* NetBox inventory.  A device is mapped without its interfaces, which the   *)
(* dataset lists apart.                                                      *)

NetBoxDevice(d) ==
    [name |-> d.name, serial |-> d.serial, ip |-> d.ip, model |-> d.model,
     platform |-> d.platform, interfaces |-> <<>>]

ToInventory(dataset) ==
    [devices |-> [i \in DOMAIN dataset.devices |-> NetBoxDevice(dataset.devices[i])],
     vlans |-> dataset.vlans]
=============================================================================
