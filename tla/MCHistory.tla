------------------------------ MODULE MCHistory ------------------------------
(* Small inventories for History: a device that agrees with NetBox, conflicts*)
(* with it, was renamed, is missing, or is unknown to NetBox.                *)
EXTENDS JobViews

MCText == {"", "a", "A ", "b", "s", "t", "m", "n", "x", "1", "2", "i", "i/8", "j", "j/8"}
MCStrip == [t \in MCText |-> t]
MCFold == [t \in MCText |-> IF t = "A " THEN "a" ELSE t]
MCWithin == [t \in MCText |-> IF t = "" THEN MCText ELSE {t}]
MCRank == [t \in MCText |-> CASE t = "" -> 0 [] t = "a" -> 2 [] t = "A " -> 2 [] OTHER -> 3]

MCHost == [t \in MCText |-> CASE t = "i/8" -> "i" [] t = "j/8" -> "j" [] OTHER -> t]

Expected(name, serial, model, ip) ==
    [name |-> name, serial |-> serial, ip |-> ip, model |-> model, platform |-> NULL,
     interfaces |-> <<>>]

Seen(id, name, serial, model) ==
    [id |-> id, name |-> name, serial |-> serial, ip |-> IF id = "1" THEN "i" ELSE "j", model |-> model,
     platform |-> "x",
     interfaces |-> << [name |-> "x", admin |-> NULL, mac |-> NULL, descr |-> NULL] >>,
     vlans |-> IF id = "1" THEN <<>> ELSE << [vid |-> "x", name |-> "x", status |-> NULL] >>,
     neighbors |-> IF id = "1" THEN <<>> ELSE << [local |-> "x", remote |-> "a"] >>]

\* No inventory has a row twice.
NoRowTwice(inventories) == {s \in inventories : IsInjective(s)}

MCNetBox == NoRowTwice({
    << Expected("a", "s", "m", "i/8") >>,
    << Expected("b", NULL, "m", "i"), Expected("a", "s", "n", "j/8") >>,
    << Expected("a", "", "m", NULL), Expected("b", "t", "m", "x") >> })

MCLive == NoRowTwice({
    <<>>,
    << Seen("1", "A ", "s", "m") >>,
    << Seen("2", "b", "s", "m") >>,
    << Seen("1", "b", NULL, "m"), Seen("2", "a", "t", "m") >> })

Result(address, state, code, hostname) ==
    [address |-> address, state |-> state, code |-> code, hostname |-> hostname]

MCResults ==
    { << Result("i", "discovered", NULL, "a"), Result("j", "unreachable", NULL, NULL) >>,
      << Result("i", "reachable_no_management", "TRANSPORT_UNAVAILABLE", NULL),
         Result("j", "partial_discovery", NULL, NULL) >>,
      << Result("i", "authentication_failed", NULL, NULL), Result("j", "discovered", NULL, "b") >> }

\* Saturday morning and evening, Sunday evening.
MCTimes == {10, 11, 13}
=============================================================================
